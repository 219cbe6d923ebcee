------------------------ MODULE PublisherRefinement ------------------------
(***************************************************************************)
(* Whole applications, whatever fails or crashes in them, implement the    *)
(* register of ReleaseRegister.  The mapping reads nothing but the state   *)
(* file and the answers: what it says is what a client can rely on, also   *)
(* one that looks at it between two steps of a handler or while the        *)
(* service is down.                                                        *)
(***************************************************************************)
EXTENDS Publisher

(* A record that is running or needs recovery is undecided.                *)
ResultOnRecord(record) ==
    CASE record.status = "absent" -> "none"
      [] record.status \in {"running", "recovery_required"} -> "pending"
      [] OTHER -> record.status

Register ==
    INSTANCE ReleaseRegister
    WITH current  <- disk.current,
         previous <- disk.previous,
         revision <- disk.revision,
         pending  <- disk.active,
         result   <- [r \in Releases |-> ResultOnRecord(disk.records[r])],
         want     <- [r \in Releases |-> disk.records[r].request.commit],
         before   <- [r \in Releases |-> <<disk.records[r].baseline,
                                           disk.records[r].baselinePrevious>>],
         told     <- told

(* Every step of the release transaction, of its failures, of crashes and  *)
(* of the recovery at startup is a step of the register or changes nothing *)
(* that a client can see (Runner.apply, commit, restore, uncertain,        *)
(* recoverStartup).                                                        *)
ImplementsRegister == Register!Spec
=============================================================================
