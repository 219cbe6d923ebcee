--------------------------- MODULE ReleaseRegister ---------------------------
(***************************************************************************)
(* What a node promises the clients of one target, without its state file, *)
(* links, phases, locks and recoveries: a register that holds the current  *)
(* and the previous version under a revision.  A release is accepted,      *)
(* stays pending, and then its version enters the register in one step, or *)
(* leaves it as it was before, or nothing happens to it at all.  Crashes,  *)
(* failed writes, retries and takeovers are no steps of their own here:    *)
(* they are among the ways in which these few things come about.           *)
(***************************************************************************)
EXTENDS Naturals

CONSTANTS Commits, NoCommit, Releases, NoRelease

VARIABLES current, previous,  \* the pair of versions
          revision,           \* the name of that pair
          pending,            \* the release that is accepted and not decided
          result,             \* what is on record of each release
          want, before,       \* the version it asked for, the pair it found
          told                \* the result last answered to its clients

pair == <<current, previous>>
register == <<pair, revision>>
request == <<want, before>>
vars == <<current, previous, revision, pending, result, want, before, told>>

Versions == Commits \cup {NoCommit}
Final == {"succeeded", "skipped", "failed"}

Init == /\ current = NoCommit /\ previous = NoCommit /\ revision = 1
        /\ pending = NoRelease
        /\ result = [r \in Releases |-> "none"]
        /\ want = [r \in Releases |-> NoCommit]
        /\ before = [r \in Releases |-> <<NoCommit, NoCommit>>]
        /\ told = [r \in Releases |-> "none"]

(* A release is accepted, for the first time or again while it is not      *)
(* decided.  One that was pending until then has failed.                   *)
Accept(r, c) ==
    /\ result[r] \in {"none", "pending"}
    /\ pending' = r
    /\ result' = [q \in Releases |-> CASE q = r -> "pending"
                                       [] q # r /\ q = pending -> "failed"
                                       [] OTHER -> result[q]]
    /\ want' = [want EXCEPT ![r] = c]
    /\ before' = [before EXCEPT ![r] = pair]
    /\ UNCHANGED <<register, told>>

(* The pending release is decided, and its client may learn of it at once; *)
(* or what was done to the register is done, and the release is undecided. *)
Decide(r, status) ==
    /\ pending = r /\ pending' = NoRelease
    /\ result' = [result EXCEPT ![r] = status]
    /\ told' \in {told, [told EXCEPT ![r] = status]}
Undecided(r) == pending = r /\ UNCHANGED <<pending, result, told>>

NewRevision == revision' \in Nat /\ revision' > revision

(* The version of the release enters the register.                         *)
Publish(r) == /\ current' = want[r] /\ previous' = before[r][1]
              /\ NewRevision
              /\ Decide(r, "succeeded") \/ Undecided(r)
              /\ UNCHANGED request

(* The register is as the release found it.                                *)
Undo(r) == /\ current' = before[r][1] /\ previous' = before[r][2]
           /\ NewRevision
           /\ Decide(r, "failed") \/ Undecided(r)
           /\ UNCHANGED request

(* The release changes nothing: it failed, or its version is current.      *)
Leave(r) == /\ \/ Decide(r, "failed")
               \/ Decide(r, "skipped") /\ want[r] = current
            /\ UNCHANGED <<register, request>>

(* A decision that was recorded may be taken back, as the write that       *)
(* recorded it was reported as failed; never one that was answered with    *)
(* success, or with nothing to do.                                         *)
Reconsider(r) == /\ result[r] \in Final /\ told[r] \in {"none", "failed"}
                 /\ pending = NoRelease /\ pending' = r
                 /\ result' = [result EXCEPT ![r] = "pending"]
                 /\ UNCHANGED <<register, request, told>>

(* A result on record is answered.                                         *)
Tell(r) == /\ result[r] \in Final
           /\ told' = [told EXCEPT ![r] = result[r]]
           /\ UNCHANGED <<register, pending, result, request>>

(* A release that is not decided is answered as failed, ahead of a         *)
(* takeover whose record does not get written in the end.                  *)
Hasten(r) == /\ pending = r
             /\ told' = [told EXCEPT ![r] = "failed"]
             /\ UNCHANGED <<register, pending, result, request>>

Next == \E r \in Releases : \/ \E c \in Commits : Accept(r, c)
                            \/ Publish(r)
                            \/ Undo(r)
                            \/ Leave(r)
                            \/ Reconsider(r)
                            \/ Tell(r)
                            \/ Hasten(r)

Spec == Init /\ [][Next]_vars
=============================================================================
