------------------------------ MODULE FileRead ------------------------------
(***************************************************************************)
(* What reading from an open file promises: every call of ReadAt returns   *)
(* the bytes of the file at its offset, all of them or those up to the end *)
(* of the file, or it fails, and then only when the source has failed      *)
(* while the call was running.  The byte at position i is i.               *)
(***************************************************************************)
EXTENDS Integers, Sequences

CONSTANTS
  Thread,    \* callers of ReadAt
  Idle,      \* not in a call
  Ask,       \* the requests: offsets and lengths
  Size       \* length of the file

VARIABLES
  call,      \* the call of each thread: offset, length, and the failures before it
  answer,    \* what the last call of each thread returned
  failures   \* failures of the source so far

vars == <<call, answer, failures>>

\* The file from off to the end of the request or of the file.
Content(off, n) ==
  LET last == IF off + n < Size THEN off + n ELSE Size
  IN  [i \in 1..(IF off < last THEN last - off ELSE 0) |-> off + i - 1]

Nothing == [data |-> <<>>, err |-> "none"]

Init ==
  /\ call = [t \in Thread |-> Idle]
  /\ answer = [t \in Thread |-> Nothing]
  /\ failures = 0

Call(t) ==
  /\ call[t] = Idle
  /\ \E a \in Ask :
       call' = [call EXCEPT ![t] = [off |-> a.off, n |-> a.n, since |-> failures]]
  /\ answer' = [answer EXCEPT ![t] = Nothing]
  /\ UNCHANGED failures

SourceFails ==
  /\ failures' = failures + 1
  /\ UNCHANGED <<call, answer>>

Complete(t) ==
  LET data == Content(call[t].off, call[t].n)
  IN  answer' = [answer EXCEPT ![t] =
        [data |-> data, err |-> IF Len(data) = call[t].n THEN "none" ELSE "eof"]]

\* A failed call may have delivered a part.
Fail(t) ==
  /\ failures' > call[t].since
  /\ \E k \in 0..call[t].n :
       answer' = [answer EXCEPT ![t] =
                    [data |-> Content(call[t].off, k), err |-> "failed"]]

\* The call may itself be the one that meets the failure.
Return(t) ==
  /\ call[t] # Idle
  /\ failures' \in {failures, failures + 1}
  /\ Complete(t) \/ Fail(t)
  /\ call' = [call EXCEPT ![t] = Idle]

Next == SourceFails \/ \E t \in Thread : Call(t) \/ Return(t)

Spec == Init /\ [][Next]_vars

=============================================================================
