------------------------------ MODULE OnceStore ------------------------------
(***************************************************************************)
(* What core/idempotency.py promises to the requests that carry one        *)
(* Idempotency-Key: the handler takes effect at most once, and every       *)
(* request is refused or answered with the response of that one execution. *)
(***************************************************************************)
CONSTANTS Requests, Body, NoAnswer

VARIABLES executed,  \* the requests whose handler took effect
          answer     \* answer[r]: the request whose response r was given

Init == executed = {} /\ answer = [r \in Requests |-> NoAnswer]

Execute(r) ==
  /\ executed = {}
  /\ answer[r] = NoAnswer
  /\ executed' = {r}
  /\ answer' = [answer EXCEPT ![r] = r]

Replay(r) ==
  /\ answer[r] = NoAnswer
  /\ \E x \in executed : /\ Body[x] = Body[r]
                         /\ answer' = [answer EXCEPT ![r] = x]
  /\ UNCHANGED executed

Next == \E r \in Requests : Execute(r) \/ Replay(r)

Spec == Init /\ [][Next]_<<executed, answer>>

=============================================================================
