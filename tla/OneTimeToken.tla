---------------------------- MODULE OneTimeToken ----------------------------
(***************************************************************************)
(* What a single-use token promises.  A token is issued, read while it is  *)
(* live, spent, and honoured for those that had read it; the reading and   *)
(* the spending are two operations, so readers may overlap.  When spending *)
(* has failed somewhere, a token may be honoured that is still live.       *)
(***************************************************************************)
EXTENDS Naturals

CONSTANT Token

VARIABLES
  state,     \* of every token
  readers,   \* requests that have read the token and not been answered
  honoured,  \* times the token was honoured
  unsafe     \* a token could not be spent

vars == <<state, readers, honoured, unsafe>>

Init ==
  /\ state = [t \in Token |-> "unissued"]
  /\ readers = [t \in Token |-> 0] /\ honoured = [t \in Token |-> 0]
  /\ unsafe = FALSE

Issue(t) ==
  /\ state[t] = "unissued" /\ state' = [state EXCEPT ![t] = "live"]
  /\ UNCHANGED <<readers, honoured, unsafe>>

Read(t) ==
  /\ state[t] = "live" /\ readers' = [readers EXCEPT ![t] = @ + 1]
  /\ UNCHANGED <<state, honoured, unsafe>>

\* By a reader, or because the token expires.
Spend(t) ==
  /\ state[t] = "live" /\ state' = [state EXCEPT ![t] = "spent"]
  /\ UNCHANGED <<readers, honoured, unsafe>>

SpendFails == unsafe' = TRUE /\ UNCHANGED <<state, readers, honoured>>

Honour(t) ==
  /\ readers[t] > 0 /\ (state[t] = "spent" \/ unsafe)
  /\ readers' = [readers EXCEPT ![t] = @ - 1]
  /\ honoured' = [honoured EXCEPT ![t] = @ + 1]
  /\ UNCHANGED state /\ unsafe' \in {unsafe, TRUE}

Refuse(t) ==
  /\ readers[t] > 0 /\ readers' = [readers EXCEPT ![t] = @ - 1]
  /\ UNCHANGED <<state, honoured>>
  /\ unsafe' \in {unsafe, TRUE}

\* The process restarts, and those it was answering are gone.
Restart == readers' = [t \in Token |-> 0] /\ UNCHANGED <<state, honoured, unsafe>>

Next ==
  \/ SpendFails \/ Restart
  \/ \E t \in Token : Issue(t) \/ Read(t) \/ Spend(t) \/ Honour(t) \/ Refuse(t)

Spec == Init /\ [][Next]_vars
=============================================================================
