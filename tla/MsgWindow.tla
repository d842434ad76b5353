----------------------------- MODULE MsgWindow ------------------------------
(***************************************************************************)
(* What the message panel promises: a message it is given is put on the    *)
(* screen if it is none of the last K that were, and is held back if it is *)
(* one of them; short memory can cost the panel the record of the message  *)
(* itself and of the oldest one, of no other.                              *)
(*                                                                         *)
(* MsgReceive implements this module with state.msghist.                   *)
(***************************************************************************)
EXTENDS Integers

CONSTANTS
  K,        \* messages remembered
  Keys,     \* what tells messages apart
  None      \* no message

Ages == 0 .. K-1

VARIABLES
  window,   \* the messages remembered, the latest at age 0
  offered,  \* the message the panel was given in the last step
  screen,   \* the message the last step put on the screen
  forgot    \* the messages whose record short memory has cost

mwvars == <<window, offered, screen, forgot>>

MWInit ==
  /\ window = [a \in Ages |-> None]
  /\ offered = None
  /\ screen = None
  /\ forgot = {}

Remembered(k) == \E a \in Ages : window[a] = k

Show(k) ==
  /\ ~Remembered(k)
  /\ offered' = k
  /\ screen' = k
  /\ window' = [a \in Ages |-> IF a = 0 THEN k ELSE window[a-1]]
  /\ forgot' = forgot \ {k}

ShowForgetful(k) ==
  /\ ~Remembered(k)
  /\ offered' = k
  /\ screen' = k
  /\ \E old \in {None, k} : window' = [window EXCEPT ![K-1] = old]
  /\ forgot' = forgot \cup ({k, window[K-1]} \ {None})

\* Only a message that is remembered is held back.
HoldBack(k) ==
  /\ Remembered(k)
  /\ offered' = k
  /\ screen' = None
  /\ UNCHANGED <<window, forgot>>

\* The panel is given no message.
ShowNothing ==
  /\ offered' = None
  /\ screen' = None
  /\ UNCHANGED <<window, forgot>>

MWNext ==
  \/ ShowNothing
  \/ \E k \in Keys : Show(k) \/ ShowForgetful(k) \/ HoldBack(k)

MWSpec == MWInit /\ [][MWNext]_mwvars
=============================================================================
