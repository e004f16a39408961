------------------------------ MODULE AtomicEdits ------------------------------
(***************************************************************************)
(* What editing an ini file promises, whatever the editors do meanwhile:   *)
(* requests for one file are served in the order they were made, and each  *)
(* turns the text of that moment into the one it asks for, or leaves it.   *)
(***************************************************************************)
EXTENDS Naturals

CONSTANTS Keys, Calls, Request, Text,
          Unasked, Answered, \* no requests: not made yet, and done with
          Disks,             \* what may be on the disk when a request is served
          Edited(_, _, _)    \* what a request makes of a text, with that disk

VARIABLES text,   \* each file's
          key,    \* the file of each call
          asked   \* what each call waits for

vars == <<text, key, asked>>

Init ==
  /\ text \in [Keys -> Text]
  /\ key \in [Calls -> Keys]
  /\ asked = [c \in Calls |-> Unasked]

Ask(c) ==
  /\ asked[c] = Unasked
  /\ asked'[c] \in Request
  /\ asked' = [asked EXCEPT ![c] = asked'[c]]
  /\ UNCHANGED <<text, key>>

Served(c) ==
  /\ asked[c] \in Request
  /\ \A b \in Calls : b < c /\ asked[b] \in Request => key[b] # key[c]
  /\ asked' = [asked EXCEPT ![c] = Answered]
  /\ UNCHANGED key

Apply(c) ==
  /\ Served(c)
  /\ \E d \in Disks : text' = [text EXCEPT ![key[c]] = Edited(asked[c], text[key[c]], d)]

Refuse(c) == Served(c) /\ UNCHANGED text

Next == \E c \in Calls : Ask(c) \/ Apply(c) \/ Refuse(c)

Spec == Init /\ [][Next]_vars
=============================================================================
