--------------------------- MODULE MessageService ---------------------------
(***************************************************************************)
(* What the event loop promises the handlers, and what module Controller   *)
(* takes as one step: the messages of a connection are handled one at a    *)
(* time and in the order they arrived, each once, until the process exits. *)
(***************************************************************************)
EXTENDS Sequences

CONSTANTS Conns,     \* the connections
          Messages   \* what arrives on them

VARIABLES
  up,       \* the process has not exited
  inbox,    \* per connection, the messages that arrived and wait
  handled   \* per connection, the messages handled

Init ==
  /\ up = TRUE
  /\ inbox = [c \in Conns |-> << >>]
  /\ handled = [c \in Conns |-> << >>]

Arrive(c) ==
  /\ \E m \in Messages : inbox' = [inbox EXCEPT ![c] = Append(@, m)]
  /\ UNCHANGED <<up, handled>>

Serve(c) ==
  /\ up
  /\ inbox[c] # << >>
  /\ handled' = [handled EXCEPT ![c] = Append(@, Head(inbox[c]))]
  /\ inbox' = [inbox EXCEPT ![c] = Tail(@)]
  /\ UNCHANGED up

(* The process may exit in the middle of a message.                        *)
Stop == up' = FALSE /\ UNCHANGED <<inbox, handled>>

Next == Stop \/ \E c \in Conns : Arrive(c) \/ Serve(c)

Spec == Init /\ [][Next]_<<up, inbox, handled>>
=============================================================================
