--------------------------- MODULE HandleService ---------------------------
(***************************************************************************)
(* What a ptrStore (go-ptr-id.go) promises its users, without its tables,  *)
(* its reference counts or its id allocator: a proxy target that is bound  *)
(* to a Go object owns a handle, and two bound targets own the same handle *)
(* exactly when they stand for the same object.  A handle may be reused,   *)
(* but only once nobody owns it.                                           *)
(***************************************************************************)
CONSTANTS
  Targets,   \* proxy targets: the JS objects that own a handle
  Objects,   \* the Go pointers that are exported
  Handles,   \* the handles
  NULL       \* no handle, no object

VARIABLES
  open,      \* FALSE once the store has been cleared
  handle,    \* handle[t]: the handle t owns, or NULL
  bound      \* bound[t]: the object t stands for, or NULL

vars == <<open, handle, bound>>

Owners == {t \in Targets : handle[t] # NULL}

Init ==
  /\ open = TRUE
  /\ handle = [t \in Targets |-> NULL]
  /\ bound = [t \in Targets |-> NULL]

\* t gets the handle of o: the one o's other owners have, else a free one.
Bind(t, o, h) ==
  /\ open
  /\ handle[t] = NULL
  /\ handle' = [handle EXCEPT ![t] = h]
  /\ \A u \in Owners : handle[u] = h <=> bound[u] = o
  /\ bound' = [bound EXCEPT ![t] = o]
  /\ UNCHANGED open

Unbind(t) ==
  /\ handle[t] # NULL
  /\ handle' = [handle EXCEPT ![t] = NULL]
  /\ bound' = [bound EXCEPT ![t] = NULL]
  /\ UNCHANGED open

Close ==
  /\ open
  /\ open' = FALSE
  /\ UNCHANGED <<handle, bound>>

Next ==
  \/ \E t \in Targets, o \in Objects, h \in Handles : Bind(t, o, h)
  \/ \E t \in Targets : Unbind(t)
  \/ Close

Spec == Init /\ [][Next]_vars
=============================================================================
