---------------------------- MODULE OrderStore ----------------------------
(***************************************************************************)
(* The order list of state.json as plain data (app/storage.py): what an    *)
(* order is, and what grooming, insertion, cancellation and an agent       *)
(* report do to the list.  No variables: the modules that own the list     *)
(* apply these operators in their actions.                                 *)
(*                                                                         *)
(* The list is append-only between two purges, so an order is named by its *)
(* rank of creation (the code draws a uuid) and the list is a function     *)
(* from the ranks still listed to the orders.  Times are whole hours.      *)
(***************************************************************************)
EXTENDS Integers, FiniteSets

CONSTANTS
  Servers,          \* names of the registry
  Types,            \* the order types of ORDER_TYPES that are used
  StaleHours,       \* ORDER_STALE_HOURS
  RetentionHours    \* ORDER_TERMINAL_RETENTION_DAYS, in hours

ORDER_TYPES ==
  {"update", "restart", "start", "stop", "install_mod", "remove_mod",
   "backup", "restore_save", "install_game", "scan_exe", "setup_server",
   "list_files", "read_file", "write_file", "update_bepinex_mods"}

ASSUME TypesAssumption == Types \subseteq ORDER_TYPES

ASSUME HoursAssumption ==
  /\ StaleHours \in Nat
  /\ RetentionHours \in Nat

LiveStatuses     == {"pending", "running"}
TerminalStatuses == {"done", "failed"}

\* "admin" stands for every route that passes reject_if (the buttons of the
\* dashboard), "auto" for the callers that do not (auto_enqueue_*, scan_exe).
Authors == {"admin", "auto"}

\* The field `detail` keeps which of the four writers closed the order.
Details == {"none", "reported", "cancelled", "expired"}

Order == [status  : LiveStatuses \union TerminalStatuses,
          server  : Servers,
          type    : Types,
          author  : Authors,
          created : Nat,
          detail  : Details]

IsLive(q, o) == o \in DOMAIN q /\ q[o].status \in LiveStatuses

Live(q) == {o \in DOMAIN q : q[o].status \in LiveStatuses}

\* The two fields every writer of the list sets together.
WithStatus(x, st, d) == [x EXCEPT !.status = st, !.detail = d]

-----------------------------------------------------------------------------
(* Store._groom_orders: drop the closed orders that are past retention,    *)
(* then close the live ones that nobody answered for StaleHours.           *)

Age(q, o, now) == now - q[o].created

PastRetention(q, now) ==
  {o \in DOMAIN q : /\ q[o].status \in TerminalStatuses
                    /\ Age(q, o, now) > RetentionHours}

Expiring(q, now) == {o \in Live(q) : Age(q, o, now) > StaleHours}

Groomed(q, now) ==
  [o \in DOMAIN q \ PastRetention(q, now) |->
     IF o \in Expiring(q, now)
     THEN WithStatus(q[o], "failed", "expired")
     ELSE q[o]]

-----------------------------------------------------------------------------
(* Store.add_order *)

NewOrder(s, t, a, now) ==
  [status |-> "pending", server |-> s, type |-> t, author |-> a,
   created |-> now, detail |-> "none"]

\* The check that forgets the orders already running.
ConflictsPendingOnly(q, s, t) ==
  \E o \in DOMAIN q : q[o].server = s /\ q[o].type = t /\ q[o].status = "pending"

\* The reject_if = "any" check, on the groomed list.
Conflicts(q, s, t) == \E o \in Live(q) : q[o].server = s /\ q[o].type = t

Listed(q, id, order) == [o \in DOMAIN q \union {id} |-> IF o = id THEN order ELSE q[o]]

-----------------------------------------------------------------------------
(* Store.cancel_order and Store.set_order_status *)

\* A cancel that does not look whether the agent has the order.
CanCancelAnyLive(q, o) == IsLive(q, o)

CanCancel(q, o) == o \in DOMAIN q /\ q[o].status = "pending"

\* A cancellation with a status of its own.
CancelledAsStatus(q, o) == [q EXCEPT ![o] = WithStatus(@, "cancelled", "cancelled")]

Cancelled(q, o) == [q EXCEPT ![o] = WithStatus(@, "failed", "cancelled")]

\* A report check that has no terminal status.
AcceptsAnyListed(q, o) == o \in DOMAIN q

\* A report check that refuses running -> done.
AcceptsPendingOnly(q, o) == o \in DOMAIN q /\ q[o].status = "pending"

\* A report is refused on an unknown order (404) and on a closed one (409).
Accepts(q, o) == IsLive(q, o)

Refuses409(q, o) == o \in DOMAIN q /\ q[o].status \in TerminalStatuses

Reported(q, o, st) == [q EXCEPT ![o] = WithStatus(@, st, "reported")]

\* The order types whose "done" says that the game process was (re)launched.
LaunchTypes == {"start", "restart", "update"}

\* What the admin wants of a server, as far as confirmed orders tell.
Wishes == {"none", "running", "stopped"}

\* The effect of an order done on what the admin wants of its server.
DesiredAfter(desired, s, t) ==
  IF t \in LaunchTypes THEN [desired EXCEPT ![s] = "running"]
  ELSE IF t = "stop"   THEN [desired EXCEPT ![s] = "stopped"]
  ELSE desired
=============================================================================
