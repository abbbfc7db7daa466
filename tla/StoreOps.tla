------------------------------ MODULE StoreOps ------------------------------
(***************************************************************************)
(* The store operations from end to end: the server (BookingIntents) and   *)
(* the consoles people use (ConsoleStoreOps), which meet in versions, roles *)
(* and idempotency keys.  Each side has the other in its own abstraction,  *)
(* so that the two share no state.                                         *)
(***************************************************************************)
EXTENDS BookingIntents

CONSTANTS
  Person,         \* the people at the consoles
  ConsoleRoles,   \* the roles they may start with
  Creator,        \* who created the booking of the list
  ConsoleDraft, ConsoleKey,  \* drafts of the booking form, keys a console draws
  Focus,          \* bound: the sets of controls a behaviour may use
  ConsoleNewRole, \* bound: what an operator makes of a role
  MaxActs, MaxChanges

VARIABLES roleOf, signed, booking, avail, opened, console, acts, changes, focus

consoleVars == <<roleOf, signed, booking, avail, opened, console, acts, changes, focus>>

Console == INSTANCE ConsoleStoreOps WITH
  InitialRoles <- ConsoleRoles, Draft <- ConsoleDraft, Key <- ConsoleKey, NewRole <- ConsoleNewRole,
  role <- roleOf

ASSUME ConsoleAssumption ==
  /\ ConsoleRoles \subseteq [Person -> Role]
  /\ ConsoleNewRole \subseteq Role
  /\ Focus \subseteq SUBSET {"row", "form", "editor"}
  /\ None \notin ConsoleDraft \cup ConsoleKey \cup {"success", "conflict", "forbidden", "unauthenticated"}

-----------------------------------------------------------------------------
\* Whatever answers are lost, a person who asks for a booking once gets it once.
OneBookingPerAttempt == Console!OneBookingPerAttempt

\* The controls of a row are those the server accepts, until the row or the role
\* has changed behind the console.
OffersMatchServer == Console!OffersMatchServer

\* While a version the server has refused is on screen, a read that replaces it is
\* under way.
RefusedVersionGoes == Console!RefusedVersionGoes
=============================================================================
