---------------------------- MODULE SessionClock ----------------------------
(***************************************************************************)
(* The arithmetic behind the two verdicts Sessions reads from the clock.   *)
(* The daemon's clock is finer than the table's: columns hold whole unix   *)
(* seconds, the activation window and the idle TTL any duration of at      *)
(* least one second, and the engine's time limit is computed at full       *)
(* precision.  Time is counted in ticks, Second of them in a second; one   *)
(* session is followed through its mint, first turn and later turns.       *)
(***************************************************************************)
EXTENDS Naturals

CONSTANTS Second, Window, IdleTTL,
          Start,      \* the first instant
          Horizon     \* bound: the last instant

ASSUME ClockAssumption ==
    /\ Second \in Nat \ {0}
    /\ Window \in Nat /\ Window >= Second      \* NewManager's clamps
    /\ IdleTTL \in Nat /\ IdleTTL >= Second
    /\ Start \in Nat /\ Start >= Second        \* validate: created_at > 0
    /\ Horizon \in Nat

VARIABLES
    now,
    phase,                           \* the row's status: none, creating or active
    createdAt, deadline, lastSeen,   \* the row's columns, in seconds
    limit,                           \* when the running turn is killed; 0: no turn
    \* history variables, that no guard reads
    born, used                       \* true instants of the mint and the last turn

clockVars == <<now, phase, createdAt, deadline, lastSeen, limit, born, used>>

ClockTypeOK ==
    /\ now \in Nat /\ now >= Second
    /\ phase \in {"none", "creating", "active"}
    /\ createdAt \in Nat /\ deadline \in Nat /\ lastSeen \in Nat
    /\ limit \in Nat
    /\ born \in Nat /\ used \in Nat

ClockInit ==
    /\ now = Start
    /\ phase = "none"
    /\ createdAt = 0 /\ deadline = 0 /\ lastSeen = 0
    /\ limit = 0
    /\ born = 0 /\ used = 0

Unix(instant) == instant \div Second

\* Seeded fault: the deadline is rounded down.
Deadline_Fault(created) == Unix(created) + Window \div Second

\* mint: the deadline is rounded up to a whole second.
Deadline(created) ==
    LET expiry == created + Window IN
    IF expiry > Unix(expiry) * Second THEN Unix(expiry) + 1 ELSE Unix(expiry)

\* Ensure's and startNew's verdict on a creating row.
Expired == Unix(now) >= deadline

\* startNew's own reading of the same deadline, at full precision.
WindowLeft == deadline * Second > now

IdleSince == IF lastSeen = 0 THEN createdAt ELSE lastSeen

\* Seeded fault: no allowance for the floored columns.
IdleDue_Fault == (Unix(now) - IdleSince) * Second >= IdleTTL

\* rotationCause: one second more than the TTL, for the floored columns.
IdleDue == (Unix(now) - IdleSince) * Second >= IdleTTL + Second

-----------------------------------------------------------------------------
Tick ==
    /\ now < Horizon
    /\ now' = now + 1
    /\ UNCHANGED <<phase, createdAt, deadline, lastSeen, limit, born, used>>

Mint ==
    /\ phase' = "creating"
    /\ createdAt' = Unix(now)
    /\ deadline' = Deadline(now)
    /\ lastSeen' = 0
    /\ born' = now /\ used' = now
    /\ UNCHANGED <<now, limit>>

\* pin, Ensure's expiry retry, and rotationCause's "idle_ttl".
Pin == phase = "none" /\ Mint
Expire == phase = "creating" /\ limit = 0 /\ Expired /\ Mint
Rotate == phase = "active" /\ limit = 0 /\ IdleDue /\ Mint

\* startNew: the engine is given what is left of the window.
StartTurn ==
    /\ phase = "creating" /\ limit = 0 /\ WindowLeft
    /\ limit' = now + (deadline * Second - now)
    /\ UNCHANGED <<now, phase, createdAt, deadline, lastSeen, born, used>>

TouchSession ==
    /\ lastSeen' = Unix(now)
    /\ used' = now

\* The first turn ends well, in time to activate (its touch may be lost)...
FirstTurnOk ==
    /\ phase = "creating" /\ limit # 0 /\ ~Expired
    /\ phase' = "active"
    /\ limit' = 0
    /\ TouchSession \/ UNCHANGED <<lastSeen, used>>
    /\ UNCHANGED <<now, createdAt, deadline, born>>

\* ... or it fails, is killed, or ends too late.
FirstTurnEnds ==
    /\ limit # 0
    /\ limit' = 0
    /\ UNCHANGED <<now, phase, createdAt, deadline, lastSeen, born, used>>

\* A later turn, which only rotationCause stands before.
ResumeTurn ==
    /\ phase = "active" /\ ~IdleDue
    /\ TouchSession
    /\ UNCHANGED <<now, phase, createdAt, deadline, limit, born>>

ClockNext ==
    \/ Tick \/ Pin \/ Expire \/ Rotate
    \/ StartTurn \/ FirstTurnOk \/ FirstTurnEnds \/ ResumeTurn

ClockSpec == ClockInit /\ [][ClockNext]_clockVars

-----------------------------------------------------------------------------
(* Properties *)

\* Every minted row passes validate: it is not born expired, for any
\* sub-second instant and any window of at least a second.
NotBornExpired == phase # "none" => deadline > createdAt

\* The two readings of one deadline, floored seconds in Ensure and full
\* precision in startNew, never disagree: no instant refuses the spawn and
\* the expiry both, or allows both.
VerdictsAgree == phase = "creating" => (WindowLeft <=> ~Expired)

\* A creating row is never expired before its whole window has passed, and
\* always within a second after (mint's rounding).
WindowIsWhole ==
    phase = "creating" =>
        /\ Expired => now >= born + Window
        /\ now >= born + Window + Second => Expired

\* The running engine is killed at the very instant Ensure and the
\* activation guard begin to treat the row as expired: a turn stopped by
\* its limit is never activated, one that beat it always may be.
KilledWhenExpired == limit # 0 => (now >= limit <=> Expired)

\* One deadline, written once in whole seconds, means the same instant to
\* everyone who reads it.
DeadlineIsExact == NotBornExpired /\ VerdictsAgree /\ WindowIsWhole /\ KilledWhenExpired

\* A session is never rotated for idleness before its TTL has truly
\* passed since its last recorded turn (or its mint), and always within
\* two seconds after (rotationCause's extra second).
IdleIsWhole ==
    phase = "active" =>
        /\ IdleDue => now >= used + IdleTTL
        /\ now >= used + IdleTTL + 2 * Second => IdleDue

=============================================================================
