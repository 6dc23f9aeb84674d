---------------------------- MODULE TelegramPoll ----------------------------
(***************************************************************************)
(* The Telegram poll loop of main.py: getUpdates with the number of the    *)
(* last update plus one, which Telegram takes as an acknowledgement of     *)
(* every update before it, then one handle_update after another.  The      *)
(* number is kept in memory only.  Each bot numbers its own updates.       *)
(***************************************************************************)
EXTENDS Naturals, Sequences, FiniteSets

CONSTANTS
    Bots,         \* the bots whose tokens may be saved
    First,        \* of each bot, the number of its first update
    MaxArrivals,  \* bound: updates a bot receives
    MaxFails,     \* bound: polls that fail
    MaxBoots,
    MaxSwitches   \* bound: times another bot's token is saved

Nothing == 0

ASSUME BotsAssumption == Nothing \notin Bots /\ First \in [Bots -> Nat \ {0}]
ASSUME PollBoundsAssumption == {MaxArrivals, MaxFails, MaxBoots, MaxSwitches} \subseteq Nat

VARIABLES
    bot,        \* the bot whose token is saved, or Nothing
    arrived,    \* of each bot, how many updates it has received
    forgotten,  \* of each bot, the number up to which Telegram has dropped them
    handled,    \* of each update, how often handle_update was called
    last,       \* last_update_id; Nothing after a start
    batch,      \* the updates of the last answer still to be handled
    failures,   \* consecutive_failures
    fails, boots, switches

pollVars == <<bot, arrived, forgotten, handled, last, batch, failures, fails, boots, switches>>

Updates  == UNION {{<<b, n>> : n \in First[b] .. First[b] + MaxArrivals - 1} : b \in Bots}
Sent(b)  == First[b] .. First[b] + arrived[b] - 1

PollInit ==
    /\ bot \in Bots \union {Nothing} /\ arrived = [b \in Bots |-> 0] /\ forgotten = [b \in Bots |-> 0]
    /\ handled = [u \in Updates |-> 0] /\ last = Nothing /\ batch = <<>>
    /\ failures = 0 /\ fails = 0 /\ boots = 0 /\ switches = 0

Arrive(b) ==
    /\ arrived[b] < MaxArrivals /\ arrived' = [arrived EXCEPT ![b] = @ + 1]
    /\ UNCHANGED <<bot, forgotten, handled, last, batch, failures, fails, boots, switches>>

\* The token of another bot is saved, update_config.
SaveToken(b) ==
    /\ b # bot /\ \/ bot = Nothing /\ UNCHANGED switches
                  \/ bot # Nothing /\ switches < MaxSwitches /\ switches' = switches + 1
    /\ bot' = b
    /\ UNCHANGED <<arrived, forgotten, handled, last, batch, failures, fails, boots>>

Offset == IF last = Nothing THEN Nothing ELSE last + 1

\* What Telegram drops is before the offset; once dropped is dropped.
Dropped == IF Offset = Nothing \/ Offset - 1 < forgotten[bot] THEN forgotten[bot] ELSE Offset - 1

\* Telegram answers with what it has not dropped, in order.
FirstAfter(b, d) == IF First[b] > d THEN First[b] ELSE d + 1
Answer(b, d) ==
    [k \in 1 .. First[b] + arrived[b] - FirstAfter(b, d) |-> <<b, FirstAfter(b, d) + k - 1>>]

GetUpdates ==
    /\ bot # Nothing /\ batch = <<>>
    /\ Answer(bot, Dropped) # <<>> \/ Dropped > forgotten[bot]
    /\ forgotten' = [forgotten EXCEPT ![bot] = Dropped]
    /\ batch' = Answer(bot, Dropped)
    /\ failures' = 0
    /\ UNCHANGED <<bot, arrived, handled, last, fails, boots, switches>>

\* The poll fails, and the loop waits before it polls again.
PollFails ==
    /\ bot # Nothing /\ batch = <<>> /\ fails < MaxFails
    /\ failures' = failures + 1 /\ fails' = fails + 1
    /\ UNCHANGED <<bot, arrived, forgotten, handled, last, batch, boots, switches>>

Capped(a, b) == IF a < b THEN a ELSE b

Backoff == Capped(60, 5 * 2 ^ Capped(failures - 1, 10))

\* A fault: an update whose handler raises is not counted as the last one.
NumberedIfHandled(n, raises) == IF raises THEN last ELSE n

\* The number is taken before the handler runs.
Numbered(n, raises) == n

\* handle_update, with an exception that is logged; Telegram may see it fail midway.
HandleUpdate(raises) ==
    /\ batch # <<>>
    /\ last' = Numbered(Head(batch)[2], raises) /\ batch' = Tail(batch)
    /\ handled' = [handled EXCEPT ![Head(batch)] = Capped(@ + 1, boots + 2)]
    /\ UNCHANGED <<bot, arrived, forgotten, failures, fails, boots, switches>>

RestartBot ==
    /\ boots < MaxBoots /\ boots' = boots + 1
    /\ last' = Nothing /\ batch' = <<>> /\ failures' = 0
    /\ UNCHANGED <<bot, arrived, forgotten, handled, fails, switches>>

PollNext ==
    \/ \E b \in Bots : Arrive(b) \/ SaveToken(b)
    \/ GetUpdates \/ PollFails \/ RestartBot
    \/ \E raises \in BOOLEAN : HandleUpdate(raises)

PollSpec == PollInit /\ [][PollNext]_pollVars

-----------------------------------------------------------------------------
PollTypeOK ==
    /\ bot \in Bots \union {Nothing} /\ arrived \in [Bots -> 0 .. MaxArrivals]
    /\ last \in Nat /\ failures \in 0 .. MaxFails
    /\ failures > 0 => Backoff \in 5 .. 60

(***************************************************************************)
(* One process handles an update once, whatever its handler raises, and    *)
(* what Telegram drops was handed to a handler first: an update is lost to *)
(* neither a failed poll nor a restart, and repeated only by a restart.    *)
(* Saving the token of another bot, whose numbers may be lower, is         *)
(* excepted: the first poll of it drops what it has waiting.               *)
(***************************************************************************)
Lost(b) == {n \in Sent(b) : n <= forgotten[b]}

HandledOnce ==
    /\ \A u \in Updates : handled[u] <= 1 + boots
    /\ switches = 0 => \A b \in Bots : \A n \in Lost(b) : handled[<<b, n>>] > 0
=============================================================================
