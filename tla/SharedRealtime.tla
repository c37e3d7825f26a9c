--------------------------- MODULE SharedRealtime ---------------------------
(***************************************************************************)
(* The workspace event stream that the tabs of one person share            *)
(* (web/src/lib/shared-realtime.ts), what each tab does with an event      *)
(* (web/src/hooks/use-workspace-realtime.ts with                           *)
(* web/src/lib/realtime-event-queue.ts), and the hub that feeds the stream *)
(* (api/cmd/server/realtime.go).                                           *)
(*                                                                         *)
(* One tab, the leader, holds the stream and rebroadcasts what it receives *)
(* over a BroadcastChannel; it is elected with a browser lock or, where    *)
(* locks are missing, with heartbeats on the same channel.  Tabs are       *)
(* numbers: ids begin with the time the tab started, and the lowest id     *)
(* wins.  wire[s][r] is what s posted and r has not handled.               *)
(*                                                                         *)
(* Events are numbered as published.  Two other messages carry no event:   *)
(* Gap, the workspace.resync_required of the server, with an id that no    *)
(* server can resume from (also written Gap) or that of the newest event;  *)
(* and Sync, a resync that a tab makes up.  A handshake is message 0.      *)
(*                                                                         *)
(* Time is abstracted: every timer that is set may fire.  That an election *)
(* timer fires although a message it waits for is on the way, or a living  *)
(* leader is taken for dead (a throttled tab), counts as a fault.          *)
(* Connection status is shown to people and not modelled.                  *)
(***************************************************************************)
EXTENDS Integers, FiniteSets, Sequences, SequencesExt

CONSTANTS Tabs,       \* numbers, in the order in which the tabs start
          MaxEvents,  \* bound: events published
          MaxFaults,  \* bound: broken streams, lost rings, full channels, early timers, failed loads
          Window,     \* messages that remember keeps for tabs that say hello
          MaxQueue,   \* events the queue holds before it asks for a snapshot
          Slow,       \* bound: the tabs that may fall behind in applying events
          Abrupt      \* a tab may be closed in the middle of an election

ASSUME RealtimeConstants ==
    /\ Tabs \subseteq Nat \ {0} /\ Slow \subseteq Tabs
    /\ {MaxEvents, MaxFaults} \subseteq Nat
    /\ {Window, MaxQueue} \subseteq Nat \ {0}
    /\ Abrupt \in BOOLEAN

VARIABLES log,     \* the number of events published
          base,    \* events up to base left the hub's ring
          locks,   \* the browser has the Web Locks API
          saved,   \* the cursor in localStorage, 0 when there is none
          tab,     \* the tabs
          wire,    \* the channel
          faults

vars == <<log, base, locks, saved, tab, wire, faults>>

Gap == -1
Sync == -2
Idle == -3
Resync == {Gap, Sync}

On == {t \in Tabs : tab[t].on = "yes"}
Leads(t) == tab[t].role = "leader"

(* A tab that has not started. *)
NewTab == [on |-> "no", slow |-> FALSE, role |-> "follower", timer |-> "none", claims |-> "no", beat |-> FALSE,
           stream |-> FALSE, pos |-> 0, lost |-> 0, since |-> 0,
           cursor |-> 0, saw |-> FALSE, presence |-> FALSE, replay |-> <<>>,
           queue |-> {}, load |-> Idle, applied |-> {}, from |-> 0]

-----------------------------------------------------------------------------
(* What a tab does with a message. *)

(* A slip: a full queue drops the event. *)
PushDropping(q, e) == IF e = Sync \/ Sync \in q THEN {Sync}
                      ELSE IF Cardinality(q) >= MaxQueue THEN q ELSE q \union {e}

(* RealtimeEventQueue.push.  The order of the queue and the collapsing of     *)
(* replacements for one issue do not change which events have been seen.      *)
push(q, e) == IF e = Sync \/ Sync \in q \/ Cardinality(q) >= MaxQueue THEN {Sync} ELSE q \union {e}

(* onMessage of the hook: schedule. *)
onMessage(r, e) ==
    IF e = 0 THEN r
    ELSE IF r.slow THEN [r EXCEPT !.queue = push(@, e)]
    ELSE [r EXCEPT !.applied = IF e \in Resync THEN 1..log ELSE @ \union {e}]

remember(r, e) == LET s == Append(r, e) IN
                  IF Len(s) > Window THEN Tail(s) ELSE s

(* accept: the tab r after message e with the stream id id.  The ghost from   *)
(* is the last event published before the tab first heard the stream, or a    *)
(* leader last subscribed without a cursor.                                   *)
accept(r, e, id) ==
    [onMessage(r, e) EXCEPT !.saw = TRUE, !.from = IF r.saw THEN @ ELSE log,
              !.cursor = IF e \in {0, Sync} THEN @ ELSE id,
              !.since = IF e \in {0, Sync} THEN @ ELSE 0,
              !.presence = @ \/ e = 0,
              !.replay = IF e = 0 THEN @ ELSE remember(@, <<e, id>>)]

-----------------------------------------------------------------------------
(* The channel. *)

Say(k) == [k |-> k, e |-> 0, id |-> 0, to |-> FALSE]
Msg(e, id) == [k |-> "msg", e |-> e, id |-> id, to |-> FALSE]
MsgTo(m) == [k |-> "msg", e |-> m[1], id |-> m[2], to |-> TRUE]

(* Bound: a beat right behind an unread beat says nothing new. *)
Add(q, m) == IF m.k = "beat" /\ q # <<>> /\ Last(q) = m THEN q ELSE Append(q, m)

(* The channel w after t posted the messages ms to the tabs in R. *)
Posted(w, t, R, ms) ==
    [w EXCEPT ![t] = [r \in Tabs |-> IF r \in (R \cap On) \ {t} THEN FoldLeft(Add, @[r], ms) ELSE @[r]]]

post(w, t, ms) == Posted(w, t, Tabs, ms)

(* What the leader r answers to a hello. *)
answerHello(r) == (IF r.presence THEN <<MsgTo(<<0, 0>>)>> ELSE <<>>)
                  \o [i \in DOMAIN r.replay |-> MsgTo(r.replay[i])]

-----------------------------------------------------------------------------
(* The election. *)

(* A leader that heard the stream and knows no id to resume from. *)
Unresumable(l) == l.saw /\ l.cursor = 0 /\ l.since = 0

(* becomeLeader, up to what it posts. *)
Leader(r) ==
    LET l == [r EXCEPT !.role = "leader", !.claims = "no", !.beat = FALSE, !.timer = IF @ = "join" THEN "none" ELSE @,
                       !.since = IF r.cursor # 0 THEN 0 ELSE saved]
    IN  IF Unresumable(l) THEN accept(l, Sync, 0) ELSE l

becomeLeader(t, w) ==
    LET l == Leader(tab[t])
    IN  /\ tab' = [tab EXCEPT ![t] = l]
        /\ wire' = post(w, t, (IF Unresumable(l) THEN <<Msg(Sync, 0)>> ELSE <<>>)
                              \o (IF locks THEN <<>> ELSE <<Say("beat")>>))

(* claim.  A tab that was early with it may also be early with its end. *)
claim(r, w, t) ==
    IF r.role = "leader" \/ r.claims # "no" THEN tab' = [tab EXCEPT ![t] = r] /\ wire' = w
    ELSE tab' = [tab EXCEPT ![t] = [r EXCEPT !.claims = IF faults' = faults THEN "yes" ELSE "early"]] /\ wire' = post(w, t, <<Say("claim")>>)

(* An election timer of t fires: what t posted was handled and answered, or   *)
(* it is a fault.                                                             *)
Fires(waited) == faults' = faults + (IF waited THEN 0 ELSE 1) /\ faults' <= MaxFaults

Answered(t) == \A s \in On : wire[t][s] = <<>> /\ wire[s][t] = <<>>

(* A tab loads its snapshot and starts the stream: start, electWithLocks and  *)
(* electWithHeartbeat.                                                        *)
Start(t) ==
    /\ tab[t].on = "no" /\ \A s \in Tabs : s < t => tab[s].on # "no"
    /\ tab' = [tab EXCEPT ![t] = [NewTab EXCEPT !.on = "yes", !.slow = t \in Slow, !.applied = 1..log,
                                                !.timer = IF locks THEN "none" ELSE "join"]]
    /\ wire' = post(wire, t, <<Say("hello")>>)
    /\ UNCHANGED <<log, base, locks, saved, faults>>

(* The browser grants the lock, which a leader holds until it leaves. *)
LockGranted(t) ==
    /\ locks /\ t \in On /\ \A s \in On : ~Leads(s)
    /\ becomeLeader(t, wire)
    /\ UNCHANGED <<log, base, locks, saved, faults>>

(* joinTimer: set on start, unless a beat was heard, and when a leader        *)
(* resigned.                                                                  *)
JoinTimer(t) ==
    /\ t \in On /\ tab[t].timer # "none" /\ Fires(tab[t].timer = "resign" \/ Answered(t))
    /\ claim([tab[t] EXCEPT !.timer = "none"], wire, t)
    /\ UNCHANGED <<log, base, locks, saved>>

(* beatTimer: a leader beats.                                                 *)
(* Bound: only when the beat changes something for a tab that read the last.  *)
Beat(t) ==
    /\ ~locks /\ t \in On /\ Leads(t)
    /\ \E r \in On \ {t} : wire[t][r] = <<>> /\ (Leads(r) \/ tab[r].claims # "no" \/ ~tab[r].beat)
    /\ wire' = post(wire, t, <<Say("beat")>>)
    /\ UNCHANGED <<log, base, locks, saved, tab, faults>>

(* beatTimer: a follower that heard a beat hears none for too long. *)
BeatTimeout(t) ==
    /\ t \in On /\ ~Leads(t) /\ tab[t].beat /\ tab[t].claims = "no"
    /\ Fires(Answered(t) /\ \A s \in On : ~Leads(s))
    /\ claim(tab[t], wire, t)
    /\ UNCHANGED <<log, base, locks, saved>>

(* claimTimer. *)
ClaimTimer(t) ==
    /\ t \in On /\ tab[t].claims # "no" /\ Fires(tab[t].claims = "early" \/ Answered(t))
    /\ becomeLeader(t, wire)
    /\ UNCHANGED <<log, base, locks, saved>>

(* A slip: two leaders go on as they are. *)
YieldsNever(s, t) == FALSE

(* The lowest id keeps the stream. *)
Yields(s, t) == s < t

(* The lines of the "beat" case for every role.  A join timer does nothing    *)
(* once a beat was heard.                                                     *)
HeardBeat(r) == [r EXCEPT !.beat = TRUE, !.claims = "no", !.timer = IF @ = "join" THEN "none" ELSE @]

(* A slip: the stream of a leader that steps down stays open. *)
StepDownStreaming(r) == [r EXCEPT !.role = "follower"]

(* stepDown, up to what it posts: a hello. *)
SteppedDown(r) == [r EXCEPT !.role = "follower", !.stream = FALSE, !.pos = 0, !.lost = 0]

(* A slip: a leader that steps down does not ask for what it missed. *)
StepDownSilently(t, w) ==
    /\ tab' = [tab EXCEPT ![t] = HeardBeat(SteppedDown(@))]
    /\ wire' = w

stepDown(t, w) ==
    /\ tab' = [tab EXCEPT ![t] = HeardBeat(SteppedDown(@))]
    /\ wire' = post(w, t, <<Say("hello")>>)

(* onWire: tab t handles the next message of s. *)
OnWire(s, t) ==
    /\ t \in On /\ wire[s][t] # <<>>
    /\ LET m == Head(wire[s][t])
           w == [wire EXCEPT ![s][t] = Tail(@)]
           r == tab[t]
           Keep(r2) == tab' = [tab EXCEPT ![t] = r2]
       IN  \/ /\ m.k = "hello"
              /\ Keep(r)
              /\ wire' = IF ~Leads(t) THEN w
                         ELSE post(Posted(w, t, {s}, answerHello(r)), t, IF locks THEN <<>> ELSE <<Say("beat")>>)
           \/ /\ m.k = "msg"
              /\ Keep(IF Leads(t) /\ ~m.to THEN r ELSE accept(r, m.e, m.id))
              /\ wire' = w
           \/ /\ m.k = "beat"
              /\ IF Leads(t) /\ Yields(s, t) THEN stepDown(t, w)
                 ELSE /\ Keep(HeardBeat(r))
                      /\ wire' = IF Leads(t) THEN post(w, t, <<Say("beat")>>) ELSE w
           \/ /\ m.k = "claim"
              /\ Keep([r EXCEPT !.claims = IF Yields(s, t) THEN "no" ELSE @])
              /\ wire' = IF Leads(t) THEN post(w, t, <<Say("beat")>>) ELSE w
           \/ /\ m.k = "resign"
              /\ Keep(IF Leads(t) THEN r ELSE [r EXCEPT !.timer = "resign"])
              /\ wire' = w
    /\ UNCHANGED <<log, base, locks, saved, faults>>

(* t is in no election: it does not claim, has answered every tab, and no     *)
(* other tab leads beside it.                                                 *)
Settled(t) == /\ tab[t].claims = "no" /\ \A s \in Tabs : wire[s][t] = <<>>
              /\ Leads(t) => \A s \in On \ {t} : ~Leads(s)

(* A tab is closed: dispose, or a crash, which posts nothing.  The browser    *)
(* releases its lock.  The ids it holds in memory are forgotten.              *)
Leave(t) ==
    /\ t \in On
    /\ Abrupt \/ Settled(t)
    /\ tab' = [tab EXCEPT ![t] = [NewTab EXCEPT !.on = "left"]]
    /\ \E graceful \in BOOLEAN :
          LET w == IF graceful /\ Leads(t) /\ ~locks THEN post(wire, t, <<Say("resign")>>) ELSE wire
          IN  wire' = [s \in Tabs |-> [w[s] EXCEPT ![t] = <<>>]]
    /\ UNCHANGED <<log, base, locks, saved, faults>>

-----------------------------------------------------------------------------
(* The stream. *)

(* connect: the hub subscribes the leader from its cursor, and the handshake  *)
(* comes first (subscribeSince, realtimeEvents).                              *)
Connect(t) ==
    /\ t \in On /\ Leads(t) /\ ~tab[t].stream
    /\ LET since == IF tab[t].cursor # 0 THEN tab[t].cursor ELSE tab[t].since
           known == base < since /\ since <= log
           r == [tab[t] EXCEPT !.stream = TRUE, !.pos = IF known THEN since ELSE log,
                               !.lost = IF since # 0 /\ ~known THEN Gap ELSE 0]
       IN  tab' = [s \in Tabs |-> [(IF s = t THEN accept(r, 0, 0) ELSE tab[s])
                                     EXCEPT !.from = IF since = 0 THEN log ELSE @]]
    /\ wire' = post(wire, t, <<Msg(0, 0)>>)
    /\ UNCHANGED <<log, base, locks, saved, faults>>

(* stream.onmessage: the leader receives what the hub sent next. *)
StreamMessage(t) ==
    /\ t \in On /\ tab[t].stream /\ (tab[t].lost # 0 \/ tab[t].pos < log)
    /\ LET r == tab[t]
           e == IF r.lost # 0 THEN Gap ELSE r.pos + 1
           id == IF r.lost # 0 THEN r.lost ELSE e
       IN  /\ tab' = [tab EXCEPT ![t] = accept([r EXCEPT !.lost = 0, !.pos = IF e = Gap THEN @ ELSE e], e, id)]
           /\ wire' = post(wire, t, <<Msg(e, id)>>)
    /\ UNCHANGED <<log, base, locks, saved, faults>>

(* fail: an error or a stale stream; connect runs again after the backoff. *)
StreamFails(t) ==
    /\ faults < MaxFaults /\ faults' = faults + 1
    /\ t \in On /\ tab[t].stream
    /\ tab' = [tab EXCEPT ![t] = [@ EXCEPT !.stream = FALSE, !.pos = 0, !.lost = 0]]
    /\ UNCHANGED <<log, base, locks, saved, wire>>

(* publish: a change of the workspace reaches the hub.  What precedes every   *)
(* tab is in the snapshots and not modelled.                                  *)
Publish ==
    /\ log < MaxEvents /\ On # {}
    /\ log' = log + 1
    /\ UNCHANGED <<base, locks, saved, tab, wire, faults>>

(* deliverLocked: a subscriber whose channel is full gets one resync for all  *)
(* that was in it, with the id of the newest.                                 *)
ChannelFull(t) ==
    /\ faults < MaxFaults /\ faults' = faults + 1
    /\ t \in On /\ tab[t].stream /\ tab[t].pos < log
    /\ tab' = [tab EXCEPT ![t] = [@ EXCEPT !.pos = log, !.lost = log]]
    /\ UNCHANGED <<log, base, locks, saved, wire>>

(* The ring moved past, or the API restarted. *)
RingLost ==
    /\ faults < MaxFaults /\ faults' = faults + 1
    /\ base < log
    /\ base' = log
    /\ UNCHANGED <<log, locks, saved, tab, wire>>

-----------------------------------------------------------------------------
(* The hook. *)

(* saveRealtimeCursor, 300 ms after the last message.  Assumed: by then all   *)
(* that was posted has been handled.  Bound: only while a tab may read it.    *)
SaveCursor(t) ==
    /\ t \in On /\ tab[t].cursor \notin {0, saved}
    /\ \A s, r \in On : wire[s][r] = <<>>
    /\ \E s \in Tabs : tab[s].on # "left" /\ tab[s].cursor = 0
    /\ saved' = tab[t].cursor
    /\ UNCHANGED <<log, base, locks, tab, wire, faults>>

(* The catch of drain: a resync takes the place of what failed. *)
Failed(r, q) == [r EXCEPT !.queue = push(q, Sync), !.load = Idle]

Next1(q) == CHOOSE x \in q : \A y \in q : x <= y

(* drain: an event is applied, or fails; a resync begins to load a snapshot.  *)
(* What arrives during an application only joins the queue, so it is one      *)
(* step.                                                                      *)
Drain(t) ==
    /\ t \in On /\ tab[t].load = Idle /\ tab[t].queue # {}
    /\ LET r == tab[t]
           e == Next1(r.queue)
           q == r.queue \ {e}
       IN  \/ /\ tab' = [tab EXCEPT ![t] = IF e \in Resync THEN [r EXCEPT !.queue = q, !.load = log]
                                           ELSE [r EXCEPT !.queue = q, !.applied = @ \union {e}]]
              /\ UNCHANGED faults
           \/ /\ e \notin Resync /\ faults < MaxFaults /\ faults' = faults + 1
              /\ tab' = [tab EXCEPT ![t] = Failed(r, q)]
    /\ UNCHANGED <<log, base, locks, saved, wire>>

(* The snapshot arrives and replaces what the tab shows, or the load fails. *)
Loaded(t) ==
    /\ t \in On /\ tab[t].load # Idle
    /\ \/ /\ tab' = [tab EXCEPT ![t] = [@ EXCEPT !.load = Idle, !.applied = 1..tab[t].load]]
          /\ UNCHANGED faults
       \/ /\ faults < MaxFaults /\ faults' = faults + 1
          /\ tab' = [tab EXCEPT ![t] = Failed(@, tab[t].queue)]
    /\ UNCHANGED <<log, base, locks, saved, wire>>

-----------------------------------------------------------------------------
Init == /\ log = 0 /\ base = 0 /\ saved = 0 /\ faults = 0
        /\ locks \in BOOLEAN
        /\ tab = [t \in Tabs |-> NewTab]
        /\ wire = [s \in Tabs |-> [r \in Tabs |-> <<>>]]

Next == \/ \E t \in Tabs : \/ Start(t) \/ LockGranted(t) \/ JoinTimer(t) \/ Beat(t) \/ BeatTimeout(t)
                           \/ ClaimTimer(t) \/ Leave(t) \/ Connect(t) \/ StreamMessage(t) \/ StreamFails(t)
                           \/ ChannelFull(t) \/ SaveCursor(t) \/ Drain(t) \/ Loaded(t)
        \/ \E s, t \in Tabs : OnWire(s, t)
        \/ Publish \/ RingLost

Spec == Init /\ [][Next]_vars

(* What goes on by itself: timers fire, the browser grants a free lock, the   *)
(* stream connects and delivers, a tab works off its queue; a leader beats    *)
(* again and again; and every tab handles what the browser delivered to it.   *)
Progress == /\ \E t \in Tabs : \/ LockGranted(t) \/ JoinTimer(t) \/ BeatTimeout(t) \/ ClaimTimer(t)
                               \/ Connect(t) \/ StreamMessage(t) \/ Drain(t) \/ Loaded(t)
            /\ faults' = faults

Fairness == /\ WF_vars(Progress)
            /\ WF_vars(\E t \in Tabs : Beat(t))
            /\ \A t \in Tabs : WF_vars(\E s \in Tabs : OnWire(s, t))

FairSpec == Spec /\ Fairness

-----------------------------------------------------------------------------
Ids == {Gap, Sync} \union 1..MaxEvents

(* The variables have their types; a tab without a stream is not behind on    *)
(* one, and only a leader has one.                                            *)
TypeOK ==
    /\ log \in 0..MaxEvents /\ base \in 0..log /\ saved \in {0, Gap} \union 1..log
    /\ \A t \in Tabs : LET r == tab[t] IN
         /\ r.on \in {"no", "yes", "left"} /\ r.role \in {"follower", "leader"}
         /\ r.stream => r.on = "yes" /\ r.role = "leader" /\ r.pos <= log
         /\ r.cursor \in {0, Gap} \union 1..log
         /\ r.queue \subseteq Ids /\ Cardinality(r.queue) <= MaxQueue
         /\ r.load \in {Idle} \union 0..log /\ r.applied \subseteq 1..log

(* What a tab has in hand: applied, or queued, or covered by a resync.        *)
InHand(r, e) == \/ e \in r.queue \/ r.queue \cap Resync # {}
                \/ IF r.load = Idle THEN e \in r.applied ELSE e <= r.load

(* Of the events published after a tab began to hear the stream, none at or   *)
(* before its cursor is missing, except one it asked for or that is coming:   *)
(* a promoted tab resumes from there (becomeLeader, connect).                 *)
NoHole == \A t \in On : tab[t].saw =>
             \A e \in (tab[t].from + 1)..tab[t].cursor :
                \/ InHand(tab[t], e)
                \/ \E s \in Tabs : \/ Say("hello") \in ToSet(wire[t][s])
                                    \/ \E m \in ToSet(wire[s][t]) : m.e \in {e} \union Resync

(* In the end every open tab that heard the stream has applied every event    *)
(* published since, however leaders changed.                                  *)
Converges == <>[](\A t \in On : tab[t].saw => (tab[t].from + 1)..log \subseteq tab[t].applied)

(* In the end exactly one of the open tabs leads and holds the only stream.   *)
OneLeader == <>[](On # {} => \E t \in On : tab[t].stream /\ \A s \in On \ {t} : ~Leads(s))
=============================================================================
