------------------------------ MODULE OneShot -------------------------------
(***************************************************************************)
(* One-shot sync, as `eg pull` runs it: dial, one exchange of the Sync      *)
(* driver, wait for the accepting side to close, exit.  The accepting side  *)
(* is `eg serve`, whose session is a held-open LiveSync; or, in the         *)
(* symmetric use the driver is written for, a second Sync.                  *)
(*                                                                          *)
(* A stream has a bounded window and a frame takes several units of it, so  *)
(* a side that is writing does not read: write_frame is awaited inside the  *)
(* loop that reads.                                                         *)
(***************************************************************************)
EXTENDS Naturals, Sequences, FiniteSets

CONSTANTS
  Ops,        \* document operations
  Late,       \* those the host commits while the pull is running
  Starts,     \* the situations a pull may start in
  Window,     \* units a stream holds before its writer blocks
  MaxBreaks,  \* connections lost
  MaxSpoken   \* presence frames the host writes of its own accord

Perms == {"pull", "push"}
Sides == {"puller", "host"}
Far(s) == IF s = "host" THEN "puller" ELSE "host"

\* What each side holds, what the host grants, and whether it is live.
Start == [puller : SUBSET Ops, host : SUBSET Ops, perms : SUBSET Perms, live : BOOLEAN]

ASSUME StartsAssumption == Starts \subseteq Start /\ Late \subseteq Ops /\ IsFiniteSet(Ops)
ASSUME WindowAssumption == Window \in Nat \ {0} /\ MaxBreaks \in Nat /\ MaxSpoken \in Nat

VARIABLES
  start,    \* the situation this pull started in
  doc,      \* doc[s]: the operations side s holds
  state,    \* state[s]: where side s stands
  acked,    \* LiveSync.acked of a live host
  nudged,   \* a live host has a "changed" to receive
  writing,  \* writing[s]: the units s has yet to write
  chan,     \* chan[s]: the units on their way to s
  breaks,
  spoken    \* presence frames written after the opening ones

vars == <<start, doc, state, acked, nudged, writing, chan, breaks, spoken>>

Msg == [type : {"Have", "Updates", "Ephemeral", "Refused"}, ops : SUBSET Ops]
Have(v)    == [type |-> "Have", ops |-> v]
Updates(U) == [type |-> "Updates", ops |-> U]
Ephemeral  == [type |-> "Ephemeral", ops |-> {}]
Refused    == [type |-> "Refused", ops |-> {}]

\* A frame on the wire: the message is known once its last unit is read.
Size(m)  == IF m.type = "Updates" THEN 1 + Cardinality(m.ops) ELSE 1
Frame(m) == [i \in 1..Size(m) |-> [msg |-> m, left |-> Size(m) - i]]
FrameReady(s) == \E i \in DOMAIN chan[s] : chan[s][i].left = 0

State == {"Dialing", "Accepting", "AwaitHave", "AwaitUpdates", "Live",
          "Draining", "Done", "Exited", "Failed", "Closed", "Cut", "OutOfOrder"}
Reading == {"AwaitHave", "AwaitUpdates", "Live"}

\* What side s grants the other one.
GrantsTo(s) == IF s = "host" THEN start.perms ELSE Perms

-----------------------------------------------------------------------------
Init ==
  /\ start \in Starts
  /\ doc = [s \in Sides |-> IF s = "host" THEN start.host ELSE start.puller]
  /\ state = [s \in Sides |-> IF s = "host" THEN "Accepting" ELSE "Dialing"]
  /\ acked = {}
  /\ nudged = FALSE
  /\ writing = [s \in Sides |-> <<>>]
  /\ chan = [s \in Sides |-> <<>>]
  /\ breaks = 0 /\ spoken = 0

Dial ==
  /\ state["puller"] = "Dialing"
  /\ state' = [state EXCEPT !["puller"] = "AwaitHave"]
  /\ writing' = [writing EXCEPT !["puller"] = Frame(Have(doc["puller"]))]
  /\ UNCHANGED <<start, doc, acked, nudged, chan, breaks, spoken>>

\* The dial timed out.
Unreachable ==
  /\ state["puller"] = "Dialing"
  /\ state' = [state EXCEPT !["puller"] = "Failed"]
  /\ UNCHANGED <<start, doc, acked, nudged, writing, chan, breaks, spoken>>

\* The first frames of the accepting side: its version and, when it is live,
\* the presence snapshot.
M_PushFirst == Frame(Updates(doc["host"])) \o Frame(Have(doc["host"]))
Opening == Frame(Have(doc["host"])) \o (IF start.live THEN Frame(Ephemeral) ELSE <<>>)

Accept ==
  /\ state["host"] = "Accepting" /\ chan["host"] # <<>> /\ start.perms # {}
  /\ state' = [state EXCEPT !["host"] = IF start.live THEN "Live" ELSE "AwaitHave"]
  /\ writing' = [writing EXCEPT !["host"] = Opening]
  /\ UNCHANGED <<start, doc, acked, nudged, chan, breaks, spoken>>

\* The gate denies: the refusal frame, then the connection is let go.
Refuse ==
  /\ state["host"] = "Accepting" /\ chan["host"] # <<>> /\ start.perms = {}
  /\ state' = [state EXCEPT !["host"] = "Closed"]
  /\ chan' = [chan EXCEPT !["puller"] = @ \o Frame(Refused)]
  /\ UNCHANGED <<start, doc, acked, nudged, writing, breaks, spoken>>

-----------------------------------------------------------------------------
\* One unit of write_frame: room in the window is needed.
Write(s) ==
  /\ writing[s] # <<>> /\ Len(chan[Far(s)]) < Window
  /\ chan' = [chan EXCEPT ![Far(s)] = Append(@, Head(writing[s]))]
  /\ writing' = [writing EXCEPT ![s] = Tail(@)]
  /\ UNCHANGED <<start, doc, state, acked, nudged, breaks, spoken>>

\* Side s is done with its streams: they are dropped, which finishes the one
\* and stops the other.
Gone(s) == state[s] \in {"Draining", "Done", "Exited", "Failed", "Closed", "Cut", "OutOfOrder"}

\* What the end of its stream makes of a side: pull reports it, serve ends the
\* session.
Broken(s) == IF s = "host" THEN "Closed" ELSE "Failed"

\* A write to a side that has dropped its stream fails.  It ends the session of
\* the host with whatever is still on its way to it unread.
Cut(s) == IF s = "host" THEN "Cut" ELSE "Failed"

WriteFails(s) ==
  /\ writing[s] # <<>> /\ Gone(Far(s)) /\ ~Gone(s)
  /\ state' = [state EXCEPT ![s] = Cut(s)]
  /\ writing' = [writing EXCEPT ![s] = <<>>]
  /\ UNCHANGED <<start, doc, acked, nudged, chan, breaks, spoken>>

\* The stream has ended and everything on it is read.
Eof(s) ==
  /\ state[s] \in Reading /\ writing[s] = <<>> /\ chan[s] = <<>> /\ Gone(Far(s))
  /\ state' = [state EXCEPT ![s] = Broken(s)]
  /\ UNCHANGED <<start, doc, acked, nudged, writing, chan, breaks, spoken>>

\* A side at its read takes one unit; the last unit of a frame gives m.
Reads(s, m) ==
  /\ state[s] \in Reading /\ writing[s] = <<>> /\ chan[s] # <<>>
  /\ Head(chan[s]).left = 0 /\ Head(chan[s]).msg = m
  /\ chan' = [chan EXCEPT ![s] = Tail(@)]

ReadPart(s) ==
  /\ state[s] \in Reading /\ writing[s] = <<>> /\ chan[s] # <<>>
  /\ Head(chan[s]).left > 0
  /\ chan' = [chan EXCEPT ![s] = Tail(@)]
  /\ UNCHANGED <<start, doc, state, acked, nudged, writing, breaks, spoken>>

\* Presence is skipped by drive; drive_live takes it to the store.
OnEphemeral(s) ==
  /\ Reads(s, Ephemeral)
  /\ UNCHANGED <<start, doc, state, acked, nudged, writing, breaks, spoken>>

OnRefused(s) ==
  /\ Reads(s, Refused)
  /\ state' = [state EXCEPT ![s] = "Failed"]
  /\ UNCHANGED <<start, doc, acked, nudged, writing, breaks, spoken>>

\* Sync::on with the peer's version: reply, empty if the peer may not pull.
M_ReplyAlwaysEmpty(s, v) == Updates({})
Reply(s, v) == Updates(IF "pull" \in GrantsTo(s) THEN doc[s] \ v ELSE {})

OnHave(s) == \E v \in SUBSET Ops :
  /\ state[s] # "Live" /\ Reads(s, Have(v))
  /\ IF state[s] = "AwaitHave"
       THEN /\ state' = [state EXCEPT ![s] = "AwaitUpdates"]
            /\ writing' = [writing EXCEPT ![s] = Frame(Reply(s, v))]
       ELSE /\ state' = [state EXCEPT ![s] = "OutOfOrder"]
            /\ UNCHANGED writing
  /\ UNCHANGED <<start, doc, acked, nudged, breaks, spoken>>

\* What side s holds once it has the updates U.
M_ImportedAnyway(s, U) == doc[s] \cup U
Imported(s, U) == IF "push" \in GrantsTo(s) THEN doc[s] \cup U ELSE doc[s]

\* Sync::on with the updates: import, and the exchange is over.
OnUpdates(s) == \E U \in SUBSET Ops :
  /\ state[s] # "Live" /\ Reads(s, Updates(U))
  /\ IF state[s] = "AwaitUpdates"
       THEN /\ doc' = [doc EXCEPT ![s] = Imported(s, U)]
            /\ state' = [state EXCEPT ![s] = IF s = "host" THEN "Done" ELSE "Draining"]
       ELSE /\ state' = [state EXCEPT ![s] = "OutOfOrder"]
            /\ UNCHANGED doc
  /\ UNCHANGED <<start, acked, nudged, writing, breaks, spoken>>

-----------------------------------------------------------------------------
\* LiveSync::pending at the host, the peer's version being mark.
Catch(mark) ==
  IF "pull" \in start.perms /\ doc["host"] # mark
    THEN /\ acked' = doc["host"]
         /\ writing' = [writing EXCEPT !["host"] = Frame(Updates(doc["host"] \ mark))]
    ELSE /\ acked' = mark
         /\ UNCHANGED writing

LiveOnHave == \E v \in SUBSET Ops :
  /\ state["host"] = "Live" /\ Reads("host", Have(v))
  /\ Catch(v)
  /\ UNCHANGED <<start, doc, state, nudged, breaks, spoken>>

LiveOnUpdates == \E U \in SUBSET Ops :
  /\ state["host"] = "Live" /\ Reads("host", Updates(U))
  /\ doc' = [doc EXCEPT !["host"] = Imported("host", U)]
  /\ nudged' = (nudged \/ doc'["host"] # doc["host"])
  /\ UNCHANGED <<start, state, acked, writing, breaks, spoken>>

\* The select is biased: a frame that can be read is read first.
LiveOnNudge ==
  /\ state["host"] = "Live" /\ nudged /\ writing["host"] = <<>> /\ ~FrameReady("host")
  /\ nudged' = FALSE
  /\ Catch(acked)
  /\ UNCHANGED <<start, doc, state, chan, breaks, spoken>>

\* Presence of the host itself or of its other peers, and its keepalive: the
\* relay arm, which the exchange neither asks for nor awaits.
LivePresence ==
  /\ state["host"] = "Live" /\ writing["host"] = <<>> /\ ~FrameReady("host")
  /\ spoken < MaxSpoken /\ spoken' = spoken + 1
  /\ writing' = [writing EXCEPT !["host"] = Frame(Ephemeral)]
  /\ UNCHANGED <<start, doc, state, acked, nudged, chan, breaks>>

HostCommit(o) ==
  /\ o \in Late \ doc["host"]
  /\ doc' = [doc EXCEPT !["host"] = @ \cup {o}]
  /\ nudged' = (state["host"] = "Live")
  /\ UNCHANGED <<start, state, acked, writing, chan, breaks, spoken>>

-----------------------------------------------------------------------------
\* conn.closed(): pull waits for the accepting side to let go.
M_ExitAtOnce == state["puller"] = "Draining"
M_NotOnDone == state["puller"] = "Draining" /\ state["host"] = "Closed"
LinkClosed == state["puller"] = "Draining" /\ state["host"] \in {"Done", "Closed", "Cut"}

Exit ==
  /\ LinkClosed
  /\ state' = [state EXCEPT !["puller"] = "Exited"]
  /\ UNCHANGED <<start, doc, acked, nudged, writing, chan, breaks, spoken>>

\* The connection is lost: both sides fail, except that a pull that was only
\* waiting for the close takes it for one.
Break ==
  /\ breaks < MaxBreaks /\ state["puller"] # "Dialing" /\ ~Gone("host")
  /\ breaks' = breaks + 1
  /\ state' = [s \in Sides |->
       IF s = "host" THEN "Closed"
       ELSE IF Gone(s) THEN (IF state[s] = "Draining" THEN "Exited" ELSE state[s])
       ELSE "Failed"]
  /\ writing' = [s \in Sides |-> <<>>]
  /\ chan' = [s \in Sides |-> <<>>]
  /\ UNCHANGED <<start, doc, acked, nudged, spoken>>

Over == state["puller"] \in {"Exited", "Failed", "OutOfOrder"} /\ Gone("host")

Next ==
  \/ Dial \/ Unreachable \/ Accept \/ Refuse \/ Exit \/ Break
  \/ LiveOnHave \/ LiveOnUpdates \/ LiveOnNudge \/ LivePresence
  \/ \E o \in Late : HostCommit(o)
  \/ \E s \in Sides : Write(s)
  \/ \E s \in Sides : WriteFails(s)
  \/ \E s \in Sides : Eof(s)
  \/ \E s \in Sides : ReadPart(s)
  \/ \E s \in Sides : OnEphemeral(s)
  \/ \E s \in Sides : OnRefused(s)
  \/ \E s \in Sides : OnHave(s)
  \/ \E s \in Sides : OnUpdates(s)

\* Both tasks run whenever their I/O lets them.
Fairness ==
  /\ WF_vars(Dial \/ Unreachable) /\ WF_vars(Accept \/ Refuse) /\ WF_vars(Exit)
  /\ WF_vars(LiveOnHave) /\ WF_vars(LiveOnUpdates) /\ WF_vars(LiveOnNudge)
  /\ \A s \in Sides :
       /\ WF_vars(Write(s)) /\ WF_vars(WriteFails(s)) /\ WF_vars(Eof(s))
       /\ WF_vars(ReadPart(s)) /\ WF_vars(OnEphemeral(s)) /\ WF_vars(OnRefused(s))
       /\ WF_vars(OnHave(s)) /\ WF_vars(OnUpdates(s))

Spec == Init /\ [][Next]_vars
FairSpec == Spec /\ Fairness

-----------------------------------------------------------------------------
\* Both drivers stay in their states, and a frame on the wire is never empty.
TypeOK ==
  /\ start \in Starts
  /\ doc \in [Sides -> SUBSET Ops] /\ acked \subseteq Ops
  /\ state \in [Sides -> State] /\ nudged \in BOOLEAN /\ breaks \in Nat /\ spoken \in Nat
  /\ writing \in [Sides -> Seq([msg : Msg, left : Nat])]
  /\ chan \in [Sides -> Seq([msg : Msg, left : Nat])]

\* The driver never meets a message it does not expect, whatever a live host
\* streams beside the exchange, and everything keeps its type.
NeverOutOfOrder == TypeOK /\ \A s \in Sides : state[s] # "OutOfOrder"

\* A pull that may pull and is past its exchange holds all the host held when
\* the pull began, even if the host was pushing new changes all along.
PullComplete ==
  state["puller"] \in {"Draining", "Exited"} /\ "pull" \in start.perms
  => start.host \subseteq doc["puller"]

\* The host's grant decides each direction, whichever of the drivers it runs.
OneShotGated ==
  /\ "pull" \notin start.perms => doc["puller"] = start.puller
  /\ "push" \notin start.perms => doc["host"] \subseteq start.host \cup Late

\* When pull exits, the accepting side has consumed all that pull pushed, unless
\* the connection was lost or the host's session was cut by a write of its own,
\* which a pull that only waits for the close cannot tell from a good end.
PushConsumed ==
  state["puller"] = "Exited" /\ "push" \in start.perms /\ breaks = 0 /\ state["host"] # "Cut"
  => doc["puller"] \subseteq doc["host"]

\* One shot: a pull comes to an end.
PullEnds == <>(state["puller"] \in {"Exited", "Failed"})

\* The host refuses, or has something the pull may have and lacks.
Answered ==
  start.live => start.perms = {} \/ ("pull" \in start.perms /\ start.host # start.puller)

\* Both sides are in a write that the other one would have to read from.
Jammed == \A s \in Sides : writing[s] # <<>> /\ Len(chan[Far(s)]) >= Window

\* A pull that the host has an answer for never waits for a frame that does not
\* come: it ends, unless each side has more to send than a window holds and both
\* are in their writes at the same time.
PullEndsIfAnswered == Answered => PullEnds \/ <>[]Jammed
=============================================================================
