--------------------------- MODULE OneShotProofs ----------------------------
(***************************************************************************)
(* Theorems about OneShot, for any operations, any grants, any window and   *)
(* any number of lost connections.                                          *)
(***************************************************************************)
EXTENDS OneShot, FiniteSetTheorems, SequenceTheorems, TLAPS

Units == [msg : Msg, left : Nat]

\* What is under way to side r: on the wire, and what the far side has yet to
\* write.
Stream(r) == chan[r] \o writing[Far(r)]

Is(u, t) == u.msg.type = t

\* What the host may say: its own operations, none if it does not grant a pull,
\* and a refusal only when it grants nothing.
HostSays(u) ==
  /\ ~Is(u, "Updates") => u.left = 0
  /\ u.msg.ops \subseteq doc["host"]
  /\ Is(u, "Updates") /\ "pull" \notin start.perms => u.msg.ops = {}
\* What the puller may say: its version when it started, and updates that bring
\* the host to it.
PullerSays(u) ==
  /\ ~Is(u, "Updates") => u.left = 0
  /\ u.msg.type \in {"Have", "Updates"}
  /\ Is(u, "Have") => u.msg.ops = start.puller
  /\ Is(u, "Updates") => start.puller \subseteq doc["host"] \cup u.msg.ops
HostUnits == {u \in Units : HostSays(u)}
PullerUnits == {u \in Units : PullerSays(u)}
Contents == Stream("puller") \in Seq(HostUnits) /\ Stream("host") \in Seq(PullerUnits)

Roles ==
  /\ state["puller"] \in {"Dialing", "AwaitHave", "AwaitUpdates", "Draining", "Exited", "Failed"}
  /\ state["host"] \in {"Accepting", "AwaitHave", "AwaitUpdates", "Live", "Done", "Closed", "Cut"}

Holds ==
  /\ start.host \subseteq doc["host"]
  /\ state["puller"] \notin {"Draining", "Exited"} => doc["puller"] = start.puller
  /\ "pull" \notin start.perms => doc["puller"] = start.puller
  /\ "push" \notin start.perms => doc["host"] \subseteq start.host \cup Late

\* The order of a stream: the version first, once, and before it is read nothing
\* else is.
Begin == {"Dialing", "Accepting"}
HaveFirst(S) == \A i \in DOMAIN S : Is(S[i], "Have") => i = 1
NoHave(S) == \A i \in DOMAIN S : ~Is(S[i], "Have")
NoUpdates(S) == \A i \in DOMAIN S : ~Is(S[i], "Updates")
Starting(S) == S # <<>> => S[1].msg.type \in {"Have", "Refused"}
InOrder(r) ==
  /\ state[Far(r)] \in Begin => Stream(r) = <<>>
  /\ HaveFirst(Stream(r))
  /\ state[r] \in Begin \cup {"AwaitHave"} => Starting(Stream(r))
  /\ state[r] \in Begin \cup {"AwaitHave"} /\ state[Far(r)] \in Reading => Stream(r) # <<>>
  /\ state[r] = "AwaitUpdates" => state[Far(r)] \notin Begin /\ NoHave(Stream(r))
Ordered == \A r \in Sides : InOrder(r)

Base == Roles /\ Contents /\ Holds /\ Ordered

\* Frames are whole, and the first updates on their way to the puller are all it
\* needs.
Framed(S) == \A i \in DOMAIN S : S[i].left > 0 => i + 1 \in DOMAIN S /\ S[i + 1].msg = S[i].msg
FirstUpdates(S, i) == Is(S[i], "Updates") /\ \A j \in 1 .. (i - 1) : ~Is(S[j], "Updates")
Enough(S) ==
  \A i \in DOMAIN S : FirstUpdates(S, i) => start.host \subseteq start.puller \cup S[i].msg.ops
Complete ==
  /\ state["host"] = "Accepting" => acked = {}
  /\ ~Gone("puller") =>
       /\ Framed(Stream("puller"))
       /\ "pull" \in start.perms => Enough(Stream("puller"))
       /\ "pull" \in start.perms /\ state["host"] = "Live" /\ NoUpdates(Stream("puller"))
            => acked \subseteq start.puller

\* The push has not come to the host yet.
HasAll == start.puller \subseteq doc["host"]
Waiting == "push" \in start.perms /\ ~HasAll
EndsUpdates(S, i) == Is(S[i], "Updates") /\ S[i].left = 0
Early ==
  /\ state["puller"] = "Dialing" => state["host"] = "Accepting"
  /\ state["puller"] = "Draining" => state["host"] # "Accepting" /\ writing["puller"] = <<>>
Closing ==
  /\ state["host"] = "Done" => ~Waiting
  /\ state["host"] = "Closed" /\ start.perms # {} /\ breaks = 0 => Gone("puller")
  /\ state["puller"] = "Exited" /\ breaks = 0 => state["host"] \in {"Done", "Closed", "Cut"}
  /\ doc["puller"] \subseteq start.puller \cup doc["host"]
\* Until the host holds it, the push is on its way.
Coming ==
  /\ state["puller"] \in {"AwaitUpdates", "Draining"} /\ ~Gone("host") /\ Waiting
  => \E i \in DOMAIN Stream("host") : EndsUpdates(Stream("host"), i)
Settled ==
  /\ state["puller"] \in {"Draining", "Exited"} /\ state["host"] \in {"Done", "Closed"}
  /\ breaks = 0
  => ~Waiting
Pushed == Early /\ Closing /\ Coming /\ Settled

-----------------------------------------------------------------------------
(* Frames and streams. *)

LEMMA SidesFacts ==
  ASSUME NEW s \in Sides
  PROVE  Far(s) \in Sides /\ Far(s) # s /\ Far(Far(s)) = s /\ Sides = {s, Far(s)}
  BY DEF Sides, Far

LEMMA MsgFacts ==
  /\ \A v \in SUBSET Ops : Have(v) \in Msg /\ Have(v).type = "Have" /\ Have(v).ops = v
  /\ \A v \in SUBSET Ops : Updates(v) \in Msg /\ Updates(v).type = "Updates" /\ Updates(v).ops = v
  /\ Ephemeral \in Msg /\ Ephemeral.type = "Ephemeral" /\ Ephemeral.ops = {}
  /\ Refused \in Msg /\ Refused.type = "Refused" /\ Refused.ops = {}
  BY DEF Msg, Have, Updates, Ephemeral, Refused

LEMMA FrameFacts ==
  ASSUME NEW m \in Msg
  PROVE  /\ Frame(m) \in Seq(Units) /\ Len(Frame(m)) \in Nat \ {0}
         /\ m.type # "Updates" => Len(Frame(m)) = 1
         /\ \A i \in 1 .. Len(Frame(m)) : Frame(m)[i].msg = m /\ Frame(m)[i].left = Len(Frame(m)) - i
<1>1. m.ops \in SUBSET Ops
  BY DEF Msg
<1>2. Cardinality(m.ops) \in Nat
  BY <1>1, StartsAssumption, FS_Subset, FS_CardinalityType
<1>3. Size(m) \in Nat \ {0} /\ (m.type # "Updates" => Size(m) = 1)
  BY <1>2 DEF Size
<1> DEFINE n == Size(m)
<1>4. Frame(m) = [i \in 1 .. n |-> [msg |-> m, left |-> n - i]]
  BY DEF Frame
<1> HIDE DEF n
<1>5. n \in Nat \ {0} /\ (m.type # "Updates" => n = 1)
  BY <1>3 DEF n
<1>6. Frame(m) \in [1 .. n -> Units]
  BY <1>4, <1>5 DEF Units
<1>7. Frame(m) \in Seq(Units) /\ Len(Frame(m)) = n
  BY <1>5, <1>6
<1>8. \A i \in 1 .. n : Frame(m)[i].msg = m /\ Frame(m)[i].left = n - i
  BY <1>4
<1> QED BY <1>5, <1>7, <1>8

LEMMA NotEmpty ==
  ASSUME NEW X, NEW S \in Seq(X)
  PROVE  /\ DOMAIN S = 1 .. Len(S) /\ Len(S) \in Nat
         /\ S # <<>> <=> Len(S) > 0
         /\ S # <<>> <=> 1 \in DOMAIN S
         /\ Len(S) > 0 <=> 1 \in DOMAIN S
  OBVIOUS

LEMMA OpeningFacts ==
  ASSUME TypeOK
  PROVE  /\ Opening \in Seq(Units) /\ Opening # <<>> /\ Opening[1] = [msg |-> Have(doc["host"]), left |-> 0]
         /\ \A i \in DOMAIN Opening : i # 1 => Opening[i] = [msg |-> Ephemeral, left |-> 0]
<1> DEFINE f == Frame(Have(doc["host"]))
           g == Frame(Ephemeral)
<1>1. doc["host"] \in SUBSET Ops
  BY DEF TypeOK, Sides
<1>2. /\ f \in Seq(Units) /\ Len(f) = 1 /\ f[1].msg = Have(doc["host"]) /\ f[1].left = 0
      /\ g \in Seq(Units) /\ Len(g) = 1 /\ g[1].msg = Ephemeral /\ g[1].left = 0
  BY <1>1, MsgFacts, FrameFacts
<1>3. f[1] = [msg |-> Have(doc["host"]), left |-> 0] /\ g[1] = [msg |-> Ephemeral, left |-> 0]
  <2>1. f[1] \in Units /\ g[1] \in Units
    BY <1>2
  <2> QED BY <1>2, <2>1 DEF Units
<1>4. Opening = IF start.live THEN f \o g ELSE f \o <<>>
  BY DEF Opening
<1> HIDE DEF f, g
<1>5. CASE start.live
  <2> DEFINE h == f \o g
  <2>1. h \in Seq(Units) /\ Len(h) = 2 /\ h[1] = f[1] /\ h[2] = g[1]
    <3>1. /\ h \in Seq(Units) /\ Len(h) = Len(f) + Len(g)
          /\ \A i \in 1 .. Len(f) + Len(g) : h[i] = IF i <= Len(f) THEN f[i] ELSE g[i - Len(f)]
      BY <1>2, ConcatProperties
    <3> HIDE DEF h
    <3>2. 1 \in 1 .. Len(f) + Len(g) /\ 2 \in 1 .. Len(f) + Len(g)
      BY <1>2
    <3> QED BY <1>2, <3>1, <3>2
  <2>2. Opening = h
    BY <1>4, <1>5
  <2> HIDE DEF h
  <2>3. DOMAIN h = 1 .. 2 /\ h # <<>>
    BY <2>1, NotEmpty
  <2> QED BY <1>3, <2>1, <2>2, <2>3
<1>6. CASE ~start.live
  <2>1. Opening = f
    BY <1>2, <1>4, <1>6, ConcatEmptySeq
  <2>2. DOMAIN f = 1 .. 1 /\ f # <<>>
    BY <1>2, NotEmpty
  <2> QED BY <1>2, <1>3, <2>1, <2>2
<1> QED BY <1>5, <1>6

LEMMA TypesNext == TypeOK /\ [Next]_vars => TypeOK'
<1> SUFFICES ASSUME TypeOK, [Next]_vars PROVE TypeOK'
  OBVIOUS
<1> USE DEF TypeOK
<1>0. /\ doc["host"] \in SUBSET Ops /\ doc["puller"] \in SUBSET Ops /\ "host" \in Sides /\ "puller" \in Sides
      /\ <<>> \in Seq([msg : Msg, left : Nat])
  BY DEF Sides
<1>1. ASSUME NEW m \in Msg PROVE Frame(m) \in Seq([msg : Msg, left : Nat])
  BY FrameFacts DEF Units
<1>2. ASSUME NEW s \in Sides, NEW m, Reads(s, m) PROVE chan' \in [Sides -> Seq([msg : Msg, left : Nat])]
  <2>1. chan[s] # <<>> /\ chan[s] \in Seq([msg : Msg, left : Nat]) /\ chan' = [chan EXCEPT ![s] = Tail(@)]
    BY <1>2 DEF Reads
  <2> QED BY <2>1, HeadTailProperties
<1>3. ASSUME NEW mark \in SUBSET Ops, Catch(mark)
      PROVE  writing' \in [Sides -> Seq([msg : Msg, left : Nat])] /\ acked' \subseteq Ops
  <2>1. Updates(doc["host"] \ mark) \in Msg
    BY <1>0, MsgFacts
  <2>2. Frame(Updates(doc["host"] \ mark)) \in Seq([msg : Msg, left : Nat])
    BY <1>1, <2>1
  <2> QED BY <1>0, <1>3, <2>2 DEF Catch
<1>4. ASSUME Dial PROVE TypeOK'
  <2>1. Frame(Have(doc["puller"])) \in Seq([msg : Msg, left : Nat])
    BY <1>0, <1>1, MsgFacts
  <2> QED BY <1>0, <1>4, <2>1 DEF Dial, State
<1>5. ASSUME Unreachable \/ Exit PROVE TypeOK'
  BY <1>0, <1>5 DEF Unreachable, Exit, State
<1>6. ASSUME Accept PROVE TypeOK'
  <2>1. Opening \in Seq([msg : Msg, left : Nat])
    BY OpeningFacts DEF Units
  <2> QED BY <1>0, <1>6, <2>1 DEF Accept, State
<1>7. ASSUME Refuse PROVE TypeOK'
  <2>1. Frame(Refused) \in Seq([msg : Msg, left : Nat])
    BY <1>1, MsgFacts
  <2>2. chan["puller"] \o Frame(Refused) \in Seq([msg : Msg, left : Nat])
    BY <1>0, <2>1, ConcatProperties
  <2> QED BY <1>0, <1>7, <2>2 DEF Refuse, State
<1>8. ASSUME Break PROVE TypeOK'
  BY <1>0, <1>8 DEF Break, State, Sides
<1>9. ASSUME LiveOnHave PROVE TypeOK'
  <2>1. PICK v \in SUBSET Ops : Reads("host", Have(v)) /\ Catch(v)
    BY <1>9 DEF LiveOnHave
  <2> QED BY <1>0, <1>2, <1>3, <1>9, <2>1 DEF LiveOnHave
<1>10. ASSUME LiveOnUpdates PROVE TypeOK'
  <2>1. PICK U \in SUBSET Ops : /\ Reads("host", Updates(U))
                                /\ doc' = [doc EXCEPT !["host"] = Imported("host", U)]
                                /\ nudged' = (nudged \/ doc'["host"] # doc["host"])
                                /\ UNCHANGED <<start, state, acked, writing, breaks, spoken>>
    BY <1>10 DEF LiveOnUpdates
  <2>2. Imported("host", U) \in SUBSET Ops
    BY <1>0 DEF Imported
  <2>3. nudged' \in BOOLEAN
    BY <2>1
  <2> QED BY <1>0, <1>2, <2>1, <2>2, <2>3
<1>11. ASSUME LiveOnNudge PROVE TypeOK'
  <2>1. acked \in SUBSET Ops /\ Catch(acked)
    BY <1>11 DEF LiveOnNudge
  <2> QED BY <1>0, <1>3, <1>11, <2>1 DEF LiveOnNudge
<1>20. ASSUME LivePresence PROVE TypeOK'
  <2>1. Frame(Ephemeral) \in Seq([msg : Msg, left : Nat])
    BY <1>1, MsgFacts
  <2>2. spoken' \in Nat
    BY <1>20 DEF LivePresence
  <2>3. /\ writing' = [writing EXCEPT !["host"] = Frame(Ephemeral)]
        /\ UNCHANGED <<start, doc, state, acked, nudged, chan, breaks>>
    BY <1>20 DEF LivePresence
  <2>4. writing' \in [Sides -> Seq([msg : Msg, left : Nat])]
    BY <2>1, <2>3
  <2> QED BY <2>2, <2>3, <2>4
<1>12. ASSUME NEW o \in Late, HostCommit(o) PROVE TypeOK'
  <2>1. doc["host"] \cup {o} \in SUBSET Ops
    BY <1>0, StartsAssumption
  <2>2. nudged' \in BOOLEAN
    BY <1>12 DEF HostCommit
  <2> QED BY <1>0, <1>12, <2>1, <2>2 DEF HostCommit
<1>13. ASSUME NEW s \in Sides, Write(s) PROVE TypeOK'
  <2>1. Far(s) \in Sides
    BY SidesFacts
  <2>2. /\ writing[s] # <<>> /\ writing[s] \in Seq([msg : Msg, left : Nat])
        /\ chan[Far(s)] \in Seq([msg : Msg, left : Nat])
    BY <1>13, <2>1 DEF Write
  <2>3. /\ Head(writing[s]) \in [msg : Msg, left : Nat] /\ Tail(writing[s]) \in Seq([msg : Msg, left : Nat])
        /\ Append(chan[Far(s)], Head(writing[s])) \in Seq([msg : Msg, left : Nat])
    BY <2>2, HeadTailProperties, AppendProperties
  <2> QED BY <1>13, <2>1, <2>3 DEF Write
<1>14. ASSUME NEW s \in Sides, WriteFails(s) \/ Eof(s) PROVE TypeOK'
  BY <1>0, <1>14 DEF WriteFails, Eof, Broken, Cut, State
<1>15. ASSUME NEW s \in Sides, ReadPart(s) PROVE TypeOK'
  <2>1. chan[s] # <<>> /\ chan[s] \in Seq([msg : Msg, left : Nat]) /\ chan' = [chan EXCEPT ![s] = Tail(@)]
    BY <1>15 DEF ReadPart
  <2>2. chan' \in [Sides -> Seq([msg : Msg, left : Nat])]
    BY <2>1, HeadTailProperties
  <2> QED BY <1>15, <2>2 DEF ReadPart
<1>16. ASSUME NEW s \in Sides, OnEphemeral(s) \/ OnRefused(s) PROVE TypeOK'
  BY <1>2, <1>16 DEF OnEphemeral, OnRefused, State
<1>17. ASSUME NEW s \in Sides, OnHave(s) PROVE TypeOK'
  <2>1. PICK v \in SUBSET Ops :
          /\ Reads(s, Have(v)) /\ UNCHANGED <<start, doc, acked, nudged, breaks, spoken>>
          /\ \/ /\ state' = [state EXCEPT ![s] = "AwaitUpdates"]
                /\ writing' = [writing EXCEPT ![s] = Frame(Reply(s, v))]
             \/ state' = [state EXCEPT ![s] = "OutOfOrder"] /\ UNCHANGED writing
    BY <1>17 DEF OnHave
  <2>2. Frame(Reply(s, v)) \in Seq([msg : Msg, left : Nat])
    <3>1. (IF "pull" \in GrantsTo(s) THEN doc[s] \ v ELSE {}) \in SUBSET Ops
      OBVIOUS
    <3>2. Reply(s, v) \in Msg
      BY <3>1, MsgFacts DEF Reply
    <3> QED BY <1>1, <3>2
  <2> QED BY <1>2, <2>1, <2>2 DEF State
<1>18. ASSUME NEW s \in Sides, OnUpdates(s) PROVE TypeOK'
  <2>1. PICK U \in SUBSET Ops :
          /\ Reads(s, Updates(U)) /\ UNCHANGED <<start, acked, nudged, writing, breaks, spoken>>
          /\ \/ /\ doc' = [doc EXCEPT ![s] = Imported(s, U)]
                /\ state' = [state EXCEPT ![s] = IF s = "host" THEN "Done" ELSE "Draining"]
             \/ state' = [state EXCEPT ![s] = "OutOfOrder"] /\ UNCHANGED doc
    BY <1>18 DEF OnUpdates
  <2>2. Imported(s, U) \in SUBSET Ops
    BY DEF Imported
  <2> QED BY <1>2, <2>1, <2>2 DEF State
<1>19. CASE UNCHANGED vars
  BY <1>19 DEF vars
<1> QED BY <1>4, <1>5, <1>6, <1>7, <1>8, <1>9, <1>10, <1>11, <1>12, <1>13, <1>14, <1>15, <1>16,
           <1>17, <1>18, <1>19, <1>20 DEF Next

-----------------------------------------------------------------------------
(* What the actions do to the streams. *)

LEMMA StreamFacts ==
  ASSUME TypeOK, NEW r \in Sides
  PROVE  /\ chan[r] \in Seq(Units) /\ writing[r] \in Seq(Units) /\ Stream(r) \in Seq(Units)
         /\ Stream(r) = <<>> => chan[r] = <<>> /\ writing[Far(r)] = <<>>
<1>1. chan[r] \in Seq(Units) /\ writing[r] \in Seq(Units) /\ writing[Far(r)] \in Seq(Units)
  BY SidesFacts DEF TypeOK, Units
<1> QED BY <1>1, ConcatProperties, ConcatEqualIffEmpty DEF Stream

LEMMA MoveHead ==
  ASSUME NEW X, NEW c \in Seq(X), NEW w \in Seq(X), w # <<>>
  PROVE  Append(c, Head(w)) \o Tail(w) = c \o w
<1>1. Head(w) \in X /\ Tail(w) \in Seq(X) /\ <<Head(w)>> \in Seq(X)
  BY HeadTailProperties
<1>2. Append(c, Head(w)) = c \o <<Head(w)>>
  BY <1>1, AppendIsConcat
<1>3. w = <<Head(w)>> \o Tail(w)
  <2>1. Len(Tail(w)) = Len(w) - 1 /\ Len(w) \in Nat \ {0} /\ Head(w) = w[1]
        /\ \A i \in 1 .. Len(Tail(w)) : Tail(w)[i] = w[i + 1]
    BY HeadTailProperties
  <2> DEFINE v == <<Head(w)>> \o Tail(w)
  <2>2. Len(<<Head(w)>>) = 1 /\ <<Head(w)>>[1] = Head(w)
    OBVIOUS
  <2>3. v \in Seq(X) /\ Len(v) = 1 + Len(Tail(w))
        /\ \A i \in 1 .. 1 + Len(Tail(w)) : v[i] = IF i <= 1 THEN <<Head(w)>>[i] ELSE Tail(w)[i - 1]
    BY <1>1, <2>2, ConcatProperties
  <2> HIDE DEF v
  <2>4. Len(v) = Len(w) /\ \A i \in 1 .. Len(w) : v[i] = w[i]
    BY <2>1, <2>2, <2>3
  <2>5. v = w
    BY <2>3, <2>4, SeqEqual
  <2> QED BY <2>5 DEF v
<1> QED BY <1>1, <1>2, <1>3, ConcatAssociative

LEMMA TailOfConcat ==
  ASSUME NEW X, NEW c \in Seq(X), NEW w \in Seq(X), c # <<>>
  PROVE  Tail(c) \o w = Tail(c \o w) /\ c \o w # <<>> /\ (c \o w)[1] = Head(c)
<1>1. /\ Tail(c) \in Seq(X) /\ Len(Tail(c)) = Len(c) - 1 /\ Len(c) \in Nat \ {0} /\ Len(w) \in Nat
      /\ \A i \in 1 .. Len(Tail(c)) : Tail(c)[i] = c[i + 1]
  BY HeadTailProperties
<1> DEFINE a == Tail(c) \o w
           b == c \o w
<1>2. /\ b \in Seq(X) /\ Len(b) = Len(c) + Len(w)
      /\ \A i \in 1 .. Len(c) + Len(w) : b[i] = IF i <= Len(c) THEN c[i] ELSE w[i - Len(c)]
  BY ConcatProperties
<1>3. /\ a \in Seq(X) /\ Len(a) = Len(Tail(c)) + Len(w)
      /\ \A i \in 1 .. Len(Tail(c)) + Len(w) :
            a[i] = IF i <= Len(Tail(c)) THEN Tail(c)[i] ELSE w[i - Len(Tail(c))]
  BY <1>1, ConcatProperties
<1> HIDE DEF a, b
<1>4. b # <<>> /\ b[1] = Head(c)
  BY <1>1, <1>2
<1>5. Tail(b) \in Seq(X) /\ Len(Tail(b)) = Len(b) - 1 /\ \A i \in 1 .. Len(Tail(b)) : Tail(b)[i] = b[i + 1]
  BY <1>2, <1>4, HeadTailProperties
<1>6. Len(a) = Len(Tail(b)) /\ Len(a) \in Nat
  BY <1>1, <1>2, <1>3, <1>5
<1>7. ASSUME NEW i \in 1 .. Len(a) PROVE a[i] = Tail(b)[i]
  <2>1. Tail(b)[i] = b[i + 1] /\ i \in Nat /\ i >= 1 /\ i <= Len(c) - 1 + Len(w)
    BY <1>1, <1>3, <1>5, <1>6
  <2>2. CASE i <= Len(c) - 1
    BY <1>1, <1>2, <1>3, <2>1, <2>2
  <2>3. CASE ~(i <= Len(c) - 1)
    <3>1. i + 1 - Len(c) = i - (Len(c) - 1)
      BY <1>1, <2>1
    <3>2. b[i + 1] = w[i + 1 - Len(c)]
      BY <1>1, <1>2, <2>1, <2>3
    <3>3. a[i] = w[i - (Len(c) - 1)]
      BY <1>1, <1>3, <2>1, <2>3
    <3> QED BY <2>1, <3>1, <3>2, <3>3
  <2> QED BY <2>2, <2>3
<1>8. a = Tail(b)
  BY <1>3, <1>5, <1>6, <1>7, SeqEqual
<1> QED BY <1>4, <1>8 DEF a, b

\* Side s takes the first unit of its stream.
Taken(s) ==
  /\ state[s] \in Reading /\ writing[s] = <<>>
  /\ Stream(s) # <<>> /\ Stream(s)' = Tail(Stream(s))

LEMMA TakenStream ==
  ASSUME TypeOK, NEW s \in Sides, chan[s] # <<>>, chan' = [chan EXCEPT ![s] = Tail(@)],
         writing'[Far(s)] = writing[Far(s)], state[s] \in Reading, writing[s] = <<>>
  PROVE  /\ Taken(s) /\ Stream(s)[1] = Head(chan[s])
         /\ Stream(Far(s))' = Stream(Far(s)) \o writing'[s]
<1>1. chan[s] \in Seq(Units) /\ writing[Far(s)] \in Seq(Units) /\ chan[Far(s)] \in Seq(Units)
  BY StreamFacts, SidesFacts
<1>2. chan'[s] = Tail(chan[s]) /\ chan'[Far(s)] = chan[Far(s)]
  BY SidesFacts DEF TypeOK
<1>3. Stream(s)' = Tail(Stream(s)) /\ Stream(s) # <<>> /\ Stream(s)[1] = Head(chan[s])
  <2>1. /\ Stream(s) = chan[s] \o writing[Far(s)]
        /\ Stream(s)' = Tail(chan[s]) \o writing[Far(s)]
    BY <1>2 DEF Stream
  <2>2. /\ Tail(chan[s]) \o writing[Far(s)] = Tail(chan[s] \o writing[Far(s)])
        /\ chan[s] \o writing[Far(s)] # <<>> /\ (chan[s] \o writing[Far(s)])[1] = Head(chan[s])
    BY <1>1, TailOfConcat, Zenon
  <2> QED BY <2>1, <2>2, Zenon
<1>4. Stream(Far(s)) = chan[Far(s)]
  BY <1>1, SidesFacts, ConcatEmptySeq DEF Stream
<1>5. Stream(Far(s))' = chan'[Far(s)] \o writing'[s]
  BY SidesFacts DEF Stream
<1> QED BY <1>2, <1>3, <1>4, <1>5 DEF Taken

LEMMA StreamKept ==
  ASSUME TypeOK, NEW r \in Sides, chan'[r] = chan[r], writing'[Far(r)] = writing[Far(r)]
  PROVE  Stream(r)' = Stream(r)
  BY DEF Stream

LEMMA NothingSaid ==
  ASSUME TypeOK, NEW r \in Sides PROVE Stream(r) \o <<>> = Stream(r)
  BY StreamFacts, ConcatEmptySeq

LEMMA WriteDoes ==
  ASSUME TypeOK, NEW s \in Sides, Write(s)
  PROVE  /\ \A r \in Sides : Stream(r)' = Stream(r)
         /\ UNCHANGED <<start, doc, state, acked, nudged, breaks>>
         /\ \A r \in Sides : writing[r] = <<>> => writing'[r] = <<>>
<1>1. /\ writing[s] # <<>> /\ chan' = [chan EXCEPT ![Far(s)] = Append(@, Head(writing[s]))]
      /\ writing' = [writing EXCEPT ![s] = Tail(@)] /\ UNCHANGED <<start, doc, state, acked, nudged, breaks>>
  BY DEF Write
<1>2. /\ Far(s) \in Sides /\ Far(Far(s)) = s /\ Far(s) # s /\ Sides = {s, Far(s)}
      /\ chan[Far(s)] \in Seq(Units) /\ writing[s] \in Seq(Units)
  BY SidesFacts, StreamFacts
<1>3. Stream(Far(s))' = Stream(Far(s))
  <2>1. chan'[Far(s)] = Append(chan[Far(s)], Head(writing[s])) /\ writing'[s] = Tail(writing[s])
    BY <1>1, <1>2 DEF TypeOK
  <2>2. Append(chan[Far(s)], Head(writing[s])) \o Tail(writing[s]) = chan[Far(s)] \o writing[s]
    BY <1>1, <1>2, MoveHead
  <2>3. Stream(Far(s))' = chan'[Far(s)] \o writing'[s] /\ Stream(Far(s)) = chan[Far(s)] \o writing[s]
    BY <1>2 DEF Stream
  <2> QED BY <2>1, <2>2, <2>3
<1>4. Stream(s)' = Stream(s)
  BY <1>1, <1>2 DEF Stream, TypeOK
<1>5. \A r \in Sides : writing[r] = <<>> => writing'[r] = <<>>
  BY <1>1, <1>2 DEF TypeOK
<1> QED BY <1>1, <1>2, <1>3, <1>4, <1>5

\* A unit that is not the last of its frame, or presence, is skipped.
LEMMA SkipDoes ==
  ASSUME TypeOK, NEW s \in Sides, ReadPart(s) \/ OnEphemeral(s)
  PROVE  /\ Taken(s) /\ Stream(Far(s))' = Stream(Far(s))
         /\ Stream(s)[1].left > 0 \/ Is(Stream(s)[1], "Ephemeral")
         /\ UNCHANGED <<start, doc, state, acked, nudged, breaks, writing>>
<1>1. /\ state[s] \in Reading /\ writing[s] = <<>> /\ chan[s] # <<>> /\ chan' = [chan EXCEPT ![s] = Tail(@)]
      /\ UNCHANGED <<start, doc, state, acked, nudged, breaks, writing>>
      /\ Head(chan[s]).left > 0 \/ Is(Head(chan[s]), "Ephemeral")
  BY MsgFacts DEF ReadPart, OnEphemeral, Reads, Is
<1>2. Taken(s) /\ Stream(s)[1] = Head(chan[s]) /\ Stream(Far(s))' = Stream(Far(s)) \o writing'[s]
  BY <1>1, TakenStream
<1> QED BY <1>1, <1>2, SidesFacts, NothingSaid

LEMMA RefusedDoes ==
  ASSUME TypeOK, NEW s \in Sides, OnRefused(s)
  PROVE  /\ Taken(s) /\ Stream(Far(s))' = Stream(Far(s)) /\ Is(Stream(s)[1], "Refused")
         /\ state' = [state EXCEPT ![s] = "Failed"]
         /\ UNCHANGED <<start, doc, acked, nudged, breaks, writing>>
<1>1. /\ state[s] \in Reading /\ writing[s] = <<>> /\ chan[s] # <<>> /\ chan' = [chan EXCEPT ![s] = Tail(@)]
      /\ UNCHANGED <<start, doc, acked, nudged, breaks, writing>>
      /\ state' = [state EXCEPT ![s] = "Failed"] /\ Is(Head(chan[s]), "Refused")
  BY MsgFacts DEF OnRefused, Reads, Is
<1>2. Taken(s) /\ Stream(s)[1] = Head(chan[s]) /\ Stream(Far(s))' = Stream(Far(s)) \o writing'[s]
  BY <1>1, TakenStream
<1> QED BY <1>1, <1>2, SidesFacts, NothingSaid

LEMMA ReadsDoes ==
  ASSUME TypeOK, NEW s \in Sides, NEW m, Reads(s, m), writing'[Far(s)] = writing[Far(s)]
  PROVE  /\ Taken(s) /\ Stream(s)[1].msg = m /\ Stream(s)[1].left = 0
         /\ Stream(Far(s))' = Stream(Far(s)) \o writing'[s]
<1>1. /\ state[s] \in Reading /\ writing[s] = <<>> /\ chan[s] # <<>> /\ chan' = [chan EXCEPT ![s] = Tail(@)]
      /\ Head(chan[s]).msg = m /\ Head(chan[s]).left = 0
  BY DEF Reads
<1> QED BY <1>1, TakenStream

LEMMA HaveDoes ==
  ASSUME TypeOK, NEW s \in Sides, OnHave(s)
  PROVE  \E v \in SUBSET Ops :
           /\ Taken(s) /\ Stream(s)[1].msg = Have(v) /\ state[s] # "Live"
           /\ UNCHANGED <<start, doc, acked, nudged, breaks>> /\ writing'[Far(s)] = writing[Far(s)]
           /\ IF state[s] = "AwaitHave"
                THEN /\ state' = [state EXCEPT ![s] = "AwaitUpdates"]
                     /\ Stream(Far(s))' = Stream(Far(s)) \o Frame(Reply(s, v))
                ELSE state' = [state EXCEPT ![s] = "OutOfOrder"]
<1>1. PICK v \in SUBSET Ops :
        /\ state[s] # "Live" /\ Reads(s, Have(v))
        /\ UNCHANGED <<start, doc, acked, nudged, breaks>>
        /\ IF state[s] = "AwaitHave"
             THEN /\ state' = [state EXCEPT ![s] = "AwaitUpdates"]
                  /\ writing' = [writing EXCEPT ![s] = Frame(Reply(s, v))]
             ELSE state' = [state EXCEPT ![s] = "OutOfOrder"] /\ UNCHANGED writing
  BY DEF OnHave
<1>2. writing'[Far(s)] = writing[Far(s)] /\ (state[s] = "AwaitHave" => writing'[s] = Frame(Reply(s, v)))
  BY <1>1, SidesFacts DEF TypeOK
<1>3. Taken(s) /\ Stream(s)[1].msg = Have(v) /\ Stream(Far(s))' = Stream(Far(s)) \o writing'[s]
  BY <1>1, <1>2, ReadsDoes
<1> QED BY <1>1, <1>2, <1>3

LEMMA UpdatesDoes ==
  ASSUME TypeOK, NEW s \in Sides, OnUpdates(s)
  PROVE  \E U \in SUBSET Ops :
           /\ Taken(s) /\ Stream(s)[1].msg = Updates(U) /\ Stream(s)[1].left = 0 /\ state[s] # "Live"
           /\ UNCHANGED <<start, acked, nudged, breaks, writing>> /\ Stream(Far(s))' = Stream(Far(s))
           /\ IF state[s] = "AwaitUpdates"
                THEN /\ doc' = [doc EXCEPT ![s] = Imported(s, U)]
                     /\ state' = [state EXCEPT ![s] = IF s = "host" THEN "Done" ELSE "Draining"]
                ELSE state' = [state EXCEPT ![s] = "OutOfOrder"]
<1>1. PICK U \in SUBSET Ops :
        /\ state[s] # "Live" /\ Reads(s, Updates(U))
        /\ UNCHANGED <<start, acked, nudged, breaks, writing>>
        /\ IF state[s] = "AwaitUpdates"
             THEN /\ doc' = [doc EXCEPT ![s] = Imported(s, U)]
                  /\ state' = [state EXCEPT ![s] = IF s = "host" THEN "Done" ELSE "Draining"]
             ELSE state' = [state EXCEPT ![s] = "OutOfOrder"]
  BY DEF OnUpdates
<1>2. /\ Taken(s) /\ Stream(s)[1].msg = Updates(U) /\ Stream(s)[1].left = 0
      /\ Stream(Far(s))' = Stream(Far(s)) \o writing'[s] /\ writing'[s] = <<>>
  BY <1>1, ReadsDoes DEF Taken
<1> QED BY <1>1, <1>2, SidesFacts, NothingSaid

\* LiveSync::pending at the host, the puller's version being mark.
Caught(mark) ==
  IF "pull" \in start.perms /\ doc["host"] # mark
    THEN /\ acked' = doc["host"]
         /\ Stream("puller")' = Stream("puller") \o Frame(Updates(doc["host"] \ mark))
    ELSE acked' = mark /\ Stream("puller")' = Stream("puller")

LEMMA LiveHaveDoes ==
  ASSUME TypeOK, LiveOnHave
  PROVE  \E v \in SUBSET Ops :
           /\ Taken("host") /\ Stream("host")[1].msg = Have(v) /\ state["host"] = "Live" /\ Caught(v)
           /\ UNCHANGED <<start, doc, state, nudged, breaks>> /\ writing'["puller"] = writing["puller"]
<1>0. Far("host") = "puller" /\ "host" \in Sides /\ "puller" \in Sides
  BY DEF Far, Sides
<1>1. PICK v \in SUBSET Ops : /\ state["host"] = "Live" /\ Reads("host", Have(v)) /\ Catch(v)
                             /\ UNCHANGED <<start, doc, state, nudged, breaks>>
  BY DEF LiveOnHave
<1>2. writing'["puller"] = writing["puller"]
  BY <1>0, <1>1 DEF Catch, TypeOK
<1>3. /\ Taken("host") /\ Stream("host")[1].msg = Have(v)
      /\ Stream("puller")' = Stream("puller") \o writing'["host"] /\ writing["host"] = <<>>
  BY <1>0, <1>1, <1>2, ReadsDoes DEF Taken
<1>4. Stream("puller") \o <<>> = Stream("puller")
  BY <1>0, NothingSaid
<1>5. Caught(v)
  BY <1>0, <1>1, <1>3, <1>4 DEF Catch, Caught, TypeOK
<1> QED BY <1>1, <1>2, <1>3, <1>5

LEMMA LiveUpdatesDoes ==
  ASSUME TypeOK, LiveOnUpdates
  PROVE  \E U \in SUBSET Ops :
           /\ Taken("host") /\ Stream("host")[1].msg = Updates(U) /\ Stream("host")[1].left = 0
           /\ state["host"] = "Live" /\ doc' = [doc EXCEPT !["host"] = Imported("host", U)]
           /\ nudged' = (nudged \/ doc'["host"] # doc["host"]) /\ Stream("puller")' = Stream("puller")
           /\ UNCHANGED <<start, state, acked, writing, breaks>>
<1>0. Far("host") = "puller" /\ "host" \in Sides /\ "puller" \in Sides
  BY DEF Far, Sides
<1>1. PICK U \in SUBSET Ops :
        /\ state["host"] = "Live" /\ Reads("host", Updates(U))
        /\ doc' = [doc EXCEPT !["host"] = Imported("host", U)]
        /\ nudged' = (nudged \/ doc'["host"] # doc["host"])
        /\ UNCHANGED <<start, state, acked, writing, breaks>>
  BY DEF LiveOnUpdates
<1>2. /\ Taken("host") /\ Stream("host")[1].msg = Updates(U) /\ Stream("host")[1].left = 0
      /\ Stream("puller")' = Stream("puller") \o writing'["host"] /\ writing'["host"] = <<>>
  BY <1>0, <1>1, ReadsDoes DEF Taken
<1> QED BY <1>0, <1>1, <1>2, NothingSaid

LEMMA NudgeDoes ==
  ASSUME TypeOK, LiveOnNudge
  PROVE  /\ state["host"] = "Live" /\ nudged /\ Caught(acked)
         /\ Stream("host")' = Stream("host") /\ writing'["puller"] = writing["puller"]
         /\ nudged' = FALSE /\ UNCHANGED <<start, doc, state, breaks>>
<1>0. Far("host") = "puller" /\ Far("puller") = "host" /\ "host" \in Sides /\ "puller" \in Sides
  BY DEF Far, Sides
<1>1. /\ state["host"] = "Live" /\ nudged /\ writing["host"] = <<>> /\ Catch(acked)
      /\ nudged' = FALSE /\ UNCHANGED <<start, doc, state, chan, breaks>>
  BY DEF LiveOnNudge
<1>2. writing'["puller"] = writing["puller"]
  BY <1>0, <1>1 DEF Catch, TypeOK
<1>3. Stream("host")' = Stream("host")
  BY <1>0, <1>1, <1>2, StreamKept
<1>4. Stream("puller") = chan["puller"] /\ Stream("puller")' = chan["puller"] \o writing'["host"]
  <2>1. chan["puller"] \in Seq(Units)
    BY <1>0, StreamFacts
  <2>2. chan["puller"] \o <<>> = chan["puller"]
    BY <2>1, ConcatEmptySeq
  <2>3. /\ Stream("puller") = chan["puller"] \o writing["host"]
        /\ Stream("puller")' = chan'["puller"] \o writing'["host"]
    BY <1>0 DEF Stream
  <2>4. chan' = chan
    BY <1>1
  <2> QED BY <1>1, <2>2, <2>3, <2>4
<1>5. Stream("puller") \o <<>> = Stream("puller")
  BY <1>0, NothingSaid
<1>6. Caught(acked)
  BY <1>0, <1>1, <1>4, <1>5 DEF Catch, Caught, TypeOK
<1> QED BY <1>1, <1>2, <1>3, <1>6

LEMMA PresenceDoes ==
  ASSUME TypeOK, LivePresence
  PROVE  /\ state["host"] = "Live" /\ Stream("puller")' = Stream("puller") \o Frame(Ephemeral)
         /\ Stream("host")' = Stream("host") /\ writing'["puller"] = writing["puller"]
         /\ UNCHANGED <<start, doc, state, acked, nudged, breaks>>
<1>0. Far("host") = "puller" /\ Far("puller") = "host" /\ "host" \in Sides /\ "puller" \in Sides
  BY DEF Far, Sides
<1>1. /\ state["host"] = "Live" /\ writing["host"] = <<>>
      /\ writing' = [writing EXCEPT !["host"] = Frame(Ephemeral)]
      /\ UNCHANGED <<start, doc, state, acked, nudged, chan, breaks>>
  BY DEF LivePresence
<1>2. writing'["puller"] = writing["puller"] /\ writing'["host"] = Frame(Ephemeral)
  BY <1>0, <1>1 DEF TypeOK
<1>3. Stream("host")' = Stream("host")
  BY <1>0, <1>1, <1>2, StreamKept
<1>4. chan["puller"] \in Seq(Units) /\ chan["puller"] \o <<>> = chan["puller"]
  BY <1>0, StreamFacts, ConcatEmptySeq
<1>5. /\ Stream("puller") = chan["puller"] \o writing["host"]
      /\ Stream("puller")' = chan["puller"] \o writing'["host"]
  BY <1>0, <1>1 DEF Stream
<1> QED BY <1>1, <1>2, <1>3, <1>4, <1>5

LEMMA DialDoes ==
  ASSUME TypeOK, Ordered, Dial
  PROVE  /\ state["puller"] = "Dialing" /\ state' = [state EXCEPT !["puller"] = "AwaitHave"]
         /\ Stream("host") = <<>> /\ Stream("host")' = Frame(Have(doc["puller"]))
         /\ Stream("puller")' = Stream("puller") /\ UNCHANGED <<start, doc, acked, nudged, breaks>>
<1>0. Far("host") = "puller" /\ Far("puller") = "host" /\ "host" \in Sides /\ "puller" \in Sides
  BY DEF Far, Sides
<1>1. /\ state["puller"] = "Dialing" /\ writing' = [writing EXCEPT !["puller"] = Frame(Have(doc["puller"]))]
      /\ state' = [state EXCEPT !["puller"] = "AwaitHave"] /\ UNCHANGED <<start, doc, acked, nudged, chan, breaks>>
  BY DEF Dial
<1>2. Stream("host") = <<>>
  BY <1>0, <1>1 DEF Ordered, InOrder, Begin
<1>3. chan["host"] = <<>>
  BY <1>0, <1>2, StreamFacts
<1>4. Frame(Have(doc["puller"])) \in Seq(Units)
  BY <1>0, MsgFacts, FrameFacts DEF TypeOK
<1>5. Stream("host")' = <<>> \o Frame(Have(doc["puller"]))
  BY <1>0, <1>1, <1>3 DEF Stream, TypeOK
<1>6. <<>> \o Frame(Have(doc["puller"])) = Frame(Have(doc["puller"]))
  BY <1>4, ConcatEmptySeq
<1>7. Stream("puller")' = Stream("puller")
  BY <1>0, <1>1, StreamKept DEF TypeOK
<1> QED BY <1>1, <1>2, <1>5, <1>6, <1>7

LEMMA AcceptDoes ==
  ASSUME TypeOK, Ordered, Accept
  PROVE  /\ state["host"] = "Accepting" /\ start.perms # {} /\ Stream("host") # <<>>
         /\ state' = [state EXCEPT !["host"] = IF start.live THEN "Live" ELSE "AwaitHave"]
         /\ Stream("puller") = <<>> /\ Stream("puller")' = Opening /\ Stream("host")' = Stream("host")
         /\ UNCHANGED <<start, doc, acked, nudged, breaks>> /\ writing'["puller"] = writing["puller"]
<1>0. Far("host") = "puller" /\ Far("puller") = "host" /\ "host" \in Sides /\ "puller" \in Sides
  BY DEF Far, Sides
<1>1. /\ state["host"] = "Accepting" /\ chan["host"] # <<>> /\ start.perms # {}
      /\ state' = [state EXCEPT !["host"] = IF start.live THEN "Live" ELSE "AwaitHave"]
      /\ writing' = [writing EXCEPT !["host"] = Opening] /\ UNCHANGED <<start, doc, acked, nudged, chan, breaks>>
  BY DEF Accept
<1>2. Stream("puller") = <<>>
  BY <1>0, <1>1 DEF Ordered, InOrder, Begin
<1>3. chan["puller"] = <<>>
  BY <1>0, <1>2, StreamFacts
<1>4. Stream("host") # <<>>
  BY <1>0, <1>1, StreamFacts
<1>5. Stream("puller")' = <<>> \o Opening
  BY <1>0, <1>1, <1>3 DEF Stream, TypeOK
<1>6. <<>> \o Opening = Opening
  BY OpeningFacts, ConcatEmptySeq
<1>7. Stream("host")' = Stream("host") /\ writing'["puller"] = writing["puller"]
  BY <1>0, <1>1, StreamKept DEF TypeOK
<1> QED BY <1>1, <1>2, <1>4, <1>5, <1>6, <1>7

LEMMA RefuseDoes ==
  ASSUME TypeOK, Ordered, Refuse
  PROVE  /\ state["host"] = "Accepting" /\ start.perms = {} /\ Stream("host") # <<>>
         /\ state' = [state EXCEPT !["host"] = "Closed"]
         /\ Stream("puller") = <<>> /\ Stream("puller")' = Frame(Refused) /\ Stream("host")' = Stream("host")
         /\ UNCHANGED <<start, doc, acked, nudged, breaks, writing>>
<1>0. Far("host") = "puller" /\ Far("puller") = "host" /\ "host" \in Sides /\ "puller" \in Sides
  BY DEF Far, Sides
<1>1. /\ state["host"] = "Accepting" /\ chan["host"] # <<>> /\ start.perms = {}
      /\ state' = [state EXCEPT !["host"] = "Closed"]
      /\ chan' = [chan EXCEPT !["puller"] = @ \o Frame(Refused)]
      /\ UNCHANGED <<start, doc, acked, nudged, writing, breaks>>
  BY DEF Refuse
<1>2. Stream("puller") = <<>>
  BY <1>0, <1>1 DEF Ordered, InOrder, Begin
<1>3. chan["puller"] = <<>> /\ writing["host"] = <<>>
  BY <1>0, <1>2, StreamFacts
<1>4. Stream("host") # <<>>
  BY <1>0, <1>1, StreamFacts
<1>5. Stream("puller")' = (<<>> \o Frame(Refused)) \o <<>>
  BY <1>0, <1>1, <1>3 DEF Stream, TypeOK
<1>6. Frame(Refused) \in Seq(Units)
  BY MsgFacts, FrameFacts
<1>7. <<>> \o Frame(Refused) = Frame(Refused) /\ Frame(Refused) \o <<>> = Frame(Refused)
  BY <1>6, ConcatEmptySeq
<1>8. Stream("host")' = Stream("host")
  BY <1>0, <1>1, StreamKept DEF TypeOK
<1> QED BY <1>1, <1>2, <1>4, <1>5, <1>7, <1>8

\* A side whose write fails leaves what it has written.
LEMMA FailsDoes ==
  ASSUME TypeOK, NEW s \in Sides, WriteFails(s)
  PROVE  /\ writing[s] # <<>> /\ Gone(Far(s)) /\ ~Gone(s) /\ state' = [state EXCEPT ![s] = Cut(s)]
         /\ Stream(Far(s)) = Stream(Far(s))' \o writing[s] /\ Stream(Far(s))' \in Seq(Units)
         /\ Stream(s)' = Stream(s) /\ writing'[s] = <<>> /\ writing'[Far(s)] = writing[Far(s)]
         /\ UNCHANGED <<start, doc, acked, nudged, breaks>>
<1>1. /\ writing[s] # <<>> /\ Gone(Far(s)) /\ ~Gone(s) /\ state' = [state EXCEPT ![s] = Cut(s)]
      /\ writing' = [writing EXCEPT ![s] = <<>>] /\ UNCHANGED <<start, doc, acked, nudged, chan, breaks>>
  BY DEF WriteFails
<1>2. Far(s) \in Sides /\ Far(Far(s)) = s /\ chan[Far(s)] \in Seq(Units)
  BY SidesFacts, StreamFacts
<1>3. writing'[s] = <<>> /\ writing'[Far(s)] = writing[Far(s)]
  BY <1>1, SidesFacts DEF TypeOK
<1>4. Stream(Far(s))' = chan[Far(s)] \o <<>> /\ Stream(Far(s)) = chan[Far(s)] \o writing[s]
  BY <1>1, <1>2, <1>3 DEF Stream
<1>5. chan[Far(s)] \o <<>> = chan[Far(s)]
  BY <1>2, ConcatEmptySeq
<1>6. Stream(s)' = Stream(s)
  BY <1>1, <1>3, StreamKept
<1> QED BY <1>1, <1>2, <1>3, <1>4, <1>5, <1>6

LEMMA BreakDoes ==
  ASSUME TypeOK, Break
  PROVE  /\ state["puller"] # "Dialing" /\ ~Gone("host")
         /\ breaks' = breaks + 1 /\ UNCHANGED <<start, doc, acked, nudged>>
         /\ state'["host"] = "Closed"
         /\ state'["puller"] = IF state["puller"] = "Draining" THEN "Exited"
                               ELSE IF Gone("puller") THEN state["puller"] ELSE "Failed"
         /\ \A r \in Sides : Stream(r)' = <<>> /\ writing'[r] = <<>>
<1>1. \A r \in Sides : chan'[r] = <<>> /\ writing'[r] = <<>>
  BY DEF Break
<1>2. ASSUME NEW r \in Sides PROVE Stream(r)' = <<>>
  <2>1. Stream(r)' = <<>> \o <<>>
    BY <1>1, SidesFacts DEF Stream
  <2>2. <<>> \in Seq({}) /\ <<>> \o <<>> = <<>>
    BY ConcatEmptySeq
  <2> QED BY <2>1, <2>2
<1> QED BY <1>1, <1>2 DEF Break, Sides, Gone

\* The steps that leave the streams alone.
LEMMA StillDoes ==
  ASSUME TypeOK, UNCHANGED <<chan, writing>>, NEW r \in Sides
  PROVE  Stream(r)' = Stream(r)
  BY DEF Stream

-----------------------------------------------------------------------------
(* The order of a stream. *)

LEMMA TailFacts ==
  ASSUME NEW X, NEW S \in Seq(X), S # <<>>
  PROVE  /\ Tail(S) \in Seq(X) /\ S[1] \in X /\ 1 \in DOMAIN S
         /\ \A i \in DOMAIN Tail(S) : i \in Nat /\ i + 1 \in DOMAIN S /\ i + 1 # 1 /\ Tail(S)[i] = S[i + 1]
         /\ \A i \in DOMAIN S : i # 1 => i - 1 \in DOMAIN Tail(S) /\ Tail(S)[i - 1] = S[i]
  BY HeadTailProperties

LEMMA ConcatFacts ==
  ASSUME NEW X, NEW S \in Seq(X), NEW f \in Seq(X)
  PROVE  /\ S \o f \in Seq(X)
         /\ \A i \in DOMAIN S : i \in DOMAIN (S \o f) /\ (S \o f)[i] = S[i]
         /\ \A i \in DOMAIN f : Len(S) + i \in DOMAIN (S \o f) /\ (S \o f)[Len(S) + i] = f[i]
         /\ \A i \in DOMAIN (S \o f) :
              \/ i \in DOMAIN S /\ (S \o f)[i] = S[i]
              \/ i > Len(S) /\ i - Len(S) \in DOMAIN f /\ (S \o f)[i] = f[i - Len(S)]
         /\ Len(S \o f) = Len(S) + Len(f)
<1> DEFINE T == S \o f
<1>1. /\ T \in Seq(X) /\ Len(T) = Len(S) + Len(f)
      /\ \A i \in 1 .. Len(S) + Len(f) : T[i] = IF i <= Len(S) THEN S[i] ELSE f[i - Len(S)]
  BY ConcatProperties
<1> HIDE DEF T
<1>2. /\ Len(S) \in Nat /\ Len(f) \in Nat /\ DOMAIN S = 1 .. Len(S) /\ DOMAIN f = 1 .. Len(f)
      /\ DOMAIN T = 1 .. Len(T)
  BY <1>1
<1>3. \A i \in DOMAIN S : i \in DOMAIN T /\ T[i] = S[i]
  BY <1>1, <1>2
<1>4. ASSUME NEW i \in DOMAIN f PROVE Len(S) + i \in DOMAIN T /\ T[Len(S) + i] = f[i]
  <2>1. Len(S) + i \in 1 .. Len(S) + Len(f) /\ ~(Len(S) + i <= Len(S)) /\ Len(S) + i - Len(S) = i
    BY <1>2
  <2> QED BY <1>1, <1>2, <2>1
<1>5. ASSUME NEW i \in DOMAIN T
      PROVE  \/ i \in DOMAIN S /\ T[i] = S[i]
             \/ i > Len(S) /\ i - Len(S) \in DOMAIN f /\ T[i] = f[i - Len(S)]
  BY <1>1, <1>2
<1> QED BY <1>1, <1>3, <1>4, <1>5 DEF T

LEMMA OrderTail ==
  ASSUME NEW S \in Seq(Units), S # <<>>, HaveFirst(S)
  PROVE  NoHave(Tail(S)) /\ HaveFirst(Tail(S))
<1>1. NoHave(Tail(S))
  BY TailFacts DEF HaveFirst, NoHave
<1> QED BY <1>1 DEF HaveFirst, NoHave

LEMMA OrderConcat ==
  ASSUME NEW S \in Seq(Units), NEW f \in Seq(Units), NoHave(f)
  PROVE  /\ HaveFirst(S) => HaveFirst(S \o f)
         /\ NoHave(S) => NoHave(S \o f)
         /\ S # <<>> => S \o f # <<>> /\ (S \o f)[1] = S[1]
<1> DEFINE T == S \o f
<1>1. /\ T \in Seq(Units)
      /\ \A i \in DOMAIN S : i \in DOMAIN T /\ T[i] = S[i]
      /\ \A i \in DOMAIN T :
           \/ i \in DOMAIN S /\ T[i] = S[i]
           \/ i > Len(S) /\ i - Len(S) \in DOMAIN f /\ T[i] = f[i - Len(S)]
  BY ConcatFacts
<1> HIDE DEF T
<1>2. HaveFirst(S) => HaveFirst(T)
  BY <1>1 DEF HaveFirst, NoHave
<1>3. NoHave(S) => NoHave(T)
  BY <1>1 DEF NoHave
<1>4. S # <<>> => T # <<>> /\ T[1] = S[1]
  <2>1. S # <<>> <=> 1 \in DOMAIN S
    BY NotEmpty
  <2>2. T # <<>> <=> 1 \in DOMAIN T
    BY <1>1, NotEmpty
  <2> QED BY <1>1, <2>1, <2>2
<1> QED BY <1>2, <1>3, <1>4 DEF T

LEMMA OrderPrefix ==
  ASSUME NEW X, NEW c \in Seq(Units), NEW w \in Seq(Units), c \o w \in Seq(X)
  PROVE  c \in Seq(X) /\ (HaveFirst(c \o w) => HaveFirst(c))
<1>1. \A i \in DOMAIN c : i \in DOMAIN (c \o w) /\ (c \o w)[i] = c[i]
  BY ConcatFacts
<1>2. \A i \in DOMAIN (c \o w) : (c \o w)[i] \in X
  BY ElementOfSeq
<1>3. c \in [1 .. Len(c) -> X] /\ Len(c) \in Nat
  <2>1. DOMAIN c = 1 .. Len(c) /\ Len(c) \in Nat /\ c = [i \in 1 .. Len(c) |-> c[i]]
    OBVIOUS
  <2> QED BY <1>1, <1>2, <2>1
<1> QED BY <1>1, <1>3 DEF HaveFirst

LEMMA OrderSame ==
  ASSUME TypeOK, NEW r \in Sides, InOrder(r), Stream(r)' = Stream(r),
         \A q \in Sides : state'[q] = state[q] \/ state'[q] \notin Begin \cup Reading
  PROVE  InOrder(r)'
<1>1. Far(r) \in Sides
  BY SidesFacts
<1>2. "AwaitHave" \in Reading /\ "AwaitUpdates" \in Reading
  BY DEF Reading
<1>3. state'[r] = state[r] \/ state'[r] \notin Begin \cup Reading
  OBVIOUS
<1>4. state'[Far(r)] = state[Far(r)] \/ state'[Far(r)] \notin Begin \cup Reading
  BY <1>1
<1>5. CASE state'[r] = state[r]
  BY <1>4, <1>5 DEF InOrder
<1>6. CASE state'[r] \notin Begin \cup Reading
  BY <1>2, <1>4, <1>6 DEF InOrder
<1> QED BY <1>3, <1>5, <1>6

LEMMA OrderTaken ==
  ASSUME TypeOK, NEW r \in Sides, InOrder(r), Taken(r), state'[Far(r)] = state[Far(r)],
         state'[r] \notin Begin \cup {"AwaitHave"}
  PROVE  InOrder(r)'
<1>1. Stream(r) \in Seq(Units) /\ Stream(r) # <<>> /\ Stream(r)' = Tail(Stream(r)) /\ HaveFirst(Stream(r))
  BY StreamFacts DEF Taken, InOrder
<1>2. NoHave(Stream(r)') /\ HaveFirst(Stream(r)')
  BY <1>1, OrderTail
<1>3. state[Far(r)] \notin Begin
  BY <1>1 DEF InOrder
<1> QED BY <1>2, <1>3 DEF InOrder

LEMMA OrderSaid ==
  ASSUME TypeOK, NEW r \in Sides, InOrder(r), NEW f \in Seq(Units), NoHave(f),
         Stream(r)' = Stream(r) \o f, state'[r] = state[r],
         state[Far(r)] \in Reading, state'[Far(r)] \in Reading
  PROVE  InOrder(r)'
<1>1. Stream(r) \in Seq(Units)
  BY StreamFacts
<1>2. /\ HaveFirst(Stream(r)') /\ (NoHave(Stream(r)) => NoHave(Stream(r)'))
      /\ Stream(r) # <<>> => Stream(r)' # <<>> /\ Stream(r)'[1] = Stream(r)[1]
  BY <1>1, OrderConcat DEF InOrder
<1>3. state'[Far(r)] \notin Begin /\ state[Far(r)] \notin Begin
  BY DEF Reading, Begin
<1>4. state[r] \in Begin \cup {"AwaitHave"} => Stream(r) # <<>> /\ Starting(Stream(r))
  BY DEF InOrder
<1>5. state[r] \in Begin \cup {"AwaitHave"} => Stream(r)' # <<>> /\ Starting(Stream(r)')
  BY <1>2, <1>4 DEF Starting
<1>6. state[r] = "AwaitUpdates" => NoHave(Stream(r)')
  BY <1>2 DEF InOrder
<1> QED BY <1>2, <1>3, <1>5, <1>6 DEF InOrder

LEMMA SeqGrow ==
  ASSUME NEW X, NEW Y, X \subseteq Y, NEW S \in Seq(X) PROVE S \in Seq(Y)
  OBVIOUS

LEMMA UnitsGrow ==
  ASSUME start' = start, doc["host"] \subseteq doc'["host"]
  PROVE  HostUnits \subseteq HostUnits' /\ PullerUnits \subseteq PullerUnits'
<1>1. ASSUME NEW u \in HostUnits PROVE u \in HostUnits'
  <2>1. u \in Units /\ HostSays(u)
    BY <1>1 DEF HostUnits
  <2>2. HostSays(u)'
    BY <2>1 DEF HostSays, Is
  <2> QED BY <2>1, <2>2 DEF HostUnits, Units, Msg
<1>2. ASSUME NEW u \in PullerUnits PROVE u \in PullerUnits'
  <2>1. u \in Units /\ PullerSays(u)
    BY <1>2 DEF PullerUnits
  <2>2. PullerSays(u)'
    BY <2>1 DEF PullerSays, Is
  <2> QED BY <2>1, <2>2 DEF PullerUnits, Units, Msg
<1> QED BY <1>1, <1>2

LEMMA ContentsGrow ==
  ASSUME Contents, start' = start, doc["host"] \subseteq doc'["host"]
  PROVE  Stream("puller") \in Seq(HostUnits') /\ Stream("host") \in Seq(PullerUnits')
  BY UnitsGrow, SeqGrow DEF Contents

LEMMA FrameIn ==
  ASSUME NEW X, NEW m \in Msg,
         \A u \in Units : u.msg = m /\ (m.type # "Updates" => u.left = 0) => u \in X
  PROVE  Frame(m) \in Seq(X)
<1> DEFINE f == Frame(m)
<1>1. /\ f \in Seq(Units) /\ Len(f) \in Nat /\ (m.type # "Updates" => Len(f) = 1)
      /\ \A i \in 1 .. Len(f) : f[i].msg = m /\ f[i].left = Len(f) - i
  BY FrameFacts
<1> HIDE DEF f
<1>2. ASSUME NEW i \in 1 .. Len(f) PROVE f[i] \in X
  <2>1. f[i] \in Units
    BY <1>1, ElementOfSeq
  <2>2. m.type # "Updates" => f[i].left = 0
    BY <1>1
  <2> QED BY <1>1, <2>1, <2>2
<1>3. f \in Seq(X)
  BY <1>1, <1>2
<1> QED BY <1>3 DEF f

\* Nothing that is said later is a version.
LEMMA UpdatesFrame ==
  ASSUME NEW U \in SUBSET Ops
  PROVE  Frame(Updates(U)) \in Seq(Units) /\ NoHave(Frame(Updates(U)))
<1>1. Updates(U) \in Msg /\ Updates(U).type = "Updates"
  BY MsgFacts
<1>2. /\ Frame(Updates(U)) \in Seq(Units)
      /\ \A i \in 1 .. Len(Frame(Updates(U))) : Frame(Updates(U))[i].msg = Updates(U)
  BY <1>1, FrameFacts
<1> QED BY <1>1, <1>2, NotEmpty DEF NoHave, Is

LEMMA PresenceFrame ==
  /\ Frame(Ephemeral) \in Seq(Units) /\ NoHave(Frame(Ephemeral))
  /\ NoUpdates(Frame(Ephemeral)) /\ Framed(Frame(Ephemeral))
<1>1. Ephemeral \in Msg /\ Ephemeral.type = "Ephemeral"
  BY MsgFacts
<1>2. /\ Frame(Ephemeral) \in Seq(Units) /\ Len(Frame(Ephemeral)) = 1
      /\ \A i \in 1 .. 1 : Frame(Ephemeral)[i].msg = Ephemeral /\ Frame(Ephemeral)[i].left = 1 - i
  BY <1>1, FrameFacts
<1>3. DOMAIN Frame(Ephemeral) = 1 .. 1
  BY <1>2, NotEmpty
<1>4. \A i \in DOMAIN Frame(Ephemeral) : Frame(Ephemeral)[i].msg = Ephemeral /\ Frame(Ephemeral)[i].left = 0
  BY <1>2, <1>3
<1> QED BY <1>1, <1>2, <1>4 DEF NoHave, NoUpdates, Framed, Is

LEMMA BaseStill ==
  ASSUME TypeOK, Base, start' = start, doc["host"] \subseteq doc'["host"],
         \A r \in Sides : Stream(r)' = Stream(r),
         \A q \in Sides : state'[q] = state[q] \/ state'[q] \notin Begin \cup Reading,
         Roles', Holds'
  PROVE  Base'
<1>1. Contents'
  <2>1. "host" \in Sides /\ "puller" \in Sides
    BY DEF Sides
  <2> QED BY <2>1, ContentsGrow DEF Base, Contents
<1>2. Ordered'
  BY OrderSame DEF Base, Ordered
<1> QED BY <1>1, <1>2 DEF Base

LEMMA BaseInit == Init => TypeOK /\ Base
<1> SUFFICES ASSUME Init PROVE TypeOK /\ Base
  OBVIOUS
<1>0. "host" \in Sides /\ "puller" \in Sides /\ Far("host") = "puller" /\ Far("puller") = "host"
  BY DEF Sides, Far
<1>1. start \in Start /\ start.host \in SUBSET Ops /\ start.puller \in SUBSET Ops
  BY StartsAssumption DEF Init, Start
<1>2. TypeOK
  <2>1. <<>> \in Seq([msg : Msg, left : Nat])
    OBVIOUS
  <2>2. /\ writing \in [Sides -> Seq([msg : Msg, left : Nat])]
        /\ chan \in [Sides -> Seq([msg : Msg, left : Nat])]
    BY <2>1 DEF Init
  <2>3. doc \in [Sides -> SUBSET Ops] /\ state \in [Sides -> State]
    BY <1>1 DEF Init, State
  <2> QED BY <2>2, <2>3 DEF Init, TypeOK
<1>3. <<>> \in Seq({}) /\ <<>> \o <<>> = <<>>
  BY ConcatEmptySeq
<1>4. ASSUME NEW r \in Sides PROVE Stream(r) = <<>>
  <2>1. chan[r] = <<>> /\ writing[Far(r)] = <<>>
    BY SidesFacts DEF Init
  <2> QED BY <1>3, <2>1 DEF Stream
<1>5. Ordered
  <2> SUFFICES ASSUME NEW r \in Sides PROVE InOrder(r)
    BY DEF Ordered
  <2>1. HaveFirst(Stream(r)) /\ NoHave(Stream(r)) /\ Starting(Stream(r))
    BY <1>4 DEF HaveFirst, NoHave, Starting
  <2>2. state[r] \in Begin /\ state[Far(r)] \in Begin /\ Far(r) \in Sides
    BY SidesFacts DEF Init, Begin, Sides
  <2> QED BY <1>4, <2>1, <2>2 DEF InOrder, Begin, Reading
<1>6. Contents
  <2>1. Stream("puller") = <<>> /\ Stream("host") = <<>>
    BY <1>0, <1>4
  <2>2. \A X : <<>> \in Seq(X)
    OBVIOUS
  <2> QED BY <2>1, <2>2 DEF Contents
<1>7. Roles /\ Holds
  BY <1>0 DEF Init, Roles, Holds
<1> QED BY <1>2, <1>5, <1>6, <1>7 DEF Base

LEMMA Ends == "host" \in Sides /\ "puller" \in Sides /\ Far("host") = "puller" /\ Far("puller") = "host"
  BY DEF Sides, Far

LEMMA BothSides == ASSUME InOrder("host")', InOrder("puller")' PROVE Ordered'
  BY DEF Ordered, Sides

LEMMA BaseDial ==
  ASSUME TypeOK, Base, Dial
  PROVE  Base'
<1> DEFINE f == Frame(Have(doc["puller"]))
<1>1. /\ state["puller"] = "Dialing" /\ state' = [state EXCEPT !["puller"] = "AwaitHave"]
      /\ Stream("host") = <<>> /\ Stream("host")' = f /\ Stream("puller")' = Stream("puller")
      /\ UNCHANGED <<start, doc>>
  BY DialDoes DEF Base
<1>2. state'["puller"] = "AwaitHave" /\ state'["host"] = state["host"]
  BY <1>1, Ends DEF TypeOK
<1>3. doc["puller"] \in SUBSET Ops /\ doc["puller"] = start.puller
  BY <1>1, Ends DEF TypeOK, Base, Holds
<1>4. Have(doc["puller"]) \in Msg /\ Have(doc["puller"]).type = "Have" /\ Have(doc["puller"]).ops = start.puller
  BY <1>3, MsgFacts
<1>5. f \in Seq(PullerUnits')
  <2>1. ASSUME NEW u \in Units, u.msg = Have(doc["puller"]), u.left = 0 PROVE u \in PullerUnits'
    BY <1>1, <1>4, <2>1 DEF PullerUnits, PullerSays, Is, Units, Msg
  <2> QED BY <1>4, <2>1, FrameIn
<1>6. f \in Seq(Units) /\ Len(f) = 1 /\ f[1].msg = Have(doc["puller"])
  BY <1>4, FrameFacts
<1> HIDE DEF f
<1>7. DOMAIN f = 1 .. 1 /\ f # <<>>
  BY <1>6, NotEmpty
<1>8. HaveFirst(f) /\ Starting(f)
  BY <1>4, <1>6, <1>7 DEF HaveFirst, Starting
<1>9. InOrder("host")'
  <2>1. state["host"] # "AwaitUpdates"
    BY <1>1, Ends DEF Base, Ordered, InOrder, Begin
  <2> QED BY <1>1, <1>2, <1>7, <1>8, <2>1, Ends DEF InOrder, Begin
<1>10. InOrder("puller")'
  BY <1>1, <1>2, Ends DEF Base, Ordered, InOrder, Begin
<1>11. Contents'
  BY <1>1, <1>5, ContentsGrow DEF Contents, Base
<1> QED BY <1>1, <1>2, <1>9, <1>10, <1>11, BothSides DEF Base, Roles, Holds

LEMMA BaseAccept ==
  ASSUME TypeOK, Base, Accept
  PROVE  Base'
<1>1. /\ state["host"] = "Accepting" /\ Stream("host") # <<>>
      /\ state' = [state EXCEPT !["host"] = IF start.live THEN "Live" ELSE "AwaitHave"]
      /\ Stream("puller") = <<>> /\ Stream("puller")' = Opening /\ Stream("host")' = Stream("host")
      /\ UNCHANGED <<start, doc>>
  BY AcceptDoes DEF Base
<1>2. state'["host"] \in {"Live", "AwaitHave"} /\ state'["puller"] = state["puller"]
  BY <1>1, Ends DEF TypeOK
<1>3. doc["host"] \in SUBSET Ops
  BY Ends DEF TypeOK
<1>4. /\ Opening \in Seq(Units) /\ Opening # <<>> /\ Opening[1] = [msg |-> Have(doc["host"]), left |-> 0]
      /\ \A i \in DOMAIN Opening : i # 1 => Opening[i] = [msg |-> Ephemeral, left |-> 0]
  BY OpeningFacts
<1>5. Opening[1].msg.type = "Have" /\ \A i \in DOMAIN Opening : i # 1 => Opening[i].msg.type = "Ephemeral"
  BY <1>3, <1>4, MsgFacts
<1>6. HaveFirst(Opening) /\ Starting(Opening)
  BY <1>5 DEF HaveFirst, Starting, Is
<1>7. Opening \in Seq(HostUnits')
  <2>1. [msg |-> Have(doc["host"]), left |-> 0] \in HostUnits'
    BY <1>1, <1>3, MsgFacts DEF HostUnits, HostSays, Is, Units, Msg
  <2>2. [msg |-> Ephemeral, left |-> 0] \in HostUnits'
    BY <1>1, <1>3, MsgFacts DEF HostUnits, HostSays, Is, Units, Msg
  <2>3. \A i \in DOMAIN Opening : Opening[i] \in HostUnits'
    BY <1>4, <2>1, <2>2
  <2> HIDE DEF Opening
  <2> QED BY <1>4, <2>3
<1>8. InOrder("puller")'
  <2>1. state["puller"] # "AwaitUpdates"
    BY <1>1, Ends DEF Base, Ordered, InOrder, Begin
  <2> QED BY <1>1, <1>2, <1>4, <1>6, <2>1, Ends DEF InOrder, Begin
<1>9. InOrder("host")'
  BY <1>1, <1>2, Ends DEF Base, Ordered, InOrder, Begin
<1>10. Contents'
  BY <1>1, <1>7, ContentsGrow DEF Contents, Base
<1> QED BY <1>1, <1>2, <1>8, <1>9, <1>10, BothSides DEF Base, Roles, Holds

LEMMA BaseRefuse ==
  ASSUME TypeOK, Base, Refuse
  PROVE  Base'
<1> DEFINE f == Frame(Refused)
<1>1. /\ state["host"] = "Accepting" /\ state' = [state EXCEPT !["host"] = "Closed"]
      /\ Stream("puller") = <<>> /\ Stream("puller")' = f /\ Stream("host")' = Stream("host")
      /\ UNCHANGED <<start, doc>>
  BY RefuseDoes DEF Base
<1>2. state'["host"] = "Closed" /\ state'["puller"] = state["puller"]
  BY <1>1, Ends DEF TypeOK
<1>3. f \in Seq(HostUnits')
  <2>1. ASSUME NEW u \in Units, u.msg = Refused, u.left = 0 PROVE u \in HostUnits'
    BY <1>1, <2>1, MsgFacts DEF HostUnits, HostSays, Is, Units, Msg
  <2> QED BY <2>1, FrameIn, MsgFacts
<1>4. f \in Seq(Units) /\ Len(f) = 1 /\ f[1].msg = Refused
  BY FrameFacts, MsgFacts
<1> HIDE DEF f
<1>5. DOMAIN f = 1 .. 1
  BY <1>4, NotEmpty
<1>6. HaveFirst(f) /\ Starting(f) /\ NoHave(f)
  BY <1>4, <1>5, MsgFacts DEF HaveFirst, Starting, NoHave, Is
<1>7. InOrder("puller")'
  <2>1. state["puller"] # "AwaitUpdates"
    BY <1>1, Ends DEF Base, Ordered, InOrder, Begin
  <2> QED BY <1>1, <1>2, <1>6, <2>1, Ends DEF InOrder, Begin, Reading
<1>8. InOrder("host")'
  BY <1>1, <1>2, Ends DEF Base, Ordered, InOrder, Begin
<1>9. Contents'
  BY <1>1, <1>3, ContentsGrow DEF Contents, Base
<1> QED BY <1>1, <1>2, <1>7, <1>8, <1>9, BothSides DEF Base, Roles, Holds

LEMMA BaseFails ==
  ASSUME TypeOK, Base, NEW s \in Sides, WriteFails(s)
  PROVE  Base'
<1>1. /\ writing[s] # <<>> /\ Gone(Far(s)) /\ ~Gone(s) /\ state' = [state EXCEPT ![s] = Cut(s)]
      /\ Stream(Far(s)) = Stream(Far(s))' \o writing[s] /\ Stream(Far(s))' \in Seq(Units)
      /\ Stream(s)' = Stream(s) /\ UNCHANGED <<start, doc>>
  BY FailsDoes
<1>2. state'[s] = Cut(s) /\ state'[Far(s)] = state[Far(s)] /\ Far(s) \in Sides /\ writing[s] \in Seq(Units)
  BY <1>1, SidesFacts, StreamFacts DEF TypeOK
<1>3. state'[s] \notin Begin \cup Reading /\ state'[Far(s)] \notin Begin \cup Reading
  BY <1>1, <1>2 DEF Cut, Gone, Begin, Reading
<1>4. InOrder(s)'
  BY <1>1, <1>2, <1>3, SidesFacts, OrderSame DEF Base, Ordered
<1>5. HaveFirst(Stream(Far(s))')
  <2>1. HaveFirst(Stream(Far(s))) /\ Stream(Far(s)) \in Seq(Units)
    BY <1>2, StreamFacts DEF Base, Ordered, InOrder
  <2> QED BY <1>1, <1>2, <2>1, OrderPrefix
<1>6. InOrder(Far(s))'
  BY <1>2, <1>3, <1>5, SidesFacts DEF InOrder, Reading
<1>7. Contents'
  <2>1. Stream("puller") \in Seq(HostUnits') /\ Stream("host") \in Seq(PullerUnits')
    BY <1>1, ContentsGrow DEF Base
  <2>2. ASSUME NEW X, Stream(Far(s)) \in Seq(X) PROVE Stream(Far(s))' \in Seq(X)
    BY <1>1, <1>2, <2>2, OrderPrefix
  <2>3. CASE s = "host"
    BY <1>1, <2>1, <2>2, <2>3, Ends DEF Contents
  <2>4. CASE s = "puller"
    BY <1>1, <2>1, <2>2, <2>4, Ends DEF Contents
  <2> QED BY <2>3, <2>4 DEF Sides
<1>8. Ordered'
  BY <1>4, <1>6, SidesFacts DEF Ordered
<1>9. Roles' /\ Holds'
  <2>1. CASE s = "host"
    BY <1>1, <1>2, <2>1, Ends DEF Base, Roles, Holds, Cut
  <2>2. CASE s = "puller"
    BY <1>1, <1>2, <2>2, Ends DEF Base, Roles, Holds, Cut, Gone
  <2> QED BY <2>1, <2>2 DEF Sides
<1> QED BY <1>7, <1>8, <1>9 DEF Base

LEMMA BaseBreak ==
  ASSUME TypeOK, Base, Break
  PROVE  Base'
<1>1. /\ state["puller"] # "Dialing" /\ UNCHANGED <<start, doc>> /\ state'["host"] = "Closed"
      /\ state'["puller"] = IF state["puller"] = "Draining" THEN "Exited"
                            ELSE IF Gone("puller") THEN state["puller"] ELSE "Failed"
      /\ Stream("host")' = <<>> /\ Stream("puller")' = <<>>
  BY BreakDoes, Ends
<1>2. Roles' /\ Holds'
  BY <1>1 DEF Base, Roles, Holds, Gone
<1>3. state'["puller"] \in {"Exited", "Failed"}
  BY <1>1 DEF Base, Roles, Gone
<1>4. HaveFirst(<<>>)
  BY DEF HaveFirst
<1>5. InOrder("host")' /\ InOrder("puller")'
  BY <1>1, <1>3, <1>4, Ends DEF InOrder, Begin, Reading
<1>6. \A X : <<>> \in Seq(X)
  OBVIOUS
<1> QED BY <1>1, <1>2, <1>5, <1>6, BothSides DEF Base, Contents

\* The first unit of a stream, by who reads it and when.
LEMMA FirstUnit ==
  ASSUME TypeOK, Base, NEW s \in Sides, Taken(s)
  PROVE  /\ Stream(s)[1] \in Units /\ (~Is(Stream(s)[1], "Updates") => Stream(s)[1].left = 0)
         /\ s = "puller" => Stream(s)[1] \in HostUnits
         /\ s = "host" => Stream(s)[1] \in PullerUnits
         /\ state[s] = "AwaitHave" => Stream(s)[1].msg.type \in {"Have", "Refused"}
         /\ state[s] = "AwaitUpdates" => ~Is(Stream(s)[1], "Have")
         /\ state[s] \notin Begin /\ state[s] \in {"AwaitHave", "AwaitUpdates", "Live"}
<1>1. Stream(s) # <<>> /\ Stream(s) \in Seq(Units) /\ 1 \in DOMAIN Stream(s)
  BY StreamFacts, NotEmpty DEF Taken
<1>2. /\ s = "puller" => Stream(s)[1] \in HostUnits
      /\ s = "host" => Stream(s)[1] \in PullerUnits
  <2>1. s = "puller" => Stream(s) \in Seq(HostUnits)
    BY DEF Base, Contents
  <2>2. s = "host" => Stream(s) \in Seq(PullerUnits)
    BY DEF Base, Contents
  <2> QED BY <1>1, <2>1, <2>2, TailFacts
<1>3. Stream(s)[1] \in Units /\ (~Is(Stream(s)[1], "Updates") => Stream(s)[1].left = 0)
  BY <1>2 DEF Sides, HostUnits, PullerUnits, HostSays, PullerSays
<1>4. InOrder(s)
  BY DEF Base, Ordered
<1>5. state[s] = "AwaitHave" => Stream(s)[1].msg.type \in {"Have", "Refused"}
  BY <1>1, <1>4 DEF InOrder, Starting
<1>6. state[s] = "AwaitUpdates" => ~Is(Stream(s)[1], "Have")
  BY <1>1, <1>4 DEF InOrder, NoHave
<1>7. state[s] \notin Begin /\ state[s] \in {"AwaitHave", "AwaitUpdates", "Live"}
  BY DEF Taken, Reading, Begin
<1> QED BY <1>2, <1>3, <1>5, <1>6, <1>7

LEMMA ContentsTaken ==
  ASSUME TypeOK, Base, NEW s \in Sides, Taken(s), start' = start, doc["host"] \subseteq doc'["host"]
  PROVE  /\ s = "puller" => Stream("puller")' \in Seq(HostUnits')
         /\ s = "host" => Stream("host")' \in Seq(PullerUnits')
         /\ Stream("puller") \in Seq(HostUnits') /\ Stream("host") \in Seq(PullerUnits')
<1>1. Stream("puller") \in Seq(HostUnits') /\ Stream("host") \in Seq(PullerUnits')
  BY ContentsGrow DEF Base
<1>2. Stream(s) # <<>> /\ Stream(s)' = Tail(Stream(s))
  BY DEF Taken
<1>3. ASSUME NEW X, Stream(s) \in Seq(X) PROVE Stream(s)' \in Seq(X)
  <2>1. Tail(Stream(s)) \in Seq(X)
    BY <1>2, <1>3, TailFacts
  <2> QED BY <1>2, <2>1
<1>4. s = "puller" => Stream("puller")' \in Seq(HostUnits')
  BY <1>1, <1>3
<1>5. s = "host" => Stream("host")' \in Seq(PullerUnits')
  BY <1>1, <1>3
<1> QED BY <1>1, <1>4, <1>5

LEMMA BaseTaken ==
  ASSUME TypeOK, Base, NEW s \in Sides, Taken(s), start' = start, doc["host"] \subseteq doc'["host"],
         Stream(Far(s))' = Stream(Far(s)), state'[Far(s)] = state[Far(s)],
         state'[s] \notin Begin \cup {"AwaitHave"}, state'[s] = state[s] \/ state'[s] \notin Begin \cup Reading,
         Roles', Holds'
  PROVE  Base'
<1>1. InOrder(s)'
  BY OrderTaken DEF Base, Ordered
<1>2. InOrder(Far(s))'
  BY SidesFacts, OrderSame DEF Base, Ordered
<1>3. Ordered'
  BY <1>1, <1>2, SidesFacts DEF Ordered
<1>4. Contents'
  <2>1. CASE s = "host"
    BY <2>1, Ends, ContentsTaken DEF Contents
  <2>2. CASE s = "puller"
    BY <2>2, Ends, ContentsTaken DEF Contents
  <2> QED BY <2>1, <2>2 DEF Sides
<1> QED BY <1>3, <1>4 DEF Base

LEMMA BaseSkip ==
  ASSUME TypeOK, Base, NEW s \in Sides, ReadPart(s) \/ OnEphemeral(s)
  PROVE  Base'
<1>1. /\ Taken(s) /\ Stream(Far(s))' = Stream(Far(s))
      /\ Stream(s)[1].left > 0 \/ Is(Stream(s)[1], "Ephemeral")
      /\ UNCHANGED <<start, doc, state>>
  BY SkipDoes
<1>2. state[s] # "AwaitHave"
  <2>1. Stream(s)[1].left > 0 => Stream(s)[1].left # 0
    OBVIOUS
  <2> QED BY <1>1, <2>1, FirstUnit DEF Is
<1>3. state[s] \notin Begin \cup {"AwaitHave"}
  BY <1>1, <1>2, FirstUnit
<1> QED BY <1>1, <1>3, BaseTaken DEF Base, Roles, Holds

LEMMA BaseRefused ==
  ASSUME TypeOK, Base, NEW s \in Sides, OnRefused(s)
  PROVE  Base'
<1>1. /\ Taken(s) /\ Stream(Far(s))' = Stream(Far(s)) /\ Is(Stream(s)[1], "Refused")
      /\ state' = [state EXCEPT ![s] = "Failed"] /\ UNCHANGED <<start, doc>>
  BY RefusedDoes
<1>2. s = "puller"
  BY <1>1, FirstUnit DEF PullerUnits, PullerSays, Is, Sides
<1>3. state'["puller"] = "Failed" /\ state'["host"] = state["host"]
  BY <1>1, <1>2, Ends DEF TypeOK
<1>4. state["puller"] \notin {"Draining", "Exited"}
  BY <1>1, <1>2, FirstUnit
<1>5. Roles' /\ Holds'
  BY <1>1, <1>3, <1>4 DEF Base, Roles, Holds
<1> QED BY <1>1, <1>2, <1>3, <1>5, Ends, BaseTaken DEF Begin, Reading

LEMMA BaseHave ==
  ASSUME TypeOK, Base, NEW s \in Sides, OnHave(s)
  PROVE  Base'
<1>1. PICK v \in SUBSET Ops :
        /\ Taken(s) /\ Stream(s)[1].msg = Have(v) /\ state[s] # "Live" /\ UNCHANGED <<start, doc>>
        /\ IF state[s] = "AwaitHave"
             THEN /\ state' = [state EXCEPT ![s] = "AwaitUpdates"]
                  /\ Stream(Far(s))' = Stream(Far(s)) \o Frame(Reply(s, v))
             ELSE state' = [state EXCEPT ![s] = "OutOfOrder"]
  BY HaveDoes
<1>2. Is(Stream(s)[1], "Have") /\ Stream(s)[1].msg.ops = v
  BY <1>1, MsgFacts DEF Is
<1>3. state[s] = "AwaitHave"
  BY <1>1, <1>2, FirstUnit
<1>4. /\ Far(s) \in Sides /\ Far(Far(s)) = s /\ state'[s] = "AwaitUpdates" /\ state'[Far(s)] = state[Far(s)]
      /\ Stream(Far(s))' = Stream(Far(s)) \o Frame(Reply(s, v))
  BY <1>1, <1>3, SidesFacts DEF TypeOK
<1> DEFINE W == IF "pull" \in GrantsTo(s) THEN doc[s] \ v ELSE {}
<1>5. W \in SUBSET Ops /\ Reply(s, v) = Updates(W) /\ W \subseteq doc[s]
  BY DEF Reply, TypeOK
<1>6. s = "host" => W \subseteq doc["host"] /\ ("pull" \notin start.perms => W = {})
  BY <1>5 DEF GrantsTo
<1>7. s = "puller" => start.puller \subseteq doc["host"] \cup W
  <2> SUFFICES ASSUME s = "puller" PROVE start.puller \subseteq doc["host"] \cup W
    OBVIOUS
  <2>1. W = doc["puller"] \ v
    BY DEF GrantsTo, Perms
  <2>2. doc["puller"] = start.puller
    BY <1>3 DEF Base, Holds
  <2>3. v \subseteq doc["host"]
    BY <1>1, <1>2, FirstUnit DEF HostUnits, HostSays
  <2> QED BY <2>1, <2>2, <2>3
<1> HIDE DEF W
<1> DEFINE f == Frame(Updates(W))
<1>8. f \in Seq(Units) /\ NoHave(f) /\ Updates(W) \in Msg /\ Updates(W).type = "Updates" /\ Updates(W).ops = W
  BY <1>5, UpdatesFrame, MsgFacts
<1>9. s = "host" => f \in Seq(HostUnits')
  <2> SUFFICES ASSUME s = "host" PROVE f \in Seq(HostUnits')
    OBVIOUS
  <2>1. ASSUME NEW u \in Units, u.msg = Updates(W) PROVE u \in HostUnits'
    BY <1>1, <1>6, <1>8, <2>1 DEF HostUnits, HostSays, Is, Units, Msg
  <2> QED BY <1>8, <2>1, FrameIn
<1>10. s = "puller" => f \in Seq(PullerUnits')
  <2> SUFFICES ASSUME s = "puller" PROVE f \in Seq(PullerUnits')
    OBVIOUS
  <2>1. ASSUME NEW u \in Units, u.msg = Updates(W) PROVE u \in PullerUnits'
    BY <1>1, <1>7, <1>8, <2>1 DEF PullerUnits, PullerSays, Is, Units, Msg
  <2> QED BY <1>8, <2>1, FrameIn
<1>11. Stream(Far(s))' = Stream(Far(s)) \o f
  BY <1>4, <1>5
<1> HIDE DEF f
<1>12. InOrder(s)'
  BY <1>1, <1>4, OrderTaken DEF Base, Ordered, Begin
<1>13. InOrder(Far(s))'
  <2>1. InOrder(Far(s)) /\ state[s] \in Reading /\ state'[s] \in Reading
    BY <1>3, <1>4 DEF Base, Ordered, Reading
  <2> QED BY <1>4, <1>8, <1>11, <2>1, OrderSaid
<1>14. Contents'
  <2>1. CASE s = "host"
    <3>1. Stream("puller") \in Seq(HostUnits') /\ Stream("host")' \in Seq(PullerUnits') /\ f \in Seq(HostUnits')
      BY <1>1, <1>9, <2>1, ContentsTaken
    <3> QED BY <1>11, <2>1, <3>1, Ends, ConcatProperties DEF Contents
  <2>2. CASE s = "puller"
    <3>1. Stream("host") \in Seq(PullerUnits') /\ Stream("puller")' \in Seq(HostUnits') /\ f \in Seq(PullerUnits')
      BY <1>1, <1>10, <2>2, ContentsTaken
    <3> QED BY <1>11, <2>2, <3>1, Ends, ConcatProperties DEF Contents
  <2> QED BY <2>1, <2>2 DEF Sides
<1>15. Ordered'
  BY <1>12, <1>13, SidesFacts DEF Ordered
<1>16. Roles' /\ Holds'
  <2>1. CASE s = "host"
    BY <1>1, <1>4, <2>1, Ends DEF Base, Roles, Holds
  <2>2. CASE s = "puller"
    BY <1>1, <1>3, <1>4, <2>2, Ends DEF Base, Roles, Holds
  <2> QED BY <2>1, <2>2 DEF Sides
<1> QED BY <1>14, <1>15, <1>16 DEF Base

LEMMA BaseUpdates ==
  ASSUME TypeOK, Base, NEW s \in Sides, OnUpdates(s)
  PROVE  Base'
<1>1. PICK U \in SUBSET Ops :
        /\ Taken(s) /\ Stream(s)[1].msg = Updates(U) /\ state[s] # "Live"
        /\ start' = start /\ Stream(Far(s))' = Stream(Far(s))
        /\ IF state[s] = "AwaitUpdates"
             THEN /\ doc' = [doc EXCEPT ![s] = Imported(s, U)]
                  /\ state' = [state EXCEPT ![s] = IF s = "host" THEN "Done" ELSE "Draining"]
             ELSE state' = [state EXCEPT ![s] = "OutOfOrder"]
  BY UpdatesDoes
<1>2. Is(Stream(s)[1], "Updates") /\ Stream(s)[1].msg.ops = U
  BY <1>1, MsgFacts DEF Is
<1>3. state[s] = "AwaitUpdates"
  BY <1>1, <1>2, FirstUnit DEF Is
<1>4. /\ state'[s] = (IF s = "host" THEN "Done" ELSE "Draining") /\ state'[Far(s)] = state[Far(s)]
      /\ doc'[s] = Imported(s, U) /\ doc'[Far(s)] = doc[Far(s)]
  BY <1>1, <1>3, SidesFacts DEF TypeOK
<1>5. CASE s = "host"
  <2>1. doc["host"] \subseteq doc'["host"] /\ ("push" \notin start.perms => doc'["host"] = doc["host"])
    BY <1>4, <1>5 DEF Imported, GrantsTo
  <2>2. Roles' /\ Holds'
    BY <1>1, <1>4, <1>5, <2>1, Ends DEF Base, Roles, Holds
  <2> QED BY <1>1, <1>4, <1>5, <2>1, <2>2, BaseTaken DEF Begin, Reading
<1>6. CASE s = "puller"
  <2>1. "pull" \notin start.perms => U = {}
    BY <1>1, <1>2, <1>6, FirstUnit DEF HostUnits, HostSays
  <2>2. doc'["puller"] = doc["puller"] \cup U
    BY <1>4, <1>6 DEF Imported, GrantsTo, Perms
  <2>3. Roles' /\ Holds'
    BY <1>1, <1>4, <1>6, <2>1, <2>2, Ends DEF Base, Roles, Holds
  <2>4. doc["host"] \subseteq doc'["host"]
    BY <1>4, <1>6, Ends
  <2> QED BY <1>1, <1>4, <1>6, <2>3, <2>4, BaseTaken DEF Begin, Reading
<1> QED BY <1>5, <1>6 DEF Sides

LEMMA BaseCaught ==
  ASSUME TypeOK, Base, NEW mark, Caught(mark), state["host"] = "Live", UNCHANGED <<start, doc, state>>
  PROVE  InOrder("puller")' /\ Stream("puller")' \in Seq(HostUnits')
<1> DEFINE W == doc["host"] \ mark
<1>1. Stream("puller") \in Seq(HostUnits')
  BY ContentsGrow DEF Base
<1>2. InOrder("puller")
  BY Ends DEF Base, Ordered
<1>3. CASE Stream("puller")' = Stream("puller")
  <2>1. InOrder("puller")'
    BY <1>2, <1>3, Ends, OrderSame
  <2> QED BY <1>1, <1>3, <2>1
<1>4. CASE "pull" \in start.perms /\ Stream("puller")' = Stream("puller") \o Frame(Updates(W))
  <2>1. W \in SUBSET Ops /\ W \subseteq doc["host"]
    BY Ends DEF TypeOK
  <2> HIDE DEF W
  <2> DEFINE f == Frame(Updates(W))
  <2>2. f \in Seq(Units) /\ NoHave(f) /\ Updates(W) \in Msg /\ Updates(W).type = "Updates" /\ Updates(W).ops = W
    BY <2>1, UpdatesFrame, MsgFacts
  <2>3. f \in Seq(HostUnits')
    <3>1. ASSUME NEW u \in Units, u.msg = Updates(W) PROVE u \in HostUnits'
      BY <1>4, <2>1, <2>2, <3>1 DEF HostUnits, HostSays, Is, Units, Msg
    <3> QED BY <2>2, <3>1, FrameIn
  <2> HIDE DEF f
  <2>4. state[Far("puller")] \in Reading /\ state'[Far("puller")] \in Reading /\ state'["puller"] = state["puller"]
    BY Ends DEF Reading
  <2>5. Stream("puller")' = Stream("puller") \o f
    BY <1>4 DEF f
  <2>6. InOrder("puller")'
    BY <1>2, <2>2, <2>4, <2>5, Ends, OrderSaid
  <2> QED BY <1>1, <2>3, <2>5, <2>6, ConcatProperties
<1> QED BY <1>3, <1>4 DEF Caught

LEMMA BaseLiveHave ==
  ASSUME TypeOK, Base, LiveOnHave
  PROVE  Base'
<1>1. PICK v \in SUBSET Ops :
        /\ Taken("host") /\ Stream("host")[1].msg = Have(v) /\ state["host"] = "Live" /\ Caught(v)
        /\ UNCHANGED <<start, doc, state>>
  BY LiveHaveDoes
<1>2. InOrder("puller")' /\ Stream("puller")' \in Seq(HostUnits')
  BY <1>1, BaseCaught
<1>3. InOrder("host")'
  BY <1>1, Ends, OrderTaken DEF Base, Ordered, Begin
<1>4. Stream("host")' \in Seq(PullerUnits')
  BY <1>1, Ends, ContentsTaken
<1> QED BY <1>1, <1>2, <1>3, <1>4, BothSides DEF Base, Contents, Roles, Holds

LEMMA BaseNudge ==
  ASSUME TypeOK, Base, LiveOnNudge
  PROVE  Base'
<1>1. /\ state["host"] = "Live" /\ Caught(acked) /\ Stream("host")' = Stream("host")
      /\ UNCHANGED <<start, doc, state>>
  BY NudgeDoes
<1>2. InOrder("puller")' /\ Stream("puller")' \in Seq(HostUnits')
  BY <1>1, BaseCaught
<1>3. InOrder("host")'
  BY <1>1, Ends, OrderSame DEF Base, Ordered
<1>4. Stream("host")' \in Seq(PullerUnits')
  BY <1>1, ContentsGrow DEF Base
<1> QED BY <1>1, <1>2, <1>3, <1>4, BothSides DEF Base, Contents, Roles, Holds

LEMMA BasePresence ==
  ASSUME TypeOK, Base, LivePresence
  PROVE  Base'
<1>1. /\ state["host"] = "Live" /\ Stream("puller")' = Stream("puller") \o Frame(Ephemeral)
      /\ Stream("host")' = Stream("host") /\ UNCHANGED <<start, doc, state>>
  BY PresenceDoes
<1>2. state[Far("puller")] \in Reading /\ state'[Far("puller")] \in Reading /\ state'["puller"] = state["puller"]
  BY <1>1, Ends DEF Reading
<1>3. InOrder("puller")'
  BY <1>1, <1>2, Ends, PresenceFrame, OrderSaid DEF Base, Ordered
<1>4. InOrder("host")'
  BY <1>1, Ends, OrderSame DEF Base, Ordered
<1>5. Stream("puller") \in Seq(HostUnits') /\ Stream("host") \in Seq(PullerUnits')
  BY <1>1, ContentsGrow DEF Base
<1>6. Frame(Ephemeral) \in Seq(HostUnits')
  <2>1. ASSUME NEW u \in Units, u.msg = Ephemeral, u.left = 0 PROVE u \in HostUnits'
    BY <1>1, <2>1, MsgFacts DEF HostUnits, HostSays, Is, Units, Msg
  <2> QED BY <2>1, MsgFacts, FrameIn
<1>7. Contents'
  BY <1>1, <1>5, <1>6, ConcatProperties DEF Contents
<1> QED BY <1>1, <1>3, <1>4, <1>7, BothSides DEF Base, Roles, Holds

LEMMA BaseLiveUpdates ==
  ASSUME TypeOK, Base, LiveOnUpdates
  PROVE  Base'
<1>1. PICK U \in SUBSET Ops :
        /\ Taken("host") /\ state["host"] = "Live" /\ doc' = [doc EXCEPT !["host"] = Imported("host", U)]
        /\ Stream("puller")' = Stream("puller") /\ UNCHANGED <<start, state>>
  BY LiveUpdatesDoes
<1>2. doc'["host"] = Imported("host", U) /\ doc'["puller"] = doc["puller"]
  BY <1>1, Ends DEF TypeOK
<1>3. doc["host"] \subseteq doc'["host"] /\ ("push" \notin start.perms => doc'["host"] = doc["host"])
  BY <1>2 DEF Imported, GrantsTo
<1>4. Roles' /\ Holds'
  BY <1>1, <1>2, <1>3 DEF Base, Roles, Holds
<1>5. state'["host"] \notin Begin \cup {"AwaitHave"}
  BY <1>1 DEF Begin
<1> QED BY <1>1, <1>3, <1>4, <1>5, Ends, BaseTaken

LEMMA BaseNext == TypeOK /\ Base /\ [Next]_vars => Base'
<1> SUFFICES ASSUME TypeOK, Base, [Next]_vars PROVE Base'
  OBVIOUS
<1>1. ASSUME UNCHANGED <<chan, writing, start, doc>>,
             \A q \in Sides : state'[q] = state[q] \/ state'[q] \notin Begin \cup Reading, Roles', Holds'
      PROVE  Base'
  BY <1>1, StillDoes, BaseStill
<1>2. ASSUME Unreachable PROVE Base'
  <2>1. /\ state["puller"] = "Dialing" /\ state'["puller"] = "Failed" /\ state'["host"] = state["host"]
        /\ UNCHANGED <<chan, writing, start, doc>>
    BY <1>2, Ends DEF Unreachable, TypeOK
  <2> QED BY <1>1, <2>1 DEF Base, Roles, Holds, Begin, Reading, Sides
<1>3. ASSUME Exit PROVE Base'
  <2>1. /\ state["puller"] = "Draining" /\ state'["puller"] = "Exited" /\ state'["host"] = state["host"]
        /\ UNCHANGED <<chan, writing, start, doc>>
    BY <1>3, Ends DEF Exit, LinkClosed, TypeOK
  <2> QED BY <1>1, <2>1 DEF Base, Roles, Holds, Begin, Reading, Sides
<1>4. ASSUME NEW s \in Sides, Eof(s) PROVE Base'
  <2>1. /\ state[s] \in Reading /\ state'[s] = Broken(s) /\ state'[Far(s)] = state[Far(s)]
        /\ UNCHANGED <<chan, writing, start, doc>>
    BY <1>4, SidesFacts DEF Eof, TypeOK
  <2>2. \A q \in Sides : state'[q] = state[q] \/ state'[q] \notin Begin \cup Reading
    BY <2>1, SidesFacts DEF Broken, Begin, Reading
  <2>3. Roles' /\ Holds'
    <3>1. CASE s = "host"
      BY <2>1, <3>1, Ends DEF Base, Roles, Holds, Broken
    <3>2. CASE s = "puller"
      BY <2>1, <3>2, Ends DEF Base, Roles, Holds, Broken, Reading
    <3> QED BY <3>1, <3>2 DEF Sides
  <2> QED BY <1>1, <2>1, <2>2, <2>3
<1>5. ASSUME NEW o \in Late, HostCommit(o) PROVE Base'
  <2>1. /\ doc'["host"] = doc["host"] \cup {o} /\ doc'["puller"] = doc["puller"]
        /\ UNCHANGED <<start, state, chan, writing>>
    BY <1>5, Ends DEF HostCommit, TypeOK
  <2>2. Roles' /\ Holds'
    BY <2>1 DEF Base, Roles, Holds
  <2> QED BY <2>1, <2>2, StillDoes, BaseStill
<1>6. ASSUME NEW s \in Sides, Write(s) PROVE Base'
  <2>1. (\A r \in Sides : Stream(r)' = Stream(r)) /\ UNCHANGED <<start, doc, state>>
    BY <1>6, WriteDoes
  <2> QED BY <2>1, BaseStill DEF Base, Roles, Holds
<1>7. ASSUME UNCHANGED vars PROVE Base'
  <2>1. UNCHANGED <<chan, writing, start, doc, state>>
    BY <1>7 DEF vars
  <2> QED BY <1>1, <2>1 DEF Base, Roles, Holds
<1> QED BY <1>2, <1>3, <1>4, <1>5, <1>6, <1>7, BaseDial, BaseAccept, BaseRefuse, BaseBreak, BaseFails,
           BaseSkip, BaseRefused, BaseHave, BaseUpdates, BaseLiveHave, BaseLiveUpdates, BaseNudge,
           BasePresence DEF Next

\* Neither driver ever meets a message it does not expect: a side's version is
\* the first thing on its stream and nothing else is one, so that what a live
\* host streams beside the exchange never comes where Sync::on would refuse it.
THEOREM InOrderAlways == Spec => []NeverOutOfOrder
<1>1. TypeOK /\ Base => NeverOutOfOrder
  BY DEF Base, Roles, NeverOutOfOrder, Sides
<1> QED BY <1>1, BaseInit, TypesNext, BaseNext, PTL DEF Spec

\* The host's grant decides what crosses in each direction, whichever of the two
\* drivers it runs.
THEOREM GrantsHold == Spec => []OneShotGated
<1>1. Base => OneShotGated
  BY DEF Base, Holds, OneShotGated
<1> QED BY <1>1, BaseInit, TypesNext, BaseNext, PTL DEF Spec
-----------------------------------------------------------------------------
(* The first updates on their way to the puller are all it needs. *)

LEMMA FramedTail ==
  ASSUME NEW S \in Seq(Units), S # <<>>, Framed(S)
  PROVE  /\ Framed(Tail(S))
         /\ S[1].left > 0 => Tail(S) # <<>> /\ Tail(S)[1].msg = S[1].msg
<1> DEFINE T == Tail(S)
<1>1. /\ T \in Seq(Units) /\ 1 \in DOMAIN S
      /\ \A i \in DOMAIN T : i \in Nat /\ i + 1 \in DOMAIN S /\ i + 1 # 1 /\ T[i] = S[i + 1]
      /\ \A i \in DOMAIN S : i # 1 => i - 1 \in DOMAIN T /\ T[i - 1] = S[i]
  BY TailFacts
<1> HIDE DEF T
<1>2. ASSUME NEW i \in DOMAIN T, T[i].left > 0 PROVE i + 1 \in DOMAIN T /\ T[i + 1].msg = T[i].msg
  <2>1. i \in Nat /\ i + 1 \in DOMAIN S /\ S[i + 1].left > 0 /\ T[i] = S[i + 1]
    BY <1>1, <1>2
  <2>2. (i + 1) + 1 \in DOMAIN S /\ S[(i + 1) + 1].msg = S[i + 1].msg
    BY <2>1 DEF Framed
  <2>3. (i + 1) + 1 # 1 /\ ((i + 1) + 1) - 1 = i + 1
    BY <2>1
  <2> QED BY <1>1, <2>1, <2>2, <2>3
<1>3. ASSUME S[1].left > 0 PROVE T # <<>> /\ T[1].msg = S[1].msg
  <2>1. 1 + 1 \in DOMAIN S /\ S[1 + 1].msg = S[1].msg
    BY <1>1, <1>3 DEF Framed
  <2>2. (1 + 1) - 1 \in DOMAIN T /\ T[(1 + 1) - 1] = S[1 + 1] /\ (1 + 1) - 1 = 1
    BY <1>1, <2>1
  <2>3. 1 \in DOMAIN T /\ T[1].msg = S[1].msg
    BY <2>1, <2>2
  <2> QED BY <1>1, <2>3, NotEmpty
<1> QED BY <1>2, <1>3 DEF T, Framed

LEMMA FramedConcat ==
  ASSUME NEW S \in Seq(Units), Framed(S), NEW f \in Seq(Units), Framed(f)
  PROVE  Framed(S \o f)
<1> DEFINE T == S \o f
<1>1. /\ T \in Seq(Units)
      /\ \A i \in DOMAIN S : i \in DOMAIN T /\ T[i] = S[i]
      /\ \A i \in DOMAIN f : Len(S) + i \in DOMAIN T /\ T[Len(S) + i] = f[i]
      /\ \A i \in DOMAIN T :
           \/ i \in DOMAIN S /\ T[i] = S[i]
           \/ i > Len(S) /\ i - Len(S) \in DOMAIN f /\ T[i] = f[i - Len(S)]
  BY ConcatFacts
<1> HIDE DEF T
<1>0. Len(S) \in Nat
  OBVIOUS
<1>2. ASSUME NEW i \in DOMAIN T, T[i].left > 0 PROVE i + 1 \in DOMAIN T /\ T[i + 1].msg = T[i].msg
  <2>1. CASE i \in DOMAIN S /\ T[i] = S[i]
    <3>1. i + 1 \in DOMAIN S /\ S[i + 1].msg = S[i].msg
      BY <1>2, <2>1 DEF Framed
    <3> QED BY <1>1, <2>1, <3>1
  <2>2. CASE i > Len(S) /\ i - Len(S) \in DOMAIN f /\ T[i] = f[i - Len(S)]
    <3> DEFINE k == i - Len(S)
    <3>1. k + 1 \in DOMAIN f /\ f[k + 1].msg = f[k].msg
      BY <1>2, <2>2 DEF Framed
    <3>2. i \in Nat
      BY <1>1
    <3>3. Len(S) + (k + 1) = i + 1
      BY <1>0, <3>2
    <3>4. Len(S) + (k + 1) \in DOMAIN T /\ T[Len(S) + (k + 1)] = f[k + 1]
      BY <1>1, <3>1
    <3> QED BY <2>2, <3>1, <3>3, <3>4
  <2> QED BY <1>1, <2>1, <2>2
<1> QED BY <1>2 DEF T, Framed

LEMMA FrameFramed ==
  ASSUME NEW m \in Msg PROVE Framed(Frame(m))
<1> DEFINE f == Frame(m)
<1>1. f \in Seq(Units) /\ Len(f) \in Nat /\ \A i \in 1 .. Len(f) : f[i].msg = m /\ f[i].left = Len(f) - i
  BY FrameFacts
<1> HIDE DEF f
<1>2. DOMAIN f = 1 .. Len(f)
  BY <1>1
<1>3. Framed(f)
  BY <1>1, <1>2 DEF Framed
<1> QED BY <1>3 DEF f

LEMMA EnoughTail ==
  ASSUME NEW S \in Seq(Units), S # <<>>, Framed(S), Enough(S), Is(S[1], "Updates") => S[1].left > 0
  PROVE  Enough(Tail(S)) /\ (NoUpdates(Tail(S)) => NoUpdates(S))
<1> DEFINE T == Tail(S)
<1>1. /\ T \in Seq(Units) /\ 1 \in DOMAIN S
      /\ \A i \in DOMAIN T : i \in Nat /\ i + 1 \in DOMAIN S /\ i + 1 # 1 /\ T[i] = S[i + 1]
      /\ \A i \in DOMAIN S : i # 1 => i - 1 \in DOMAIN T /\ T[i - 1] = S[i]
  BY TailFacts
<1>2. Is(S[1], "Updates") => T # <<>> /\ T[1].msg = S[1].msg
  BY FramedTail
<1> HIDE DEF T
<1>3. DOMAIN T = 1 .. Len(T) /\ Len(T) \in Nat /\ (T # <<>> <=> 1 \in DOMAIN T)
      /\ DOMAIN S = 1 .. Len(S) /\ Len(S) \in Nat
  BY <1>1, NotEmpty
<1>4. NoUpdates(T) => NoUpdates(S)
  <2> SUFFICES ASSUME NoUpdates(T), NEW i \in DOMAIN S PROVE ~Is(S[i], "Updates")
    BY DEF NoUpdates
  <2>1. CASE i = 1
    <3>1. 1 \in DOMAIN T => ~Is(T[1], "Updates")
      BY DEF NoUpdates
    <3> QED BY <1>2, <1>3, <2>1, <3>1 DEF Is
  <2>2. CASE i # 1
    <3>1. i - 1 \in DOMAIN T /\ T[i - 1] = S[i]
      BY <1>1, <2>2
    <3> QED BY <3>1 DEF NoUpdates
  <2> QED BY <2>1, <2>2
<1>5. ASSUME NEW i \in DOMAIN T, FirstUpdates(T, i) PROVE start.host \subseteq start.puller \cup T[i].msg.ops
  <2>1. CASE Is(S[1], "Updates")
    <3>1. FirstUpdates(S, 1)
      BY <2>1 DEF FirstUpdates
    <3>2. start.host \subseteq start.puller \cup S[1].msg.ops
      BY <1>1, <3>1 DEF Enough
    <3>3. Is(T[1], "Updates") /\ 1 \in DOMAIN T
      BY <1>2, <1>3, <2>1 DEF Is
    <3>4. i = 1
      <4>1. ASSUME i # 1 PROVE FALSE
        <5>1. 1 \in 1 .. (i - 1)
          BY <1>3, <4>1
        <5> QED BY <1>5, <3>3, <5>1 DEF FirstUpdates
      <4> QED BY <4>1
    <3> QED BY <1>2, <2>1, <3>2, <3>4
  <2>2. CASE ~Is(S[1], "Updates")
    <3>1. i \in Nat /\ i + 1 \in DOMAIN S /\ T[i] = S[i + 1]
      BY <1>1
    <3>2. ASSUME NEW j \in 1 .. ((i + 1) - 1) PROVE ~Is(S[j], "Updates")
      <4>1. CASE j = 1
        BY <2>2, <4>1
      <4>2. CASE j # 1
        <5>1. j - 1 \in 1 .. (i - 1) /\ j \in DOMAIN S
          BY <1>3, <3>1, <4>2
        <5>2. T[j - 1] = S[j]
          BY <1>1, <4>2, <5>1
        <5> QED BY <1>5, <5>1, <5>2 DEF FirstUpdates
      <4> QED BY <4>1, <4>2
    <3>3. FirstUpdates(S, i + 1)
      BY <1>5, <3>1, <3>2 DEF FirstUpdates
    <3> QED BY <3>1, <3>3 DEF Enough
  <2> QED BY <2>1, <2>2
<1> QED BY <1>4, <1>5 DEF T, Enough

LEMMA EnoughConcat ==
  ASSUME NEW S \in Seq(Units), Enough(S), NEW W \in SUBSET Ops,
         NoUpdates(S) => start.host \subseteq start.puller \cup W
  PROVE  Enough(S \o Frame(Updates(W))) /\ ~NoUpdates(S \o Frame(Updates(W)))
<1> DEFINE f == Frame(Updates(W))
           T == S \o f
<1>1. Updates(W) \in Msg /\ Updates(W).type = "Updates" /\ Updates(W).ops = W
  BY MsgFacts
<1>2. f \in Seq(Units) /\ Len(f) \in Nat \ {0} /\ \A i \in 1 .. Len(f) : f[i].msg = Updates(W)
  BY <1>1, FrameFacts
<1> HIDE DEF f
<1>3. /\ T \in Seq(Units)
      /\ \A i \in DOMAIN S : i \in DOMAIN T /\ T[i] = S[i]
      /\ \A i \in DOMAIN f : Len(S) + i \in DOMAIN T /\ T[Len(S) + i] = f[i]
      /\ \A i \in DOMAIN T :
           \/ i \in DOMAIN S /\ T[i] = S[i]
           \/ i > Len(S) /\ i - Len(S) \in DOMAIN f /\ T[i] = f[i - Len(S)]
  BY <1>2, ConcatFacts
<1> HIDE DEF T
<1>4. DOMAIN f = 1 .. Len(f) /\ DOMAIN S = 1 .. Len(S) /\ Len(S) \in Nat /\ DOMAIN T = 1 .. Len(T)
  BY <1>2, <1>3, NotEmpty
<1>5. ~NoUpdates(T)
  <2>1. 1 \in DOMAIN f /\ f[1].msg = Updates(W)
    BY <1>2, <1>4
  <2>2. Len(S) + 1 \in DOMAIN T /\ T[Len(S) + 1] = f[1]
    BY <1>3, <2>1
  <2> QED BY <1>1, <2>1, <2>2 DEF NoUpdates, Is
<1>6. ASSUME NEW i \in DOMAIN T, FirstUpdates(T, i) PROVE start.host \subseteq start.puller \cup T[i].msg.ops
  <2>1. CASE i \in DOMAIN S /\ T[i] = S[i]
    <3>1. \A j \in 1 .. (i - 1) : j \in DOMAIN S
      BY <1>4, <2>1
    <3>2. FirstUpdates(S, i)
      BY <1>3, <1>6, <2>1, <3>1 DEF FirstUpdates
    <3> QED BY <2>1, <3>2 DEF Enough
  <2>2. CASE i > Len(S) /\ i - Len(S) \in DOMAIN f /\ T[i] = f[i - Len(S)]
    <3>1. \A j \in DOMAIN S : j \in 1 .. (i - 1)
      BY <1>3, <1>4, <2>2
    <3>2. NoUpdates(S)
      BY <1>3, <1>6, <3>1 DEF NoUpdates, FirstUpdates
    <3>3. T[i].msg.ops = W
      BY <1>1, <1>2, <1>4, <2>2
    <3> QED BY <3>2, <3>3
  <2> QED BY <1>3, <2>1, <2>2
<1> QED BY <1>5, <1>6 DEF T, f, Enough

LEMMA EnoughQuiet ==
  ASSUME NEW S \in Seq(Units), Enough(S), NEW f \in Seq(Units), NoUpdates(f)
  PROVE  Enough(S \o f) /\ (NoUpdates(S \o f) => NoUpdates(S))
<1> DEFINE T == S \o f
<1>1. /\ T \in Seq(Units)
      /\ \A i \in DOMAIN S : i \in DOMAIN T /\ T[i] = S[i]
      /\ \A i \in DOMAIN T :
           \/ i \in DOMAIN S /\ T[i] = S[i]
           \/ i > Len(S) /\ i - Len(S) \in DOMAIN f /\ T[i] = f[i - Len(S)]
  BY ConcatFacts
<1> HIDE DEF T
<1>2. DOMAIN S = 1 .. Len(S) /\ Len(S) \in Nat
  BY NotEmpty
<1>3. ASSUME NEW i \in DOMAIN T, FirstUpdates(T, i) PROVE start.host \subseteq start.puller \cup T[i].msg.ops
  <2>1. i \in DOMAIN S /\ T[i] = S[i]
    BY <1>1, <1>3 DEF FirstUpdates, NoUpdates
  <2>2. \A j \in 1 .. (i - 1) : j \in DOMAIN S
    BY <1>2, <2>1
  <2>3. FirstUpdates(S, i)
    BY <1>1, <1>3, <2>1, <2>2 DEF FirstUpdates
  <2> QED BY <2>1, <2>3 DEF Enough
<1>4. NoUpdates(T) => NoUpdates(S)
  BY <1>1 DEF NoUpdates
<1> QED BY <1>3, <1>4 DEF T, Enough

\* What Complete needs of a step that leaves the stream to the puller alone.
LEMMA CompleteStill ==
  ASSUME Complete, start' = start, acked' = acked, Stream("puller")' = Stream("puller"),
         ~Gone("puller")' => ~Gone("puller"),
         state'["host"] \in {"Live", "Accepting"} => state'["host"] = state["host"]
  PROVE  Complete'
  BY DEF Complete, Enough

LEMMA CompleteOver ==
  ASSUME Gone("puller")', state'["host"] = "Accepting" => acked' = {}
  PROVE  Complete'
  BY DEF Complete

LEMMA CompleteCaught ==
  ASSUME TypeOK, Base, Complete, NEW mark, Caught(mark), state["host"] = "Live", UNCHANGED <<start, doc, state>>,
         "pull" \in start.perms /\ NoUpdates(Stream("puller")) /\ ~Gone("puller") => mark \subseteq start.puller
  PROVE  Complete'
<1> DEFINE S == Stream("puller")
           W == doc["host"] \ mark
<1>0. S \in Seq(Units) /\ state'["host"] = "Live"
  BY Ends, StreamFacts
<1> SUFFICES ASSUME ~Gone("puller")
             PROVE  /\ Framed(Stream("puller")') /\ ("pull" \in start.perms => Enough(Stream("puller")'))
                    /\ "pull" \in start.perms /\ NoUpdates(Stream("puller")') => acked' \subseteq start.puller
  BY <1>0 DEF Complete, Gone, Enough
<1>1. Framed(S) /\ ("pull" \in start.perms => Enough(S))
  BY DEF Complete
<1>2. CASE "pull" \in start.perms /\ doc["host"] # mark
  <2>1. Stream("puller")' = S \o Frame(Updates(W))
    BY <1>2 DEF Caught
  <2>2. W \in SUBSET Ops /\ (NoUpdates(S) => start.host \subseteq start.puller \cup W)
    BY <1>2, Ends DEF TypeOK, Base, Holds
  <2> HIDE DEF S, W
  <2>3. Enough(S \o Frame(Updates(W))) /\ ~NoUpdates(S \o Frame(Updates(W)))
    BY <1>0, <1>1, <1>2, <2>2, EnoughConcat
  <2>4. Frame(Updates(W)) \in Seq(Units) /\ Framed(Frame(Updates(W)))
    BY <2>2, MsgFacts, UpdatesFrame, FrameFramed
  <2>5. Framed(S \o Frame(Updates(W)))
    BY <1>0, <1>1, <2>4, FramedConcat
  <2> QED BY <2>1, <2>3, <2>5
<1>3. CASE ~("pull" \in start.perms /\ doc["host"] # mark)
  BY <1>1, <1>3 DEF Caught
<1> QED BY <1>2, <1>3

\* The puller takes a unit that does not end its exchange.
LEMMA CompleteTaken ==
  ASSUME TypeOK, Complete, Taken("puller"), start' = start, acked' = acked, state'["host"] = state["host"],
         Is(Stream("puller")[1], "Updates") => Stream("puller")[1].left > 0
  PROVE  Complete'
<1> DEFINE S == Stream("puller")
<1>1. S \in Seq(Units) /\ S # <<>> /\ Stream("puller")' = Tail(S) /\ ~Gone("puller")
  BY Ends, StreamFacts DEF Taken, Reading, Gone
<1>2. /\ Framed(S) /\ ("pull" \in start.perms => Enough(S))
      /\ "pull" \in start.perms /\ state["host"] = "Live" /\ NoUpdates(S) => acked \subseteq start.puller
  BY <1>1 DEF Complete
<1> HIDE DEF S
<1>3. Framed(Tail(S))
  BY <1>1, <1>2, FramedTail
<1>4. "pull" \in start.perms => Enough(Tail(S)) /\ (NoUpdates(Tail(S)) => NoUpdates(S))
  BY <1>1, <1>2, EnoughTail DEF S
<1> QED BY <1>1, <1>2, <1>3, <1>4 DEF Complete, Enough

LEMMA CompleteAccept ==
  ASSUME TypeOK, Base, Complete, Accept
  PROVE  Complete'
<1>1. /\ state["host"] = "Accepting" /\ state' = [state EXCEPT !["host"] = IF start.live THEN "Live" ELSE "AwaitHave"]
      /\ Stream("puller")' = Opening /\ UNCHANGED <<start, acked>>
  BY AcceptDoes DEF Base
<1>2. state'["host"] # "Accepting" /\ acked' = {}
  BY <1>1, Ends DEF Complete, TypeOK
<1>3. doc["host"] \in SUBSET Ops
  BY Ends DEF TypeOK
<1>4. \A i \in DOMAIN Opening : Opening[i].left = 0 /\ Opening[i].msg.type # "Updates"
  BY <1>3, OpeningFacts, MsgFacts
<1>5. Framed(Opening) /\ Enough(Opening)
  BY <1>4 DEF Framed, Enough, FirstUpdates, Is
<1> QED BY <1>1, <1>2, <1>5 DEF Complete, Enough

LEMMA CompleteRefuse ==
  ASSUME TypeOK, Base, Complete, Refuse
  PROVE  Complete'
<1>1. /\ start.perms = {} /\ state' = [state EXCEPT !["host"] = "Closed"]
      /\ Stream("puller")' = Frame(Refused) /\ UNCHANGED <<start, acked>>
  BY RefuseDoes DEF Base
<1>2. Framed(Frame(Refused)) /\ state'["host"] = "Closed"
  BY <1>1, Ends, MsgFacts, FrameFramed DEF TypeOK
<1> QED BY <1>1, <1>2 DEF Complete

LEMMA CompleteHave ==
  ASSUME TypeOK, Base, Complete, NEW s \in Sides, OnHave(s)
  PROVE  Complete'
<1>1. PICK v \in SUBSET Ops :
        /\ Taken(s) /\ Stream(s)[1].msg = Have(v) /\ state[s] # "Live" /\ UNCHANGED <<start, doc, acked>>
        /\ IF state[s] = "AwaitHave"
             THEN /\ state' = [state EXCEPT ![s] = "AwaitUpdates"]
                  /\ Stream(Far(s))' = Stream(Far(s)) \o Frame(Reply(s, v))
             ELSE state' = [state EXCEPT ![s] = "OutOfOrder"]
  BY HaveDoes
<1>2. Is(Stream(s)[1], "Have") /\ Stream(s)[1].msg.ops = v
  BY <1>1, MsgFacts DEF Is
<1>3. state[s] = "AwaitHave"
  BY <1>1, <1>2, FirstUnit
<1>4. /\ state'[s] = "AwaitUpdates" /\ state'[Far(s)] = state[Far(s)]
      /\ Stream(Far(s))' = Stream(Far(s)) \o Frame(Reply(s, v))
  BY <1>1, <1>3, SidesFacts DEF TypeOK
<1>5. CASE s = "puller"
  BY <1>1, <1>2, <1>4, <1>5, Ends, CompleteTaken DEF Is
<1>6. CASE s = "host"
  <2> DEFINE S == Stream("puller")
             W == IF "pull" \in start.perms THEN doc["host"] \ v ELSE {}
  <2>1. W \in SUBSET Ops /\ Reply(s, v) = Updates(W)
    BY <1>6, Ends DEF Reply, GrantsTo, TypeOK
  <2>2. v = start.puller
    BY <1>1, <1>2, <1>6, FirstUnit DEF PullerUnits, PullerSays
  <2>3. "pull" \in start.perms => start.host \subseteq start.puller \cup W
    BY <2>2 DEF Base, Holds
  <2>4. /\ S \in Seq(Units) /\ Stream("puller")' = S \o Frame(Updates(W))
        /\ state'["host"] = "AwaitUpdates" /\ state'["puller"] = state["puller"]
    BY <1>4, <1>6, <2>1, Ends, StreamFacts
  <2>5. ~Gone("puller") => Framed(S) /\ ("pull" \in start.perms => Enough(S))
    BY DEF Complete
  <2> HIDE DEF S, W
  <2>6. Frame(Updates(W)) \in Seq(Units) /\ Framed(Frame(Updates(W)))
    BY <2>1, MsgFacts, UpdatesFrame, FrameFramed
  <2>7. ~Gone("puller") => Framed(S \o Frame(Updates(W)))
    BY <2>4, <2>5, <2>6, FramedConcat
  <2>8. ~Gone("puller") /\ "pull" \in start.perms => Enough(S \o Frame(Updates(W)))
    BY <2>1, <2>3, <2>4, <2>5, EnoughConcat
  <2> QED BY <1>1, <2>4, <2>7, <2>8 DEF Complete, Enough, Gone
<1> QED BY <1>5, <1>6 DEF Sides

LEMMA CompleteNext == TypeOK /\ Base /\ Complete /\ [Next]_vars => Complete'
<1> SUFFICES ASSUME TypeOK, Base, Complete, [Next]_vars PROVE Complete'
  OBVIOUS
<1>1. ASSUME Dial PROVE Complete'
  <2>1. /\ state["puller"] = "Dialing" /\ state'["host"] = state["host"]
        /\ Stream("puller")' = Stream("puller") /\ UNCHANGED <<start, acked>>
    BY <1>1, Ends, DialDoes DEF Base, TypeOK
  <2> QED BY <2>1, CompleteStill DEF Gone
<1>2. ASSUME Unreachable \/ Exit PROVE Complete'
  <2>1. state'["puller"] \in {"Failed", "Exited"} /\ state'["host"] = state["host"] /\ acked' = acked
    BY <1>2, Ends DEF Unreachable, Exit, TypeOK
  <2> QED BY <2>1, CompleteOver DEF Gone, Complete
<1>3. ASSUME Break PROVE Complete'
  <2>1. Gone("puller")' /\ state'["host"] = "Closed"
    BY <1>3, BreakDoes DEF Gone
  <2> QED BY <2>1, CompleteOver
<1>4. ASSUME LiveOnHave PROVE Complete'
  <2>1. PICK v \in SUBSET Ops :
          /\ Taken("host") /\ Stream("host")[1].msg = Have(v) /\ state["host"] = "Live" /\ Caught(v)
          /\ UNCHANGED <<start, doc, state>>
    BY <1>4, LiveHaveDoes
  <2>2. Is(Stream("host")[1], "Have") /\ Stream("host")[1].msg.ops = v
    BY <2>1, MsgFacts DEF Is
  <2>3. v = start.puller
    BY <2>1, <2>2, Ends, FirstUnit DEF PullerUnits, PullerSays
  <2> QED BY <2>1, <2>3, CompleteCaught
<1>5. ASSUME LiveOnUpdates PROVE Complete'
  <2>1. Stream("puller")' = Stream("puller") /\ UNCHANGED <<start, state, acked>>
    BY <1>5, LiveUpdatesDoes
  <2> QED BY <2>1, CompleteStill DEF Gone
<1>6. ASSUME LiveOnNudge PROVE Complete'
  <2>1. state["host"] = "Live" /\ Caught(acked) /\ UNCHANGED <<start, doc, state>>
    BY <1>6, NudgeDoes
  <2>2. "pull" \in start.perms /\ NoUpdates(Stream("puller")) /\ ~Gone("puller") => acked \subseteq start.puller
    BY <2>1 DEF Complete
  <2> QED BY <2>1, <2>2, CompleteCaught
<1>15. ASSUME LivePresence PROVE Complete'
  <2> DEFINE S == Stream("puller")
             f == Frame(Ephemeral)
  <2>1. Stream("puller")' = S \o f /\ state["host"] = "Live" /\ UNCHANGED <<start, state, acked>>
    BY <1>15, PresenceDoes
  <2>2. S \in Seq(Units) /\ f \in Seq(Units) /\ NoUpdates(f) /\ Framed(f)
    BY Ends, StreamFacts, PresenceFrame
  <2>3. ~Gone("puller") =>
          /\ Framed(S) /\ ("pull" \in start.perms => Enough(S))
          /\ "pull" \in start.perms /\ NoUpdates(S) => acked \subseteq start.puller
    BY <2>1 DEF Complete
  <2> HIDE DEF S, f
  <2>4. ~Gone("puller") => Framed(S \o f)
    BY <2>2, <2>3, FramedConcat
  <2>5. ~Gone("puller") /\ "pull" \in start.perms => Enough(S \o f) /\ (NoUpdates(S \o f) => NoUpdates(S))
    BY <2>2, <2>3, EnoughQuiet
  <2> SUFFICES ASSUME ~Gone("puller")
               PROVE  /\ Framed(Stream("puller")') /\ ("pull" \in start.perms => Enough(Stream("puller")'))
                      /\ "pull" \in start.perms /\ NoUpdates(Stream("puller")') => acked \subseteq start.puller
    BY <2>1 DEF Complete, Gone, Enough
  <2> QED BY <2>1, <2>3, <2>4, <2>5
<1>7. ASSUME NEW o \in Late, HostCommit(o) PROVE Complete'
  <2>1. Stream("puller")' = Stream("puller") /\ UNCHANGED <<start, state, acked>>
    BY <1>7, Ends, StillDoes DEF HostCommit
  <2> QED BY <2>1, CompleteStill DEF Gone
<1>8. ASSUME NEW s \in Sides, Write(s) PROVE Complete'
  <2>1. Stream("puller")' = Stream("puller") /\ UNCHANGED <<start, state, acked>>
    BY <1>8, Ends, WriteDoes
  <2> QED BY <2>1, CompleteStill DEF Gone
<1>9. ASSUME NEW s \in Sides, WriteFails(s) PROVE Complete'
  <2>1. /\ Gone(Far(s)) /\ ~Gone(s) /\ state'[s] = Cut(s) /\ state'[Far(s)] = state[Far(s)] /\ acked' = acked
    <3>1. Far(s) \in Sides /\ Far(s) # s
      BY SidesFacts
    <3>2. state \in [Sides -> State]
      BY DEF TypeOK
    <3> QED BY <1>9, <3>1, <3>2, FailsDoes
  <2>2. Gone("puller")' /\ (state'["host"] = "Accepting" => acked' = {})
    <3>1. CASE s = "host"
      BY <2>1, <3>1, Ends DEF Gone, Cut
    <3>2. CASE s = "puller"
      BY <2>1, <3>2, Ends DEF Gone, Cut, Complete
    <3> QED BY <3>1, <3>2 DEF Sides
  <2> QED BY <2>2, CompleteOver
<1>10. ASSUME NEW s \in Sides, Eof(s) PROVE Complete'
  <2>1. /\ state[s] \in Reading /\ state'[s] = Broken(s) /\ state'[Far(s)] = state[Far(s)]
        /\ Stream("puller")' = Stream("puller") /\ UNCHANGED <<start, acked>>
    BY <1>10, Ends, StillDoes, SidesFacts DEF Eof, TypeOK
  <2>2. CASE s = "host"
    BY <2>1, <2>2, Ends, CompleteStill DEF Gone, Broken
  <2>3. CASE s = "puller"
    BY <2>1, <2>3, Ends, CompleteOver DEF Gone, Broken, Complete
  <2> QED BY <2>2, <2>3 DEF Sides
<1>11. ASSUME NEW s \in Sides, ReadPart(s) \/ OnEphemeral(s) PROVE Complete'
  <2>1. /\ Taken(s) /\ Stream(Far(s))' = Stream(Far(s))
        /\ Stream(s)[1].left > 0 \/ Is(Stream(s)[1], "Ephemeral")
        /\ UNCHANGED <<start, state, acked>>
    BY <1>11, SkipDoes
  <2>2. CASE s = "host"
    BY <2>1, <2>2, Ends, CompleteStill DEF Gone
  <2>3. CASE s = "puller"
    BY <2>1, <2>3, CompleteTaken DEF Is
  <2> QED BY <2>2, <2>3 DEF Sides
<1>12. ASSUME NEW s \in Sides, OnRefused(s) PROVE Complete'
  <2>1. /\ Taken(s) /\ Is(Stream(s)[1], "Refused") /\ state' = [state EXCEPT ![s] = "Failed"] /\ acked' = acked
    BY <1>12, RefusedDoes
  <2>2. s = "puller"
    BY <2>1, FirstUnit DEF PullerUnits, PullerSays, Is, Sides
  <2>3. state'["puller"] = "Failed" /\ state'["host"] = state["host"]
    BY <2>1, <2>2, Ends DEF TypeOK
  <2> QED BY <2>1, <2>3, CompleteOver DEF Gone, Complete
<1>13. ASSUME NEW s \in Sides, OnUpdates(s) PROVE Complete'
  <2>1. PICK U \in SUBSET Ops :
        /\ Taken(s) /\ Stream(s)[1].msg = Updates(U)
        /\ UNCHANGED <<start, acked>> /\ Stream(Far(s))' = Stream(Far(s))
        /\ IF state[s] = "AwaitUpdates"
             THEN state' = [state EXCEPT ![s] = IF s = "host" THEN "Done" ELSE "Draining"]
             ELSE state' = [state EXCEPT ![s] = "OutOfOrder"]
    BY <1>13, UpdatesDoes
  <2>2. /\ state'[s] \in {"Done", "Draining", "OutOfOrder"} /\ state'[Far(s)] = state[Far(s)]
    BY <2>1, SidesFacts DEF TypeOK
  <2>3. CASE s = "host"
    BY <2>1, <2>2, <2>3, Ends, CompleteStill DEF Gone
  <2>4. CASE s = "puller"
    BY <2>1, <2>2, <2>4, Ends, CompleteOver DEF Gone, Complete
  <2> QED BY <2>3, <2>4 DEF Sides
<1>14. ASSUME UNCHANGED vars PROVE Complete'
  <2>1. Stream("puller")' = Stream("puller") /\ UNCHANGED <<start, state, acked>>
    BY <1>14, Ends, StillDoes DEF vars
  <2> QED BY <2>1, CompleteStill DEF Gone
<1> QED BY <1>1, <1>2, <1>3, <1>4, <1>5, <1>6, <1>7, <1>8, <1>9, <1>10, <1>11, <1>12, <1>13, <1>14, <1>15,
           CompleteAccept, CompleteRefuse, CompleteHave DEF Next

LEMMA CompleteInit == Init => Complete /\ PullComplete
<1> SUFFICES ASSUME Init PROVE Complete /\ PullComplete
  OBVIOUS
<1>1. chan["puller"] = <<>> /\ writing[Far("puller")] = <<>>
  BY Ends DEF Init
<1>2. <<>> \in Seq({}) /\ <<>> \o <<>> = <<>>
  BY ConcatEmptySeq
<1>3. Stream("puller") = <<>>
  BY <1>1, <1>2 DEF Stream
<1>4. Framed(<<>>) /\ Enough(<<>>)
  BY DEF Framed, Enough
<1> QED BY <1>3, <1>4, Ends DEF Init, Complete, PullComplete

\* The steps that do not end the puller's exchange.
LEMMA PullStill ==
  ASSUME PullComplete, start' = start, doc'["puller"] = doc["puller"],
         state'["puller"] \in {"Draining", "Exited"} => state["puller"] \in {"Draining", "Exited"}
  PROVE  PullComplete'
  BY DEF PullComplete

LEMMA PullNext == TypeOK /\ Base /\ Complete /\ PullComplete /\ [Next]_vars => PullComplete'
<1> SUFFICES ASSUME TypeOK, Base, Complete, PullComplete, [Next]_vars PROVE PullComplete'
  OBVIOUS
<1>1. ASSUME Dial \/ Unreachable \/ Accept \/ Refuse PROVE PullComplete'
  <2>1. UNCHANGED <<start, doc>> /\ (state'["puller"] = state["puller"] \/ state'["puller"] \in {"AwaitHave", "Failed"})
    BY <1>1, Ends DEF Dial, Unreachable, Accept, Refuse, TypeOK
  <2> QED BY <2>1, PullStill
<1>2. ASSUME Exit PROVE PullComplete'
  <2>1. UNCHANGED <<start, doc>> /\ state["puller"] = "Draining"
    BY <1>2 DEF Exit, LinkClosed
  <2> QED BY <2>1, PullStill
<1>3. ASSUME Break PROVE PullComplete'
  <2>1. UNCHANGED <<start, doc>>
        /\ state'["puller"] = IF state["puller"] = "Draining" THEN "Exited"
                              ELSE IF Gone("puller") THEN state["puller"] ELSE "Failed"
    BY <1>3, BreakDoes
  <2> QED BY <2>1, PullStill
<1>4. ASSUME LiveOnHave \/ LiveOnUpdates \/ LiveOnNudge \/ LivePresence \/ (\E o \in Late : HostCommit(o)) PROVE PullComplete'
  <2>1. doc'["puller"] = doc["puller"] /\ UNCHANGED <<start, state>>
    BY <1>4, Ends DEF LiveOnHave, LiveOnUpdates, LiveOnNudge, LivePresence, HostCommit, TypeOK
  <2> QED BY <2>1, PullStill
<1>5. ASSUME NEW s \in Sides, Write(s) \/ ReadPart(s) \/ OnEphemeral(s) PROVE PullComplete'
  <2>1. UNCHANGED <<start, doc, state>>
    BY <1>5 DEF Write, ReadPart, OnEphemeral
  <2> QED BY <2>1, PullStill
<1>6. ASSUME NEW s \in Sides, WriteFails(s) \/ Eof(s) \/ OnRefused(s) \/ OnHave(s) PROVE PullComplete'
  <2>1. UNCHANGED <<start, doc>> /\ state'["puller"] \in {state["puller"], "Failed", "AwaitUpdates", "OutOfOrder"}
    BY <1>6, Ends DEF WriteFails, Eof, OnRefused, OnHave, Broken, Cut, TypeOK
  <2> QED BY <2>1, PullStill
<1>7. ASSUME NEW s \in Sides, OnUpdates(s) PROVE PullComplete'
  <2>1. PICK U \in SUBSET Ops :
          /\ Taken(s) /\ Stream(s)[1].msg = Updates(U) /\ state[s] # "Live" /\ start' = start
          /\ IF state[s] = "AwaitUpdates"
               THEN /\ doc' = [doc EXCEPT ![s] = Imported(s, U)]
                    /\ state' = [state EXCEPT ![s] = IF s = "host" THEN "Done" ELSE "Draining"]
               ELSE state' = [state EXCEPT ![s] = "OutOfOrder"]
    BY <1>7, UpdatesDoes
  <2>2. Is(Stream(s)[1], "Updates") /\ Stream(s)[1].msg.ops = U
    BY <2>1, MsgFacts DEF Is
  <2>3. state[s] = "AwaitUpdates"
    BY <2>1, <2>2, FirstUnit DEF Is
  <2>4. CASE s = "host"
    <3>1. doc'["puller"] = doc["puller"] /\ state'["puller"] = state["puller"]
      BY <2>1, <2>3, <2>4, Ends DEF TypeOK
    <3> QED BY <2>1, <3>1, PullStill
  <2>5. CASE s = "puller"
    <3>1. doc'["puller"] = doc["puller"] \cup U /\ doc["puller"] = start.puller
      BY <2>1, <2>3, <2>5, Ends DEF Imported, GrantsTo, Perms, TypeOK, Base, Holds
    <3>2. "pull" \in start.perms => Enough(Stream("puller"))
      BY <2>3, <2>5 DEF Complete, Gone
    <3>3. Stream("puller") # <<>> /\ Stream("puller") \in Seq(Units)
      BY <2>1, <2>5, Ends, StreamFacts DEF Taken
    <3>4. 1 \in DOMAIN Stream("puller") /\ FirstUpdates(Stream("puller"), 1)
      BY <2>2, <2>5, <3>3, NotEmpty DEF FirstUpdates
    <3>5. "pull" \in start.perms => start.host \subseteq start.puller \cup U
      BY <2>2, <2>5, <3>2, <3>4 DEF Enough
    <3> QED BY <2>1, <3>1, <3>5 DEF PullComplete
  <2> QED BY <2>4, <2>5 DEF Sides
<1>8. ASSUME UNCHANGED vars PROVE PullComplete'
  <2>1. UNCHANGED <<start, doc, state>>
    BY <1>8 DEF vars
  <2> QED BY <2>1, PullStill
<1> QED BY <1>1, <1>2, <1>3, <1>4, <1>5, <1>6, <1>7, <1>8 DEF Next

\* A pull that may pull and has read its updates holds all that the host held
\* when the pull began, however the host's own pushes crossed the exchange: the
\* first updates frame on the stream, be it the answer to the puller's version or
\* a live push that overtook it, starts from a version the puller is not behind.
THEOREM PullsAreComplete == Spec => []PullComplete
<1> QED BY BaseInit, CompleteInit, TypesNext, BaseNext, CompleteNext, PullNext, PTL DEF Spec

-----------------------------------------------------------------------------
(* What pull pushed is at the host when pull exits. *)

LEMMA WaitingBack ==
  ASSUME start' = start, doc["host"] \subseteq doc'["host"]
  PROVE  (Waiting' => Waiting) /\ (HasAll => HasAll')
  BY DEF Waiting, HasAll

LEMMA PushTail ==
  ASSUME NEW S \in Seq(Units), S # <<>>, ~EndsUpdates(S, 1), \E i \in DOMAIN S : EndsUpdates(S, i)
  PROVE  \E i \in DOMAIN Tail(S) : EndsUpdates(Tail(S), i)
<1> DEFINE T == Tail(S)
<1>1. \A i \in DOMAIN S : i # 1 => i - 1 \in DOMAIN T /\ T[i - 1] = S[i]
  BY TailFacts
<1> HIDE DEF T
<1>2. PICK i \in DOMAIN S : EndsUpdates(S, i)
  OBVIOUS
<1>3. i # 1
  BY <1>2
<1>4. i - 1 \in DOMAIN T /\ T[i - 1] = S[i]
  BY <1>1, <1>3
<1>5. EndsUpdates(T, i - 1)
  BY <1>2, <1>4 DEF EndsUpdates
<1> QED BY <1>4, <1>5 DEF T

LEMMA PushFrame ==
  ASSUME NEW S \in Seq(Units), NEW W \in SUBSET Ops
  PROVE  \E i \in DOMAIN (S \o Frame(Updates(W))) : EndsUpdates(S \o Frame(Updates(W)), i)
<1> DEFINE f == Frame(Updates(W))
           T == S \o f
<1>1. Updates(W) \in Msg /\ Updates(W).type = "Updates"
  BY MsgFacts
<1>2. /\ f \in Seq(Units) /\ Len(f) \in Nat \ {0}
      /\ \A i \in 1 .. Len(f) : f[i].msg = Updates(W) /\ f[i].left = Len(f) - i
  BY <1>1, FrameFacts
<1> HIDE DEF f
<1>3. /\ T \in Seq(Units) /\ Len(T) = Len(S) + Len(f)
      /\ \A i \in DOMAIN f : Len(S) + i \in DOMAIN T /\ T[Len(S) + i] = f[i]
  BY <1>2, ConcatFacts
<1> HIDE DEF T
<1>4. DOMAIN f = 1 .. Len(f) /\ Len(S) \in Nat /\ DOMAIN T = 1 .. Len(T)
  BY <1>2, <1>3, NotEmpty
<1>5. EndsUpdates(T, Len(S) + Len(f)) /\ Len(S) + Len(f) \in DOMAIN T
  <2>1. Len(f) \in DOMAIN f /\ f[Len(f)].msg = Updates(W) /\ f[Len(f)].left = 0
    BY <1>2, <1>4
  <2> QED BY <1>1, <1>3, <2>1 DEF EndsUpdates, Is
<1> QED BY <1>5 DEF T, f

LEMMA PushedStill ==
  ASSUME Pushed, UNCHANGED <<start, state, breaks>>, doc'["puller"] = doc["puller"],
         doc["host"] \subseteq doc'["host"], Stream("host")' = Stream("host"),
         writing["puller"] = <<>> => writing'["puller"] = <<>>
  PROVE  Pushed'
<1>1. (Waiting' => Waiting) /\ (HasAll => HasAll')
  BY WaitingBack
<1>2. Early' /\ Closing' /\ Settled'
  BY <1>1 DEF Pushed, Early, Closing, Settled, Gone
<1>3. Coming'
  BY <1>1 DEF Pushed, Coming, Gone
<1> QED BY <1>2, <1>3 DEF Pushed

LEMMA PushedDial ==
  ASSUME TypeOK, Base, Pushed, Dial
  PROVE  Pushed'
<1>1. /\ state["puller"] = "Dialing" /\ state'["puller"] = "AwaitHave" /\ state'["host"] = state["host"]
      /\ UNCHANGED <<start, doc, breaks>>
  BY Ends, DialDoes DEF Base, TypeOK
<1>2. state["host"] = "Accepting"
  BY <1>1 DEF Pushed, Early
<1>3. (Waiting' => Waiting) /\ (HasAll => HasAll')
  BY <1>1, WaitingBack
<1> QED BY <1>1, <1>2, <1>3 DEF Pushed, Early, Closing, Coming, Settled, Gone

\* The puller's side ends without having had its updates.
LEMMA PushedFailed ==
  ASSUME Pushed, state'["puller"] = "Failed", state'["host"] = state["host"], UNCHANGED <<start, doc, breaks>>
  PROVE  Pushed'
<1>1. (Waiting' => Waiting) /\ (HasAll => HasAll')
  BY WaitingBack
<1> QED BY <1>1 DEF Pushed, Early, Closing, Coming, Settled, Gone

LEMMA PushedAccept ==
  ASSUME TypeOK, Base, Pushed, Accept
  PROVE  Pushed'
<1>1. /\ state["host"] = "Accepting" /\ Stream("host") # <<>>
      /\ state' = [state EXCEPT !["host"] = IF start.live THEN "Live" ELSE "AwaitHave"]
      /\ UNCHANGED <<start, doc, breaks>> /\ writing'["puller"] = writing["puller"]
  BY AcceptDoes DEF Base
<1>2. state'["host"] \in {"Live", "AwaitHave"} /\ state'["puller"] = state["puller"]
  BY <1>1, Ends DEF TypeOK
<1>3. state["puller"] \notin {"Dialing", "Draining", "AwaitUpdates"}
  BY <1>1, Ends DEF Pushed, Early, Base, Ordered, InOrder, Begin
<1>4. (Waiting' => Waiting) /\ (HasAll => HasAll')
  BY <1>1, WaitingBack
<1> QED BY <1>1, <1>2, <1>3, <1>4 DEF Pushed, Early, Closing, Coming, Settled, Gone

LEMMA PushedRefuse ==
  ASSUME TypeOK, Base, Pushed, Refuse
  PROVE  Pushed'
<1>1. /\ state["host"] = "Accepting" /\ start.perms = {} /\ Stream("host") # <<>>
      /\ state' = [state EXCEPT !["host"] = "Closed"] /\ UNCHANGED <<start, doc, breaks, writing>>
  BY RefuseDoes DEF Base
<1>2. state'["host"] = "Closed" /\ state'["puller"] = state["puller"]
  BY <1>1, Ends DEF TypeOK
<1>3. state["puller"] # "Dialing"
  BY <1>1, Ends DEF Base, Ordered, InOrder, Begin
<1>4. ~Waiting'
  BY <1>1 DEF Waiting
<1> QED BY <1>1, <1>2, <1>3, <1>4 DEF Pushed, Early, Closing, Coming, Settled, Gone

LEMMA PushedBreak ==
  ASSUME TypeOK, Base, Pushed, Break
  PROVE  Pushed'
<1>1. /\ breaks' = breaks + 1 /\ UNCHANGED <<start, doc>> /\ state'["host"] = "Closed"
      /\ state'["puller"] = IF state["puller"] = "Draining" THEN "Exited"
                            ELSE IF Gone("puller") THEN state["puller"] ELSE "Failed"
  BY BreakDoes
<1>2. state'["puller"] \in {"Exited", "Failed"} /\ breaks' # 0
  BY <1>1 DEF Base, Roles, Gone, TypeOK
<1>3. (Waiting' => Waiting) /\ (HasAll => HasAll')
  BY <1>1, WaitingBack
<1> QED BY <1>1, <1>2, <1>3 DEF Pushed, Early, Closing, Coming, Settled, Gone

LEMMA PushedExit ==
  ASSUME TypeOK, Pushed, Exit
  PROVE  Pushed'
<1>1. /\ state["puller"] = "Draining" /\ state["host"] \in {"Done", "Closed", "Cut"}
      /\ state'["puller"] = "Exited" /\ state'["host"] = state["host"]
      /\ UNCHANGED <<start, doc, breaks>>
  BY Ends DEF Exit, LinkClosed, TypeOK
<1>2. (Waiting' => Waiting) /\ (HasAll => HasAll')
  BY <1>1, WaitingBack
<1> QED BY <1>1, <1>2 DEF Pushed, Early, Closing, Coming, Settled, Gone

\* The host's session ends because it has read its stream to the end.
LEMMA PushedClosed ==
  ASSUME TypeOK, Pushed, ~Gone("host"), Gone("puller"), state'["host"] = "Closed",
         state'["puller"] = state["puller"], UNCHANGED <<start, doc, breaks, writing>>,
         state["puller"] = "Draining" => ~Waiting
  PROVE  Pushed'
<1>1. (Waiting' => Waiting) /\ (HasAll => HasAll')
  BY WaitingBack
<1>2. state["puller"] = "Exited" => breaks # 0
  BY DEF Pushed, Closing, Gone
<1> QED BY <1>1, <1>2 DEF Pushed, Early, Closing, Coming, Settled, Gone

\* The host's session is cut by a write that failed.
LEMMA PushedCut ==
  ASSUME TypeOK, Pushed, ~Gone("host"), state'["host"] = "Cut", state'["puller"] = state["puller"],
         UNCHANGED <<start, doc, breaks>>, writing'["puller"] = writing["puller"], Gone("puller")
  PROVE  Pushed'
<1>1. (Waiting' => Waiting) /\ (HasAll => HasAll')
  BY WaitingBack
<1>2. state["puller"] # "Dialing"
  BY DEF Gone
<1> QED BY <1>1, <1>2 DEF Pushed, Early, Closing, Coming, Settled, Gone

LEMMA PushedFails ==
  ASSUME TypeOK, Base, Pushed, NEW s \in Sides, WriteFails(s)
  PROVE  Pushed'
<1>1. /\ Gone(Far(s)) /\ ~Gone(s) /\ state' = [state EXCEPT ![s] = Cut(s)]
      /\ writing'[Far(s)] = writing[Far(s)] /\ UNCHANGED <<start, doc, breaks>>
  BY FailsDoes
<1>2. state'[s] = Cut(s) /\ state'[Far(s)] = state[Far(s)]
  BY <1>1, SidesFacts DEF TypeOK
<1>3. CASE s = "puller"
  BY <1>1, <1>2, <1>3, Ends, PushedFailed DEF Cut
<1>4. CASE s = "host"
  BY <1>1, <1>2, <1>4, Ends, PushedCut DEF Cut
<1> QED BY <1>3, <1>4 DEF Sides

LEMMA PushedEof ==
  ASSUME TypeOK, Base, Pushed, NEW s \in Sides, Eof(s)
  PROVE  Pushed'
<1>1. /\ state[s] \in Reading /\ writing[s] = <<>> /\ chan[s] = <<>> /\ Gone(Far(s))
      /\ state'[s] = Broken(s) /\ state'[Far(s)] = state[Far(s)]
      /\ UNCHANGED <<start, doc, writing, breaks>>
  BY SidesFacts DEF Eof, TypeOK
<1>2. CASE s = "puller"
  BY <1>1, <1>2, Ends, PushedFailed DEF Broken
<1>3. CASE s = "host"
  <2>1. ~Gone("host")
    BY <1>1, <1>3 DEF Reading, Gone
  <2>2. state["puller"] = "Draining" => ~Waiting
    <3> SUFFICES ASSUME state["puller"] = "Draining", Waiting PROVE FALSE
      OBVIOUS
    <3>1. writing["puller"] = <<>>
      BY DEF Pushed, Early
    <3>2. <<>> \in Seq({}) /\ <<>> \o <<>> = <<>>
      BY ConcatEmptySeq
    <3>3. Stream("host") = <<>>
      BY <1>1, <1>3, <3>1, <3>2, Ends DEF Stream
    <3> QED BY <2>1, <3>3 DEF Pushed, Coming
  <2> QED BY <1>1, <1>3, <2>1, <2>2, Ends, PushedClosed DEF Broken
<1> QED BY <1>2, <1>3 DEF Sides

\* A unit that does not end a message of the exchange is read.
LEMMA PushedSkip ==
  ASSUME TypeOK, Base, Pushed, NEW s \in Sides, ReadPart(s) \/ OnEphemeral(s)
  PROVE  Pushed'
<1>1. /\ Taken(s) /\ Stream(Far(s))' = Stream(Far(s))
      /\ Stream(s)[1].left > 0 \/ Is(Stream(s)[1], "Ephemeral")
      /\ UNCHANGED <<start, doc, state, breaks, writing>>
  BY SkipDoes
<1>2. CASE s = "puller"
  BY <1>1, <1>2, Ends, PushedStill
<1>3. CASE s = "host"
  <2>1. Stream("host") \in Seq(Units) /\ Stream("host") # <<>> /\ Stream("host")' = Tail(Stream("host"))
    BY <1>1, <1>3, Ends, StreamFacts DEF Taken
  <2>2. ~EndsUpdates(Stream("host"), 1)
    BY <1>1, <1>3 DEF EndsUpdates, Is
  <2>3. (Waiting' => Waiting) /\ (HasAll => HasAll')
    BY <1>1, WaitingBack
  <2>4. Coming'
    BY <1>1, <2>1, <2>2, <2>3, PushTail DEF Pushed, Coming, Gone
  <2> QED BY <1>1, <2>3, <2>4 DEF Pushed, Early, Closing, Settled, Gone
<1> QED BY <1>2, <1>3 DEF Sides

LEMMA PushedRefused ==
  ASSUME TypeOK, Base, Pushed, NEW s \in Sides, OnRefused(s)
  PROVE  Pushed'
<1>1. /\ Taken(s) /\ Is(Stream(s)[1], "Refused")
      /\ state' = [state EXCEPT ![s] = "Failed"] /\ UNCHANGED <<start, doc, breaks>>
  BY RefusedDoes
<1>2. s = "puller"
  BY <1>1, FirstUnit DEF PullerUnits, PullerSays, Is, Sides
<1>3. state'["puller"] = "Failed" /\ state'["host"] = state["host"]
  BY <1>1, <1>2, Ends DEF TypeOK
<1> QED BY <1>1, <1>3, PushedFailed

\* The puller has the host's version and answers it.
LEMMA PushedHavePuller ==
  ASSUME TypeOK, Base, Pushed, OnHave("puller")
  PROVE  Pushed'
<1>1. PICK v \in SUBSET Ops :
        /\ Taken("puller") /\ Stream("puller")[1].msg = Have(v) /\ state["puller"] # "Live"
        /\ UNCHANGED <<start, doc, nudged, breaks>>
        /\ IF state["puller"] = "AwaitHave"
             THEN /\ state' = [state EXCEPT !["puller"] = "AwaitUpdates"]
                  /\ Stream("host")' = Stream("host") \o Frame(Reply("puller", v))
             ELSE state' = [state EXCEPT !["puller"] = "OutOfOrder"]
  BY Ends, HaveDoes
<1>2. Is(Stream("puller")[1], "Have")
  BY <1>1, MsgFacts DEF Is
<1>3. state["puller"] = "AwaitHave"
  BY <1>1, <1>2, Ends, FirstUnit
<1> DEFINE W == IF "pull" \in GrantsTo("puller") THEN doc["puller"] \ v ELSE {}
<1>4. W \in SUBSET Ops /\ Reply("puller", v) = Updates(W)
  BY Ends DEF Reply, TypeOK
<1> HIDE DEF W
<1>5. /\ state'["puller"] = "AwaitUpdates" /\ state'["host"] = state["host"]
      /\ Stream("host")' = Stream("host") \o Frame(Updates(W))
  BY <1>1, <1>3, <1>4, Ends DEF TypeOK
<1>6. Stream("host") \in Seq(Units)
  BY Ends, StreamFacts
<1>7. \E i \in DOMAIN Stream("host")' : EndsUpdates(Stream("host")', i)
  BY <1>4, <1>5, <1>6, PushFrame
<1>8. (Waiting' => Waiting) /\ (HasAll => HasAll')
  BY <1>1, WaitingBack
<1>9. Coming'
  BY <1>7 DEF Coming
<1>10. Early' /\ Closing' /\ Settled'
  BY <1>1, <1>3, <1>5, <1>8 DEF Pushed, Early, Closing, Settled, Gone
<1> QED BY <1>9, <1>10 DEF Pushed

\* Taking the puller's version does not take its updates.
LEMMA ComingAnswer ==
  ASSUME TypeOK, Pushed, Taken("host"), ~EndsUpdates(Stream("host"), 1), UNCHANGED <<start, doc>>,
         state'["puller"] = state["puller"], Gone("host") => Gone("host")'
  PROVE  Coming'
<1>1. /\ Stream("host") \in Seq(Units) /\ Stream("host") # <<>> /\ Stream("host")' = Tail(Stream("host"))
  BY Ends, StreamFacts DEF Taken
<1>2. (\E i \in DOMAIN Stream("host") : EndsUpdates(Stream("host"), i))
        => \E i \in DOMAIN Stream("host")' : EndsUpdates(Stream("host")', i)
  BY <1>1, PushTail
<1>3. HasAll => HasAll'
  BY WaitingBack
<1> QED BY <1>2, <1>3 DEF Pushed, Coming, Waiting

LEMMA PushedHaveHost ==
  ASSUME TypeOK, Base, Pushed, OnHave("host")
  PROVE  Pushed'
<1>1. PICK v \in SUBSET Ops :
        /\ Taken("host") /\ Stream("host")[1].msg = Have(v) /\ state["host"] # "Live"
        /\ UNCHANGED <<start, doc, nudged, breaks>> /\ writing'["puller"] = writing["puller"]
        /\ IF state["host"] = "AwaitHave"
             THEN state' = [state EXCEPT !["host"] = "AwaitUpdates"]
             ELSE state' = [state EXCEPT !["host"] = "OutOfOrder"]
  BY Ends, HaveDoes
<1>2. Is(Stream("host")[1], "Have") /\ ~EndsUpdates(Stream("host"), 1)
  BY <1>1, MsgFacts DEF Is, EndsUpdates
<1>3. state["host"] = "AwaitHave"
  BY <1>1, <1>2, Ends, FirstUnit
<1>4. state'["host"] = "AwaitUpdates" /\ state'["puller"] = state["puller"]
  BY <1>1, <1>3, Ends DEF TypeOK
<1>5. Coming'
  BY <1>1, <1>2, <1>3, <1>4, ComingAnswer DEF Gone
<1>6. (Waiting' => Waiting) /\ (HasAll => HasAll')
  BY <1>1, WaitingBack
<1>7. Early' /\ Closing' /\ Settled'
  BY <1>1, <1>3, <1>4, <1>6 DEF Pushed, Early, Closing, Settled, Gone
<1> QED BY <1>5, <1>7 DEF Pushed

LEMMA PushedLiveHave ==
  ASSUME TypeOK, Base, Pushed, LiveOnHave
  PROVE  Pushed'
<1>1. PICK v \in SUBSET Ops :
        /\ Taken("host") /\ Stream("host")[1].msg = Have(v)
        /\ UNCHANGED <<start, doc, state, breaks>> /\ writing'["puller"] = writing["puller"]
  BY LiveHaveDoes
<1>2. ~EndsUpdates(Stream("host"), 1)
  BY <1>1, MsgFacts DEF Is, EndsUpdates
<1>3. Coming'
  BY <1>1, <1>2, ComingAnswer DEF Gone
<1>4. (Waiting' => Waiting) /\ (HasAll => HasAll')
  BY <1>1, WaitingBack
<1> QED BY <1>1, <1>3, <1>4 DEF Pushed, Early, Closing, Settled, Gone

\* The host imports the updates of the puller, and then holds all it pushed.
LEMMA ImportsAll ==
  ASSUME TypeOK, Base, Taken("host"), NEW U \in SUBSET Ops, Stream("host")[1].msg = Updates(U),
         doc'["host"] = Imported("host", U), start' = start
  PROVE  doc["host"] \subseteq doc'["host"] /\ ("push" \in start.perms => HasAll')
<1>1. Is(Stream("host")[1], "Updates") /\ Stream("host")[1].msg.ops = U
  BY MsgFacts DEF Is
<1>2. start.puller \subseteq doc["host"] \cup U
  BY <1>1, Ends, FirstUnit DEF PullerUnits, PullerSays
<1> QED BY <1>2 DEF Imported, GrantsTo, HasAll

LEMMA PushedImported ==
  ASSUME TypeOK, Base, Pushed, Taken("host"), NEW U \in SUBSET Ops, Stream("host")[1].msg = Updates(U),
         ~Gone("host"), doc'["host"] = Imported("host", U), doc'["puller"] = doc["puller"],
         state'["host"] \in {state["host"], "Done"}, state["host"] # "Accepting", state'["puller"] = state["puller"],
         writing'["puller"] = writing["puller"], UNCHANGED <<start, breaks>>
  PROVE  Pushed'
<1>1. doc["host"] \subseteq doc'["host"] /\ ("push" \in start.perms => HasAll')
  BY ImportsAll
<1>2. (Waiting' => Waiting) /\ ~Waiting'
  BY <1>1, WaitingBack DEF Waiting
<1>3. state["puller"] # "Dialing"
  BY DEF Pushed, Early
<1>4. Coming' /\ Settled'
  BY <1>2 DEF Coming, Settled
<1>5. state["puller"] = "Exited" => breaks # 0
  BY DEF Pushed, Closing, Gone
<1> QED BY <1>1, <1>2, <1>3, <1>4, <1>5 DEF Pushed, Early, Closing, Gone

LEMMA PushedUpdatesPuller ==
  ASSUME TypeOK, Base, Pushed, OnUpdates("puller")
  PROVE  Pushed'
<1>1. PICK U \in SUBSET Ops :
        /\ Taken("puller") /\ Stream("puller")[1].msg = Updates(U) /\ Stream("puller")[1].left = 0
        /\ state["puller"] # "Live" /\ UNCHANGED <<start, nudged, breaks, writing>>
        /\ Stream("host")' = Stream("host")
        /\ IF state["puller"] = "AwaitUpdates"
             THEN /\ doc' = [doc EXCEPT !["puller"] = Imported("puller", U)]
                  /\ state' = [state EXCEPT !["puller"] = "Draining"]
             ELSE state' = [state EXCEPT !["puller"] = "OutOfOrder"]
  BY Ends, UpdatesDoes
<1>2. Is(Stream("puller")[1], "Updates") /\ Stream("puller")[1].msg.ops = U
  BY <1>1, MsgFacts DEF Is
<1>3. state["puller"] = "AwaitUpdates"
  BY <1>1, <1>2, Ends, FirstUnit DEF Is
<1>4. /\ state'["puller"] = "Draining" /\ state'["host"] = state["host"]
      /\ doc'["puller"] = doc["puller"] \cup U /\ doc'["host"] = doc["host"]
  BY <1>1, <1>3, Ends DEF TypeOK, Imported, GrantsTo, Perms
<1>5. U \subseteq doc["host"]
  BY <1>1, <1>2, Ends, FirstUnit DEF HostUnits, HostSays
<1>6. writing["puller"] = <<>>
  BY <1>1 DEF Taken
<1>7. (Waiting' => Waiting) /\ (HasAll => HasAll')
  BY <1>1, <1>4, WaitingBack
<1>8. Coming'
  BY <1>1, <1>3, <1>4, <1>7 DEF Pushed, Coming, Gone
<1>9. Settled'
  <2> SUFFICES ASSUME state["host"] \in {"Done", "Closed"}, breaks = 0, Waiting PROVE FALSE
    BY <1>1, <1>4, <1>7 DEF Settled
  <2>1. ~Gone("puller")
    BY <1>3 DEF Gone
  <2>2. state["host"] = "Done"
    BY <2>1 DEF Pushed, Closing, Waiting
  <2> QED BY <2>2 DEF Pushed, Closing, Waiting
<1>10. Early'
  <2>1. state["host"] # "Accepting"
    BY <1>3, Ends DEF Base, Ordered, InOrder, Begin
  <2> QED BY <1>1, <1>4, <1>6, <2>1 DEF Early
<1>11. Closing'
  BY <1>1, <1>4, <1>5, <1>7 DEF Pushed, Closing, Gone
<1> QED BY <1>8, <1>9, <1>10, <1>11 DEF Pushed

LEMMA PushedNext == TypeOK /\ Base /\ Pushed /\ [Next]_vars => Pushed'
<1> SUFFICES ASSUME TypeOK, Base, Pushed, [Next]_vars PROVE Pushed'
  OBVIOUS
<1>1. ASSUME Unreachable PROVE Pushed'
  <2>1. state'["puller"] = "Failed" /\ state'["host"] = state["host"] /\ UNCHANGED <<start, doc, breaks>>
    BY <1>1, Ends DEF Unreachable, TypeOK
  <2> QED BY <2>1, PushedFailed
<1>2. ASSUME LiveOnUpdates PROVE Pushed'
  <2>1. PICK U \in SUBSET Ops :
          /\ Taken("host") /\ Stream("host")[1].msg = Updates(U) /\ state["host"] = "Live"
          /\ doc' = [doc EXCEPT !["host"] = Imported("host", U)]
          /\ UNCHANGED <<start, state, writing, breaks>>
    BY <1>2, LiveUpdatesDoes
  <2>2. doc'["host"] = Imported("host", U) /\ doc'["puller"] = doc["puller"]
    BY <2>1, Ends DEF TypeOK
  <2> QED BY <2>1, <2>2, PushedImported DEF Gone
<1>3. ASSUME NEW o \in Late, HostCommit(o) PROVE Pushed'
  <2>1. /\ doc'["host"] = doc["host"] \cup {o} /\ doc'["puller"] = doc["puller"]
        /\ UNCHANGED <<start, state, chan, writing, breaks>>
    BY <1>3, Ends DEF HostCommit, TypeOK
  <2>2. Stream("host")' = Stream("host")
    BY <2>1, Ends, StillDoes
  <2> QED BY <2>1, <2>2, PushedStill
<1>4. ASSUME NEW s \in Sides, Write(s) PROVE Pushed'
  <2>1. /\ Stream("host")' = Stream("host") /\ UNCHANGED <<start, doc, state, breaks>>
        /\ writing["puller"] = <<>> => writing'["puller"] = <<>>
    BY <1>4, Ends, WriteDoes
  <2> QED BY <2>1, PushedStill
<1>5. ASSUME NEW s \in Sides, OnHave(s) PROVE Pushed'
  BY <1>5, PushedHavePuller, PushedHaveHost DEF Sides
<1>6. ASSUME NEW s \in Sides, OnUpdates(s) PROVE Pushed'
  <2>1. CASE s = "puller"
    BY <1>6, <2>1, PushedUpdatesPuller
  <2>2. CASE s = "host"
    <3>1. PICK U \in SUBSET Ops :
            /\ Taken("host") /\ Stream("host")[1].msg = Updates(U) /\ state["host"] # "Live"
            /\ UNCHANGED <<start, breaks, writing>>
            /\ IF state["host"] = "AwaitUpdates"
                 THEN /\ doc' = [doc EXCEPT !["host"] = Imported("host", U)]
                      /\ state' = [state EXCEPT !["host"] = "Done"]
                 ELSE state' = [state EXCEPT !["host"] = "OutOfOrder"]
      BY <1>6, <2>2, Ends, UpdatesDoes
    <3>2. state["host"] = "AwaitUpdates"
      <4>1. Is(Stream("host")[1], "Updates")
        BY <3>1, MsgFacts DEF Is
      <4> QED BY <3>1, <4>1, Ends, FirstUnit DEF Is
    <3>3. /\ doc'["host"] = Imported("host", U) /\ doc'["puller"] = doc["puller"]
          /\ state'["host"] = "Done" /\ state'["puller"] = state["puller"]
      BY <3>1, <3>2, Ends DEF TypeOK
    <3> QED BY <3>1, <3>2, <3>3, PushedImported DEF Gone
  <2> QED BY <2>1, <2>2 DEF Sides
<1>7. ASSUME UNCHANGED vars PROVE Pushed'
  <2>1. UNCHANGED <<start, doc, state, breaks, chan, writing>>
    BY <1>7 DEF vars
  <2>2. Stream("host")' = Stream("host")
    BY <2>1, Ends, StillDoes
  <2> QED BY <2>1, <2>2, PushedStill
<1>8. ASSUME LiveOnNudge PROVE Pushed'
  <2>1. Stream("host")' = Stream("host") /\ writing'["puller"] = writing["puller"] /\ UNCHANGED <<start, doc, state, breaks>>
    BY <1>8, NudgeDoes
  <2> QED BY <2>1, PushedStill
<1>9. ASSUME LivePresence PROVE Pushed'
  <2>1. Stream("host")' = Stream("host") /\ writing'["puller"] = writing["puller"] /\ UNCHANGED <<start, doc, state, breaks>>
    BY <1>9, PresenceDoes
  <2> QED BY <2>1, PushedStill
<1> QED BY <1>1, <1>2, <1>3, <1>4, <1>5, <1>6, <1>7, <1>8, <1>9, PushedDial, PushedAccept, PushedRefuse, PushedExit,
           PushedBreak, PushedFails, PushedEof, PushedSkip, PushedRefused, PushedLiveHave DEF Next

LEMMA PushedInit == Init => Pushed
  BY Ends DEF Init, Pushed, Early, Closing, Coming, Settled, Gone

\* When pull exits on a connection that held, the accepting side has imported
\* all that pull pushed, whatever it committed, pushed or relayed meanwhile,
\* unless one of its own writes to the pull failed: until the push is in, the
\* puller's updates are on its stream, so that a host which reads to the end of
\* the stream has read them, and the close that pull waits for comes after.
THEOREM PushesConsumed == Spec => []PushConsumed
<1>1. Pushed => PushConsumed
  BY DEF Pushed, Closing, Settled, Waiting, HasAll, PushConsumed
<1> QED BY <1>1, BaseInit, PushedInit, TypesNext, BaseNext, PushedNext, PTL DEF Spec

=============================================================================
