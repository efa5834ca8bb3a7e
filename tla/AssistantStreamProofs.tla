------------------------ MODULE AssistantStreamProofs ------------------------
(* What is proved of AssistantStream, for every number of turns, messages,    *)
(* chunks, events and reloads: what the page shows of an answer is its        *)
(* beginning, a complete message is the stored one, and no event is missed.   *)
EXTENDS AssistantStream, FiniteSetTheorems, SequenceTheorems, TLAPS

-----------------------------------------------------------------------------
(* The inductive invariant *)

Texts == {text \in Seq(ChunkNames) : Len(text) <= MaxChunks}
Event ==
    [type : {"state"}, turn : Turns] \cup [type : {"started"}, key : Keys]
      \cup [type : {"chunk"}, key : Keys, chunk : ChunkNames]
      \cup [type : {"completed"}, key : Keys, digest : Texts]
Frame == [id : 0..MaxEvents, name : {"finance", "reset"}, event : Event]
Message == [size : 0..MaxChunks, completed : BOOLEAN]
Row == [status : {"none", "reserved", "completed", "failed"}, texts : Seq(Texts)]
Entry == [status : {"streaming", "complete", "failed"}, text : Texts]
Page ==
    [turn : Turns, cursor : NoCursor..MaxEvents,
     streams : UNION {[D -> Texts] : D \in SUBSET Keys},
     shown : UNION {[D -> Entry] : D \in SUBSET Keys},
     asked : 0..MaxTurns, last : 0..MaxTurns, working : BOOLEAN, loading : BOOLEAN]

HostTyped ==
    /\ turn \in Turns
    /\ projector \in [turn : 0..MaxTurns, messages : Seq(Message)]
    /\ Len(projector.messages) <= MaxMessages
    /\ saving \in [turn : 0..MaxTurns, texts : Seq(Texts), shown : BOOLEAN]
    /\ rows \in [TurnIds -> Row]
    /\ request \in 0..MaxTurns
    /\ answer \in Turns \cup {Error, NoAnswer}
GatewayTyped ==
    /\ nextEventId \in 1..(MaxEvents + 1)
    /\ replay \in Seq(Frame) /\ Len(replay) <= ReplayLimit
    /\ connection \in {"none", "live", "cut"}
    /\ wire \in Seq(Frame)
PageTyped ==
    /\ page \in Page
    /\ skipped \in BOOLEAN /\ overtaken \in BOOLEAN
    /\ changes \in 0..MaxChanges /\ reloads \in 0..MaxReloads
Typed == HostTyped /\ GatewayTyped /\ PageTyped

\* Turns are begun in the order the page asks for them, and each of them once.
HostFits ==
    /\ request # 0 => request = page.asked
    /\ turn.id <= page.asked
    /\ turn.id = 0 => ~IsTurnActive(turn)
    /\ turn.id # 0 => turn.id # request
    /\ \A t \in TurnIds : t > page.asked \/ t = request => rows[t].status = "none"
    /\ saving.turn <= page.asked
    /\ saving.turn # 0 => saving.turn # request
    /\ Len(saving.texts) <= MaxMessages
    /\ \A m \in 1..Len(saving.texts) :
          \E n \in 0..MaxChunks : saving.texts[m] = Text(saving.turn, m, n)

\* The buffer ends with the last event, if there is one, and has no gap.
Oldest == nextEventId - Len(replay)
ReplayNumbered ==
    /\ Oldest >= 1
    /\ Len(replay) > 0 \/ nextEventId = 1
    /\ \A i \in 1..Len(replay) : replay[i].id = Oldest + i - 1 /\ replay[i].name = "finance"

\* What is on the wire has no gap, and begins after the page's cursor or with a
\* reset.  A connection that was not cut brings the page to the last event.
Reach == IF wire = <<>> THEN page.cursor ELSE wire[Len(wire)].id
WireNumbered ==
    /\ connection = "none" => wire = <<>>
    /\ connection = "live" => Reach = nextEventId - 1
    /\ Reach < nextEventId
    /\ \A i \in 1..Len(wire) : wire[i].id = wire[1].id + i - 1
    /\ wire # <<>> => /\ page.cursor < wire[1].id
                      /\ \/ wire[1].name = "reset"
                         \/ wire[1].id = page.cursor + 1
                         \/ skipped
    /\ wire # <<>> /\ page.cursor = NoCursor => wire[1].event.type = "state"

\* Who has seen the events up to c, and no state event was kept that came later,
\* knows the host's turn.
Tells(c, t) ==
    c + 1 >= Oldest /\ (\A i \in 1..Len(replay) : replay[i].id > c => replay[i].event.type # "state")
       => t = turn
NoState(i, j) == \A l \in i..j : wire[l].event.type # "state"
ReplayTold ==
    \A i \in 1..Len(replay) :
        replay[i].event.type = "state" => Tells(replay[i].id, replay[i].event.turn)
WireTold ==
    \A i, j \in 1..Len(wire) :
        i <= j /\ wire[i].event.type = "state" /\ NoState(i + 1, j)
            => Tells(wire[j].id, wire[i].event.turn)
PageTold ==
    skipped \/ overtaken \/
        /\ Tells(page.cursor, page.turn)
        /\ \A j \in 1..Len(wire) : NoState(1, j) => Tells(wire[j].id, page.turn)

\* The events that may still reach the page.
Sent == {replay[i] : i \in 1..Len(replay)} \cup {wire[i] : i \in 1..Len(wire)}
About(f, k) == f.event.type # "state" /\ f.event.key = k

\* The host has done with turn t, and the text of message k is stored.
Over(t) == t <= page.asked /\ t # request /\ (turn.id = t => ~IsTurnActive(turn))
StoredAs(k, text) ==
    /\ rows[k[1]].status = "completed"
    /\ k[2] <= Len(rows[k[1]].texts)
    /\ text = rows[k[1]].texts[k[2]]

\* A chunk is of the message it names.  A completion has the stored text, and
\* nothing about the message follows.
FramesFit ==
    \A f \in Sent :
        /\ f.event.type = "chunk" =>
              /\ f.event.key = <<f.event.chunk[1], f.event.chunk[2]>>
              /\ f.event.chunk[3] < MaxChunks
        /\ f.event.type = "completed" =>
              /\ Over(f.event.key[1])
              /\ StoredAs(f.event.key, f.event.digest)
              /\ \A g \in Sent : g.id > f.id => ~About(g, f.event.key)

\* The page will hear no more of message k.
Heard(k) == Over(k[1]) /\ \A f \in Sent : f.id > page.cursor => ~About(f, k)
IsBeginning(k, text) == \E n \in 0..MaxChunks : text = Text(k[1], k[2], n)

StreamsFit == \A k \in DOMAIN page.streams : IsBeginning(k, page.streams[k])
ShownFits ==
    \A k \in DOMAIN page.shown :
        /\ IsBeginning(k, page.shown[k].text)
        /\ k \in DOMAIN page.streams =>
              \/ page.shown[k].status = "streaming" /\ page.shown[k].text = page.streams[k]
              \/ page.shown[k].status = "failed" /\ Heard(k)
        /\ page.shown[k].status = "complete" => StoredAs(k, page.shown[k].text)

Events == ReplayNumbered /\ WireNumbered /\ ReplayTold /\ WireTold /\ PageTold
Answers == HostFits /\ FramesFit /\ StreamsFit /\ ShownFits
IInv == Typed /\ Events /\ Answers

-----------------------------------------------------------------------------
(* Texts *)

\* The text of n chunks is n chunks long.
LEMMA TextOf ==
    ASSUME NEW t \in TurnIds, NEW m \in 1..MaxMessages, NEW n \in 0..MaxChunks
    PROVE  Text(t, m, n) \in Texts /\ Len(Text(t, m, n)) = n
<1>1. Text(t, m, n) = [i \in 1..n |-> <<t, m, i - 1>>]
  BY LimitsAssumption DEF Text, Chunks
<1>2. \A i \in 1..n : <<t, m, i - 1>> \in ChunkNames
  BY LimitsAssumption DEF ChunkNames
<1>3. Text(t, m, n) \in Seq(ChunkNames) /\ Len(Text(t, m, n)) = n
  BY <1>1, <1>2, IsASeq, LimitsAssumption
<1> QED BY <1>3, LimitsAssumption DEF Texts

\* The next chunk makes the next text.
LEMMA TextGrows ==
    ASSUME NEW t \in TurnIds, NEW m \in 1..MaxMessages, NEW n \in 0..MaxChunks, n < MaxChunks
    PROVE  Append(Text(t, m, n), <<t, m, n>>) = Text(t, m, n + 1)
<1>1. Text(t, m, n) \in Seq(ChunkNames) /\ Len(Text(t, m, n)) = n
  BY TextOf DEF Texts
<1>2. Text(t, m, n + 1) \in Seq(ChunkNames) /\ Len(Text(t, m, n + 1)) = n + 1
  BY TextOf, LimitsAssumption DEF Texts
<1>3. <<t, m, n>> \in ChunkNames
  BY DEF ChunkNames
<1> DEFINE longer == Append(Text(t, m, n), <<t, m, n>>)
<1>4. /\ longer \in Seq(ChunkNames) /\ Len(longer) = n + 1
      /\ longer[n + 1] = <<t, m, n>>
      /\ \A i \in 1..n : longer[i] = Text(t, m, n)[i]
  BY <1>1, <1>3, AppendProperties
<1>5. /\ \A i \in 1..n : Text(t, m, n)[i] = <<t, m, i - 1>>
      /\ \A i \in 1..(n + 1) : Text(t, m, n + 1)[i] = <<t, m, i - 1>>
  BY LimitsAssumption DEF Text, Chunks
<1>6. \A i \in 1..(n + 1) : longer[i] = Text(t, m, n + 1)[i]
  <2> TAKE i \in 1..(n + 1)
  <2>1. CASE i = n + 1
    <3>1. longer[i] = <<t, m, n>> /\ i \in 1..(n + 1) /\ n = i - 1
      BY <2>1, <1>4, LimitsAssumption
    <3>2. Text(t, m, n + 1)[i] = <<t, m, i - 1>>
      BY <3>1, <1>5
    <3> QED BY <3>1, <3>2
  <2>2. CASE i # n + 1
    <3>1. i \in 1..n
      BY <2>2, LimitsAssumption
    <3> QED BY <3>1, <1>4, <1>5
  <2> QED BY <2>1, <2>2
<1> HIDE DEF longer
<1>7. longer = Text(t, m, n + 1)
  BY <1>2, <1>4, <1>6, SeqEqual
<1> QED BY <1>7 DEF longer

-----------------------------------------------------------------------------
(* The gateway *)

\* A frame of Publish.
NewFrame(events, i) == [id |-> nextEventId + i - 1, name |-> "finance", event |-> events[i]]

\* The events of one step are messages, or end with the turn that the step leaves.
Reports(events) ==
    /\ events \in Seq(Event)
    /\ \A i \in 1..Len(events) :
          events[i].type = "state" => i = Len(events) /\ events[i].turn = turn'
    /\ turn' = turn \/ (Len(events) > 0 /\ events[Len(events)].type = "state")

\* One sequence behind another.
LEMMA Joined ==
    ASSUME NEW S, NEW s \in Seq(S), NEW t \in Seq(S), NEW u, u = s \o t
    PROVE  /\ u \in Seq(S) /\ Len(u) = Len(s) + Len(t)
           /\ Len(s) \in Nat /\ Len(t) \in Nat
           /\ \A i \in 1..Len(u) : u[i] = IF i <= Len(s) THEN s[i] ELSE t[i - Len(s)]
<1>1. u \in Seq(S) /\ Len(u) = Len(s) + Len(t)
  BY ConcatProperties
<1>2. \A i \in 1..(Len(s) + Len(t)) : u[i] = IF i <= Len(s) THEN s[i] ELSE t[i - Len(s)]
  BY ConcatProperties
<1>3. Len(s) \in Nat /\ Len(t) \in Nat
  BY LenProperties
<1> QED BY <1>1, <1>2, <1>3

\* One event behind others.
LEMMA EventAppended ==
    ASSUME NEW s \in Seq(Event), NEW e \in Event
    PROVE  /\ Append(s, e) \in Seq(Event) /\ Len(Append(s, e)) = Len(s) + 1
           /\ Append(s, e)[Len(s) + 1] = e
           /\ \A i \in 1..Len(s) : Append(s, e)[i] = s[i]
  BY AppendProperties

\* Events behind others.
LEMMA EventsJoined ==
    ASSUME NEW s \in Seq(Event), NEW t \in Seq(Event)
    PROVE  /\ s \o t \in Seq(Event) /\ Len(s \o t) = Len(s) + Len(t)
           /\ \A i \in 1..(Len(s) + Len(t)) :
                 (s \o t)[i] = IF i <= Len(s) THEN s[i] ELSE t[i - Len(s)]
  BY ConcatProperties

\* What Publish leaves: the end of the old buffer with the new events behind it, and
\* on the wire some of the new events behind the old ones, all if it was not cut.
LEMMA PublishEffect ==
    ASSUME Typed, ReplayNumbered, NEW events \in Seq(Event), Publish(events)
    PROVE  /\ GatewayTyped'
           /\ nextEventId' = nextEventId + Len(events)
           /\ Oldest' \in Nat /\ Oldest' >= Oldest /\ Oldest' <= nextEventId'
           /\ ReplayNumbered'
           /\ \A i \in 1..Len(replay) : replay[i].id >= Oldest' =>
                \E j \in 1..Len(replay') : replay'[j] = replay[i]
           /\ \A j \in 1..Len(replay') :
                \/ \E i \in 1..Len(replay) : replay'[j] = replay[i]
                \/ \E i \in 1..Len(events) : replay'[j] = NewFrame(events, i)
           /\ Len(events) > 0 =>
                \E j \in 1..Len(replay') : replay'[j] = NewFrame(events, Len(events))
           /\ \E n \in 0..Len(events) :
                /\ Len(wire') = Len(wire) + n
                /\ \A i \in 1..Len(wire) : wire'[i] = wire[i]
                /\ \A i \in 1..n : wire'[Len(wire) + i] = NewFrame(events, i)
                /\ connection # "live" => n = 0
                /\ connection' = "live" => connection = "live" /\ n = Len(events)
                /\ connection' = "none" => connection = "none"
<1> DEFINE numbered == [i \in 1..Len(events) |-> NewFrame(events, i)]
           all == replay \o numbered
<1>1. /\ nextEventId + Len(events) <= MaxEvents + 1
      /\ nextEventId' = nextEventId + Len(events)
      /\ replay' = Kept(all)
      /\ IF connection = "live"
           THEN \E n \in 0..Len(events) :
                    /\ wire' = wire \o SubSeq(numbered, 1, n)
                    /\ connection' = IF n = Len(events) THEN "live" ELSE "cut"
           ELSE UNCHANGED <<wire, connection>>
  BY DEF Publish, NewFrame
<1>2. Len(events) \in Nat /\ \A i \in 1..Len(events) : events[i] \in Event
  BY LenProperties, ElementOfSeq
<1>3. /\ nextEventId \in 1..(MaxEvents + 1) /\ MaxEvents \in Nat /\ ReplayLimit \in Nat \ {0}
      /\ replay \in Seq(Frame) /\ Len(replay) \in Nat /\ Len(replay) <= ReplayLimit
      /\ wire \in Seq(Frame) /\ Len(wire) \in Nat
      /\ connection \in {"none", "live", "cut"}
  BY LimitsAssumption, LenProperties DEF Typed, GatewayTyped
<1>4. \A i \in 1..Len(events) : NewFrame(events, i) \in Frame
  BY <1>1, <1>2, <1>3 DEF NewFrame, Frame
<1>5. numbered \in Seq(Frame) /\ Len(numbered) = Len(events)
      /\ \A i \in 1..Len(events) : numbered[i] = NewFrame(events, i)
  BY <1>2, <1>4, IsASeq
<1> HIDE DEF numbered
<1>6. /\ all \in Seq(Frame) /\ Len(all) = Len(replay) + Len(events)
      /\ \A i \in 1..Len(all) : all[i] = IF i <= Len(replay) THEN replay[i]
                                         ELSE numbered[i - Len(replay)]
  <2>1. replay \in Seq(Frame) /\ numbered \in Seq(Frame)
    BY <1>3, <1>5
  <2>2. PICK u : u = all
    OBVIOUS
  <2>3. u = replay \o numbered
    BY <2>2
  <2>4. /\ u \in Seq(Frame) /\ Len(u) = Len(replay) + Len(numbered)
        /\ \A i \in 1..Len(u) :
              u[i] = IF i <= Len(replay) THEN replay[i] ELSE numbered[i - Len(replay)]
    BY <2>1, <2>3, Joined
  <2> HIDE DEF all
  <2> QED BY <1>5, <2>2, <2>4
<1> HIDE DEF all
<1> DEFINE gone == IF Len(all) <= ReplayLimit THEN 0 ELSE Len(all) - ReplayLimit
<1>7. /\ gone \in 0..Len(all) /\ Len(all) - gone <= ReplayLimit
      /\ Len(all) > 0 => gone < Len(all)
  BY <1>2, <1>3, <1>6
<1>8. /\ replay' \in Seq(Frame) /\ Len(replay') = Len(all) - gone
      /\ \A i \in 1..Len(replay') : replay'[i] = all[gone + i]
  <2>1. CASE Len(all) <= ReplayLimit
    BY <2>1, <1>1, <1>6, <1>3, <1>2 DEF Kept
  <2>2. CASE ~(Len(all) <= ReplayLimit)
    <3>1. replay' = SubSeq(all, gone + 1, Len(all))
      BY <2>2, <1>1, <1>6, <1>3, <1>2 DEF Kept, Last
    <3>2. gone + 1 \in 1..(Len(all) + 1) /\ Len(all) \in Nat /\ gone \in Nat
      BY <2>2, <1>3, <1>6, <1>2
    <3> HIDE DEF gone
    <3>3. \A i \in (gone + 1)..Len(all) : all[i] \in Frame
      BY <3>2, <1>6, ElementOfSeq
    <3> QED BY <3>1, <3>2, <3>3, <1>6, SubSeqProperties
  <2> QED BY <2>1, <2>2
<1> HIDE DEF gone
<1>9. /\ gone \in Nat /\ Len(all) \in Nat /\ Len(replay') \in Nat
      /\ Oldest \in Int /\ Oldest >= 1 /\ Oldest = nextEventId - Len(replay)
      /\ Oldest' = nextEventId' - Len(replay') /\ Oldest' = Oldest + gone
  <2>1. gone \in Nat /\ Len(all) \in Nat /\ Len(replay') \in Nat
    BY <1>2, <1>3, <1>6, <1>7, <1>8
  <2>2. Oldest >= 1 /\ Oldest = nextEventId - Len(replay) /\ Oldest' = nextEventId' - Len(replay')
    BY DEF Oldest, ReplayNumbered
  <2> QED BY <2>1, <2>2, <1>1, <1>2, <1>3, <1>6, <1>8
<1>10. ASSUME NEW k \in 1..Len(all)
       PROVE  all[k].id = Oldest + k - 1 /\ all[k].name = "finance"
  <2>1. CASE k <= Len(replay)
    <3>1. k \in 1..Len(replay) /\ all[k] = replay[k]
      BY <2>1, <1>3, <1>6
    <3> QED BY <3>1 DEF ReplayNumbered
  <2>2. CASE ~(k <= Len(replay))
    <3>1. k - Len(replay) \in 1..Len(events)
      BY <2>2, <1>2, <1>3, <1>6
    <3>2. all[k] = NewFrame(events, k - Len(replay))
      BY <2>2, <3>1, <1>5, <1>6
    <3>3. all[k].id = nextEventId + (k - Len(replay)) - 1 /\ all[k].name = "finance"
      BY <3>2 DEF NewFrame
    <3> QED BY <3>3, <1>3, <1>9
  <2> QED BY <2>1, <2>2
<1>11. \A i \in 1..Len(replay') : gone + i \in 1..Len(all)
  <2> TAKE i \in 1..Len(replay')
  <2>1. Len(replay') = Len(all) - gone
    BY <1>8
  <2> QED BY <2>1, <1>9
<1>12. ReplayNumbered'
  <2>1. ASSUME NEW i \in 1..Len(replay')
        PROVE  replay'[i].id = Oldest' + i - 1 /\ replay'[i].name = "finance"
    <3>1. replay'[i].id = Oldest + (gone + i) - 1 /\ replay'[i].name = "finance"
      BY <1>8, <1>10, <1>11
    <3> QED BY <3>1, <1>9
  <2>2. Oldest' >= 1
    BY <1>9
  <2>3. Len(replay') > 0 \/ nextEventId' = 1
    <3>1. Len(replay) > 0 \/ nextEventId = 1
      BY DEF ReplayNumbered
    <3>2. Len(all) = Len(replay) + Len(events) /\ Len(replay') = Len(all) - gone
      BY <1>6, <1>8
    <3>3. CASE Len(all) > 0
      BY <3>2, <3>3, <1>7, <1>9
    <3>4. CASE ~(Len(all) > 0)
      <4>1. Len(events) = 0 /\ Len(replay) = 0
        BY <3>2, <3>4, <1>2, <1>3
      <4> QED BY <3>1, <4>1, <1>1, <1>3
    <3> QED BY <3>3, <3>4
  <2> QED BY <2>1, <2>2, <2>3 DEF ReplayNumbered
<1>13. ASSUME NEW i \in 1..Len(replay), replay[i].id >= Oldest'
       PROVE  \E j \in 1..Len(replay') : replay'[j] = replay[i]
  <2>1. i \in Nat /\ i <= Len(replay) /\ replay[i].id = Oldest + i - 1
    BY <1>3 DEF ReplayNumbered
  <2>2. Len(all) = Len(replay) + Len(events) /\ Len(replay') = Len(all) - gone
    BY <1>6, <1>8
  <2>3. i > gone
    BY <2>1, <1>9, <1>13
  <2>4. i - gone \in 1..Len(replay') /\ i \in 1..Len(all)
    <3>1. gone \in Nat /\ Len(all) \in Nat /\ Len(replay') \in Nat
      BY <1>9
    <3>2. i <= Len(all)
      BY <2>1, <2>2, <3>1, <1>2, <1>3
    <3> QED BY <2>1, <2>2, <2>3, <3>1, <3>2
  <2>5. gone + (i - gone) = i
    BY <2>1, <1>9
  <2>6. replay'[i - gone] = all[i]
    BY <2>4, <2>5, <1>8
  <2>7. all[i] = replay[i]
    BY <2>1, <2>4, <1>6
  <2> QED BY <2>4, <2>6, <2>7
<1>14. ASSUME NEW k \in 1..Len(all)
       PROVE  \/ \E i \in 1..Len(replay) : all[k] = replay[i]
              \/ \E i \in 1..Len(events) : all[k] = NewFrame(events, i)
  <2>1. CASE k <= Len(replay)
    <3>1. k \in 1..Len(replay) /\ all[k] = replay[k]
      BY <2>1, <1>3, <1>6
    <3> QED BY <3>1
  <2>2. CASE ~(k <= Len(replay))
    <3>1. k - Len(replay) \in 1..Len(events)
      BY <2>2, <1>2, <1>3, <1>6
    <3>2. all[k] = NewFrame(events, k - Len(replay))
      BY <2>2, <3>1, <1>5, <1>6
    <3> QED BY <3>1, <3>2
  <2> QED BY <2>1, <2>2
<1>15. \A j \in 1..Len(replay') :
                \/ \E i \in 1..Len(replay) : replay'[j] = replay[i]
                \/ \E i \in 1..Len(events) : replay'[j] = NewFrame(events, i)
  BY <1>8, <1>11, <1>14
<1>16. ASSUME Len(events) > 0
       PROVE  \E j \in 1..Len(replay') : replay'[j] = NewFrame(events, Len(events))
  <2>1. Len(all) = Len(replay) + Len(events) /\ Len(replay') = Len(all) - gone
    BY <1>6, <1>8
  <2>2. Len(replay') \in 1..Len(replay') /\ gone + Len(replay') = Len(all)
    BY <2>1, <1>2, <1>3, <1>7, <1>9, <1>16
  <2>3. /\ Len(all) \in 1..Len(all) /\ ~(Len(all) <= Len(replay))
        /\ Len(all) - Len(replay) = Len(events) /\ Len(events) \in 1..Len(events)
    BY <2>1, <1>2, <1>3, <1>9, <1>16
  <2>4. replay'[Len(replay')] = all[Len(all)]
    BY <2>2, <1>8
  <2>5. all[Len(all)] = numbered[Len(events)]
    BY <2>3, <1>6
  <2> QED BY <2>2, <2>3, <2>4, <2>5, <1>5
<1>17. \E n \in 0..Len(events) :
                /\ wire' \in Seq(Frame)
                /\ Len(wire') = Len(wire) + n
                /\ \A i \in 1..Len(wire) : wire'[i] = wire[i]
                /\ \A i \in 1..n : wire'[Len(wire) + i] = NewFrame(events, i)
                /\ connection # "live" => n = 0
                /\ connection' = "live" => connection = "live" /\ n = Len(events)
                /\ connection' = "none" => connection = "none"
                /\ connection' \in {"none", "live", "cut"}
  <2>1. CASE connection # "live"
    BY <2>1, <1>1, <1>2, <1>3
  <2>2. CASE connection = "live"
    <3>1. PICK n \in 0..Len(events) :
                    /\ wire' = wire \o SubSeq(numbered, 1, n)
                    /\ connection' = IF n = Len(events) THEN "live" ELSE "cut"
      BY <2>2, <1>1
    <3>2. /\ SubSeq(numbered, 1, n) \in Seq(Frame) /\ Len(SubSeq(numbered, 1, n)) = n
          /\ \A i \in 1..n : SubSeq(numbered, 1, n)[i] = NewFrame(events, i)
      <4>1. \A i \in 1..n : numbered[i] \in Frame
        BY <1>4, <1>5, <1>2
      <4> QED BY <4>1, <1>5, <1>2, SubSeqProperties
    <3>3. /\ wire' \in Seq(Frame) /\ Len(wire') = Len(wire) + n
          /\ \A i \in 1..Len(wire') : wire'[i] = IF i <= Len(wire) THEN wire[i]
                                         ELSE SubSeq(numbered, 1, n)[i - Len(wire)]
      BY <3>1, <3>2, <1>3, ConcatProperties
    <3>4. \A i \in 1..n : Len(wire) + i \in 1..Len(wire') /\ ~(Len(wire) + i <= Len(wire))
                          /\ (Len(wire) + i) - Len(wire) = i
      BY <3>3, <1>3, <1>2
    <3>5. \A i \in 1..Len(wire) : i \in 1..Len(wire') /\ wire'[i] = wire[i]
      BY <3>3, <1>3, <1>2
    <3> QED BY <2>2, <3>1, <3>2, <3>3, <3>4, <3>5
  <2> QED BY <2>1, <2>2
<1>18. GatewayTyped'
  <2>1. nextEventId' \in 1..(MaxEvents + 1)
    BY <1>1, <1>2, <1>3
  <2>2. Len(replay') <= ReplayLimit
    BY <1>7, <1>8
  <2> QED BY <2>1, <2>2, <1>8, <1>17 DEF GatewayTyped
<1>19. Oldest' \in Nat /\ Oldest' >= Oldest /\ Oldest' <= nextEventId'
  <2>1. gone \in Nat /\ Len(replay') \in Nat /\ Oldest \in Nat /\ nextEventId' \in Nat
    <3>1. Oldest \in Nat
      BY <1>9
    <3>2. nextEventId' \in Nat
      BY <1>1, <1>2, <1>3
    <3> QED BY <1>9, <3>1, <3>2
  <2> QED BY <1>9, <2>1
<1> QED BY <1>1, <1>17, <1>18, <1>19, <1>12, <1>13, <1>15, <1>16

\* Tells after the step.
TellsThen(c, t) ==
    c + 1 >= Oldest'
      /\ (\A i \in 1..Len(replay') : replay'[i].id > c => replay'[i].event.type # "state")
       => t = turn'

\* The numbers of the buffer are integers, and the newest is the last one given.
LEMMA Numbers ==
    ASSUME Typed, ReplayNumbered
    PROVE  /\ Oldest \in Nat /\ Oldest >= 1 /\ Oldest <= nextEventId
           /\ nextEventId \in Nat /\ Len(replay) \in Nat /\ Len(wire) \in Nat
           /\ Len(replay) = nextEventId - Oldest
           /\ \A i \in 1..Len(replay) : replay[i] \in Frame /\ replay[i].id \in Nat
           /\ \A i \in 1..Len(wire) : wire[i] \in Frame /\ wire[i].id \in Nat
           /\ page.cursor \in Int /\ page.cursor >= -1
<1>1. /\ nextEventId \in 1..(MaxEvents + 1) /\ MaxEvents \in Nat
      /\ replay \in Seq(Frame) /\ wire \in Seq(Frame)
      /\ page.cursor \in NoCursor..MaxEvents
  BY LimitsAssumption DEF Typed, GatewayTyped, PageTyped, Page
<1>2. Len(replay) \in Nat /\ Len(wire) \in Nat
  BY <1>1, LenProperties
<1>3. (\A i \in 1..Len(replay) : replay[i] \in Frame) /\ (\A i \in 1..Len(wire) : wire[i] \in Frame)
  BY <1>1, ElementOfSeq
<1>4. \A f \in Frame : f.id \in Nat
  BY <1>1 DEF Frame
<1>5. Oldest >= 1 /\ Oldest = nextEventId - Len(replay)
  BY DEF Oldest, ReplayNumbered
<1>6. page.cursor \in Int /\ page.cursor >= -1
  BY <1>1 DEF NoCursor
<1> QED BY <1>1, <1>2, <1>3, <1>4, <1>5, <1>6

\* Who has seen the last event knows the host's turn.
LEMMA LastTells ==
    ASSUME Typed, ReplayNumbered, NEW t, Tells(nextEventId - 1, t)
    PROVE  t = turn
<1>1. \A i \in 1..Len(replay) : ~(replay[i].id > nextEventId - 1)
  BY Numbers DEF ReplayNumbered
<1>2. (nextEventId - 1) + 1 >= Oldest
  BY Numbers
<1> QED BY <1>1, <1>2 DEF Tells

\* Whoever knew the turn knows it after new events too, or they are behind: a state
\* event was kept that they have not seen.
Follows(events, c, t) ==
    \/ c < nextEventId /\ Tells(c, t)
    \/ t = turn'
    \/ c < nextEventId' - 1 /\ Len(events) > 0 /\ events[Len(events)].type = "state"

\* Publishing new events tells no less of the turn than it says.
LEMMA PublishTells ==
    ASSUME Typed, ReplayNumbered, NEW events \in Seq(Event), Publish(events), Reports(events),
           NEW c \in Int, NEW t, Follows(events, c, t)
    PROVE  TellsThen(c, t)
<1>1. Len(events) \in Nat /\ nextEventId \in Nat /\ Oldest \in Nat
  BY Numbers, LenProperties
<1>2. nextEventId' = nextEventId + Len(events) /\ Oldest' \in Nat /\ Oldest' >= Oldest
  BY PublishEffect
<1>3. CASE Len(events) > 0 /\ events[Len(events)].type = "state" /\ c < nextEventId' - 1
  <2>1. PICK j \in 1..Len(replay') : replay'[j] = NewFrame(events, Len(events))
    BY <1>3, PublishEffect
  <2>2. replay'[j].id = nextEventId + Len(events) - 1 /\ replay'[j].event.type = "state"
    BY <1>3, <2>1 DEF NewFrame
  <2>3. replay'[j].id > c
    BY <1>1, <1>2, <1>3, <2>2
  <2> QED BY <2>2, <2>3 DEF TellsThen
<1>4. CASE t = turn'
  BY <1>4 DEF TellsThen
<1>5. CASE c < nextEventId /\ Tells(c, t) /\ ~(Len(events) > 0 /\ events[Len(events)].type = "state")
  <2>1. turn' = turn
    BY <1>5 DEF Reports
  <2>2. SUFFICES ASSUME c + 1 >= Oldest',
                        \A j \in 1..Len(replay') :
                            replay'[j].id > c => replay'[j].event.type # "state"
                 PROVE  t = turn
    BY <2>1 DEF TellsThen
  <2>5. c \in Int /\ Oldest' \in Nat /\ Oldest \in Nat /\ Oldest' >= Oldest /\ c + 1 >= Oldest'
    BY <2>2, <1>1, <1>2
  <2>3. ASSUME NEW i \in 1..Len(replay), replay[i].id > c
        PROVE  replay[i].event.type # "state"
    <3>1. replay[i].id \in Nat
      BY Numbers
    <3>2. replay[i].id >= Oldest'
      BY <3>1, <2>5, <2>3
    <3>3. PICK j \in 1..Len(replay') : replay'[j] = replay[i]
      BY <3>2, PublishEffect
    <3> QED BY <2>2, <2>3, <3>3
  <2>4. c + 1 >= Oldest
    <3>1. Oldest' \in Nat /\ Oldest \in Nat /\ Oldest' >= Oldest
      BY <2>5
    <3>2. c + 1 >= Oldest'
      BY <2>5
    <3> QED BY <3>1, <3>2
  <2> QED BY <2>3, <2>4, <1>5 DEF Tells
<1>6. CASE c < nextEventId /\ Tells(c, t) /\ Len(events) > 0 /\ events[Len(events)].type = "state"
  <2>1. c < nextEventId' - 1
    BY <1>1, <1>2, <1>6
  <2> QED BY <1>3, <1>6, <2>1
<1> QED BY <1>3, <1>4, <1>5, <1>6 DEF Follows

\* A place counted from the first frame and from the last one.
LEMMA Shifted ==
    ASSUME NEW first \in Int, NEW next \in Int, NEW n \in Int, NEW i \in Int,
           first + n - 1 = next - 1
    PROVE  next + (i - n) - 1 = first + i - 1
  OBVIOUS

\* Publishing keeps the numbers in order.
LEMMA PublishNumbers ==
    ASSUME Typed, ReplayNumbered, WireNumbered, NEW events \in Seq(Event), Publish(events),
           UNCHANGED <<page, skipped>>
    PROVE  ReplayNumbered' /\ WireNumbered'
<1>1. /\ Len(events) \in Nat /\ nextEventId \in Nat /\ Len(wire) \in Nat
      /\ page.cursor \in Int /\ page.cursor >= -1
      /\ \A i \in 1..Len(wire) : wire[i].id \in Nat
      /\ nextEventId >= 1
  BY Numbers, LenProperties
<1>2. nextEventId' = nextEventId + Len(events) /\ wire' \in Seq(Frame)
  BY PublishEffect DEF GatewayTyped
<1>3. ReplayNumbered'
  BY PublishEffect
<1>4. PICK n \in 0..Len(events) :
                /\ Len(wire') = Len(wire) + n
                /\ \A i \in 1..Len(wire) : wire'[i] = wire[i]
                /\ \A i \in 1..n : wire'[Len(wire) + i] = NewFrame(events, i)
                /\ connection # "live" => n = 0
                /\ connection' = "live" => connection = "live" /\ n = Len(events)
                /\ connection' = "none" => connection = "none"
  BY PublishEffect
<1>5. n \in Nat /\ n <= Len(events) /\ Len(wire') \in Nat
  BY <1>1, <1>4
<1>6. /\ Len(wire) = 0 <=> wire = <<>>
      /\ Len(wire') = 0 <=> wire' = <<>>
  <2>1. wire \in Seq(Frame) /\ wire' \in Seq(Frame)
    BY PublishEffect DEF Typed, GatewayTyped
  <2> QED BY <2>1, EmptySeq
<1>7. \A i \in 1..n : wire'[Len(wire) + i].id = nextEventId + i - 1
  <2> TAKE i \in 1..n
  <2>1. wire'[Len(wire) + i] = NewFrame(events, i)
    BY <1>4
  <2> QED BY <2>1 DEF NewFrame
<1>8. (connection = "none" => wire = <<>>)'
  BY <1>4, <1>5, <1>6 DEF WireNumbered
<1>9. n > 0 => Reach = nextEventId - 1
  BY <1>4 DEF WireNumbered
<1>10. n > 0 /\ wire = <<>> => page.cursor = nextEventId - 1
  BY <1>9 DEF Reach
<1>11. n > 0 /\ wire # <<>> => wire[Len(wire)].id = nextEventId - 1
  BY <1>9 DEF Reach
<1>12. n > 0 => Reach' = nextEventId + n - 1
  <2>1. n > 0 => wire' # <<>> /\ wire'[Len(wire')].id = nextEventId + n - 1
    BY <1>4, <1>5, <1>6, <1>7
  <2> QED BY <2>1 DEF Reach
<1>13. n = 0 => Reach' = Reach
  BY <1>4, <1>5, <1>6 DEF Reach
<1>14. (connection = "live" => Reach = nextEventId - 1)' /\ (Reach < nextEventId)'
  <2>1. Reach < nextEventId /\ (connection = "live" => Reach = nextEventId - 1)
    BY DEF WireNumbered
  <2>2. Reach \in Int
    <3>1. wire # <<>> => Len(wire) \in 1..Len(wire)
      BY <1>1, <1>6
    <3> QED BY <3>1, <1>1 DEF Reach
  <2>3. /\ connection # "live" => n = 0
        /\ connection' = "live" => connection = "live" /\ n = Len(events)
    BY <1>4
  <2>4. CASE n = 0
    BY <2>1, <2>2, <2>3, <2>4, <1>1, <1>2, <1>5, <1>13
  <2>5. CASE n > 0
    <3>1. Reach' = nextEventId + n - 1
      BY <2>5, <1>12
    <3>2. nextEventId' = nextEventId + Len(events) /\ nextEventId \in Nat /\ Len(events) \in Nat
      BY <1>1, <1>2
    <3> QED BY <2>3, <3>1, <3>2, <1>5
  <2> QED BY <2>4, <2>5, <1>5
<1>15. wire # <<>> => wire'[1] = wire[1]
  BY <1>4, <1>6
<1>16. ASSUME NEW i \in 1..Len(wire')
       PROVE  wire'[i].id = wire'[1].id + i - 1
  <2>1. CASE i \in 1..Len(wire)
    <3>1. wire # <<>> /\ wire'[i] = wire[i] /\ wire[i].id = wire[1].id + i - 1
      BY <2>1, <1>1, <1>4, <1>6 DEF WireNumbered
    <3> QED BY <3>1, <1>15
  <2>2. CASE i \notin 1..Len(wire) /\ wire = <<>>
    <3>1. i \in 1..n /\ 1 \in 1..n /\ Len(wire) = 0
      BY <2>2, <1>4, <1>5, <1>6
    <3>2. wire'[Len(wire) + i].id = nextEventId + i - 1 /\ wire'[Len(wire) + 1].id = nextEventId + 1 - 1
      BY <3>1, <1>7
    <3>3. Len(wire) + i = i /\ Len(wire) + 1 = 1
      BY <3>1
    <3>4. wire'[i].id = nextEventId + i - 1 /\ wire'[1].id = nextEventId + 1 - 1
      BY <3>2, <3>3
    <3> QED BY <3>4, <1>1
  <2>3. CASE i \notin 1..Len(wire) /\ wire # <<>>
    <3>1. i - Len(wire) \in 1..n /\ Len(wire) \in 1..Len(wire) /\ n > 0
      BY <2>3, <1>4, <1>5, <1>6
    <3>2. wire'[i].id = nextEventId + (i - Len(wire)) - 1
      <4>1. wire'[Len(wire) + (i - Len(wire))].id = nextEventId + (i - Len(wire)) - 1
        BY <3>1, <1>7
      <4>2. Len(wire) + (i - Len(wire)) = i
        BY <1>1
      <4> QED BY <4>1, <4>2
    <3>3. wire[Len(wire)].id = nextEventId - 1
      BY <2>3, <3>1, <1>11
    <3>4. wire[Len(wire)].id = wire[1].id + Len(wire) - 1 /\ wire[1].id \in Nat
      <4>1. 1 \in 1..Len(wire)
        BY <3>1
      <4> QED BY <3>1, <4>1, Numbers DEF WireNumbered
    <3>5. wire'[1].id = wire[1].id
      BY <2>3, <1>15
    <3>6. wire[1].id \in Int /\ Len(wire) \in Int /\ nextEventId \in Int /\ i \in Int
      BY <3>4, <1>1
    <3>7. nextEventId + (i - Len(wire)) - 1 = wire[1].id + i - 1
      <4>1. wire[1].id + Len(wire) - 1 = nextEventId - 1
        BY <3>3, <3>4, Zenon
      <4> QED BY <4>1, <3>6, Shifted
    <3> QED BY <3>2, <3>5, <3>7
  <2> QED BY <2>1, <2>2, <2>3
<1>17. (wire # <<>> => /\ page.cursor < wire[1].id
                       /\ \/ wire[1].name = "reset"
                          \/ wire[1].id = page.cursor + 1
                          \/ skipped)'
  <2>1. CASE wire # <<>>
    BY <2>1, <1>15 DEF WireNumbered
  <2>2. CASE wire = <<>> /\ n > 0
    <3>1. 1 \in 1..n /\ Len(wire) = 0
      BY <2>2, <1>5, <1>6
    <3>2. wire'[Len(wire) + 1].id = nextEventId + 1 - 1
      BY <3>1, <1>7
    <3>3. wire'[1].id = nextEventId /\ page.cursor = nextEventId - 1
      BY <3>1, <3>2, <1>1, <1>10, <2>2
    <3>4. page'.cursor = page.cursor
      OBVIOUS
    <3> QED BY <3>3, <3>4, <1>1
  <2>3. CASE wire = <<>> /\ n = 0
    BY <2>3, <1>4, <1>6
  <2> QED BY <2>1, <2>2, <2>3, <1>5
<1>18. (wire # <<>> /\ page.cursor = NoCursor => wire[1].event.type = "state")'
  <2>1. CASE wire # <<>>
    BY <2>1, <1>15 DEF WireNumbered
  <2>2. CASE wire = <<>> /\ n > 0
    <3>1. page.cursor = nextEventId - 1 /\ nextEventId - 1 >= 0
      BY <1>1, <1>10, <2>2
    <3>2. page'.cursor = page.cursor
      OBVIOUS
    <3> QED BY <3>1, <3>2, <1>1 DEF NoCursor
  <2>3. CASE wire = <<>> /\ n = 0
    BY <2>3, <1>4, <1>6
  <2> QED BY <2>1, <2>2, <2>3, <1>5
<1>19. WireNumbered'
  BY <1>8, <1>14, <1>16, <1>17, <1>18 DEF WireNumbered
<1> QED BY <1>3, <1>19

\* Publishing leaves true what the frames say of the host's turn, if the step says
\* with its last event what it makes of the turn.
LEMMA PublishTold ==
    ASSUME Typed, Events, NEW events, Reports(events), Publish(events),
           UNCHANGED <<page, skipped, overtaken>>
    PROVE  ReplayTold' /\ WireTold' /\ PageTold'
<1>1. /\ events \in Seq(Event) /\ Len(events) \in Nat
      /\ nextEventId \in Nat /\ nextEventId >= 1 /\ Len(wire) \in Nat
      /\ page.cursor \in Int
  <2>1. events \in Seq(Event)
    BY DEF Reports
  <2>2. ReplayNumbered
    BY DEF Events
  <2> QED BY <2>1, <2>2, LenProperties, Numbers
<1>2. ReplayNumbered /\ WireNumbered /\ ReplayTold /\ WireTold /\ PageTold
  BY DEF Events
<1>3. nextEventId' = nextEventId + Len(events) /\ nextEventId' \in Nat
  BY <1>1, <1>2, PublishEffect
<1>4. ASSUME NEW c \in Int, NEW t, Follows(events, c, t)
      PROVE  TellsThen(c, t)
  BY <1>1, <1>2, <1>4, PublishTells
<1>5. ASSUME NEW i \in 1..Len(events), NEW t,
             events[i].type = "state" => t = events[i].turn,
             events[i].type # "state" /\ turn' = turn => t = turn
      PROVE  TellsThen(NewFrame(events, i).id, t)
  <2>1. NewFrame(events, i).id = nextEventId + i - 1
    BY DEF NewFrame
  <2>2. nextEventId + i - 1 \in Int
    BY <1>1
  <2>3. CASE events[i].type = "state"
    <3>1. t = turn'
      BY <1>5, <2>3 DEF Reports
    <3> QED BY <1>4, <2>1, <2>2, <3>1 DEF Follows
  <2>4. CASE events[i].type # "state" /\ turn' = turn
    BY <1>4, <1>5, <2>1, <2>2, <2>4 DEF Follows
  <2>5. CASE events[i].type # "state" /\ turn' # turn
    <3>1. Len(events) > 0 /\ events[Len(events)].type = "state"
      BY <2>5 DEF Reports
    <3>2. i < Len(events)
      <4>1. i # Len(events)
        BY <2>5, <3>1
      <4> QED BY <4>1, <1>1
    <3>3. nextEventId + i - 1 < nextEventId' - 1
      BY <3>2, <1>1, <1>3
    <3> QED BY <1>4, <2>1, <2>2, <3>1, <3>3 DEF Follows
  <2> QED BY <2>3, <2>4, <2>5
<1>6. ReplayTold'
  <2>1. SUFFICES ASSUME NEW j \in 1..Len(replay'), replay'[j].event.type = "state"
                 PROVE  TellsThen(replay'[j].id, replay'[j].event.turn)
    BY DEF ReplayTold, Tells, TellsThen
  <2>2. CASE \E i \in 1..Len(replay) : replay'[j] = replay[i]
    <3>1. PICK i \in 1..Len(replay) : replay'[j] = replay[i]
      BY <2>2
    <3>2. Tells(replay[i].id, replay[i].event.turn)
      BY <1>2, <2>1, <3>1 DEF ReplayTold
    <3>3. replay[i].id \in Int /\ replay[i].id < nextEventId
      <4>1. replay[i].id = Oldest + i - 1
        BY <1>2 DEF ReplayNumbered
      <4>2. Oldest \in Nat /\ Len(replay) \in Nat /\ Len(replay) = nextEventId - Oldest
        BY <1>2, Numbers
      <4> QED BY <4>1, <4>2, <1>1
    <3> QED BY <1>4, <3>1, <3>2, <3>3 DEF Follows
  <2>3. CASE \E i \in 1..Len(events) : replay'[j] = NewFrame(events, i)
    <3>1. PICK i \in 1..Len(events) : replay'[j] = NewFrame(events, i)
      BY <2>3
    <3>2. events[i].type = "state" /\ replay'[j].event.turn = events[i].turn
      BY <2>1, <3>1 DEF NewFrame
    <3> QED BY <1>5, <3>1, <3>2
  <2> QED BY <1>1, <1>2, <2>2, <2>3, PublishEffect
<1>7. PICK n \in 0..Len(events) :
                /\ Len(wire') = Len(wire) + n
                /\ \A i \in 1..Len(wire) : wire'[i] = wire[i]
                /\ \A i \in 1..n : wire'[Len(wire) + i] = NewFrame(events, i)
                /\ connection # "live" => n = 0
                /\ connection' = "live" => connection = "live" /\ n = Len(events)
                /\ connection' = "none" => connection = "none"
  BY <1>1, <1>2, PublishEffect
<1>8. n \in Nat /\ n <= Len(events) /\ (Len(wire) = 0 <=> wire = <<>>)
  <2>1. wire \in Seq(Frame)
    BY DEF Typed, GatewayTyped
  <2> QED BY <1>1, <1>7, <2>1, EmptySeq
\* A frame of the new wire, and how the one before it is numbered.
<1>9. ASSUME NEW j \in 1..Len(wire'), j \notin 1..Len(wire)
      PROVE  /\ j - Len(wire) \in 1..n /\ j - Len(wire) \in 1..Len(events)
             /\ wire'[j] = NewFrame(events, j - Len(wire))
  <2>1. j - Len(wire) \in 1..n /\ Len(wire) + (j - Len(wire)) = j
    BY <1>1, <1>7, <1>8, <1>9
  <2>2. wire'[Len(wire) + (j - Len(wire))] = NewFrame(events, j - Len(wire))
    BY <1>7, <2>1
  <2>3. j - Len(wire) \in 1..Len(events)
    BY <2>1, <1>1, <1>8
  <2> QED BY <2>1, <2>2, <2>3
<1>10. ASSUME NEW j \in 1..Len(wire)
       PROVE  wire'[j] = wire[j] /\ wire[j].id \in Int /\ wire[j].id < nextEventId
  <2>1. wire'[j] = wire[j]
    BY <1>7
  <2>2. wire # <<>> /\ Len(wire) \in 1..Len(wire) /\ 1 \in 1..Len(wire)
    BY <1>1, <1>8
  <2>3. wire[Len(wire)].id < nextEventId
    BY <1>2, <2>2 DEF WireNumbered, Reach
  <2>4. /\ wire[j].id = wire[1].id + j - 1 /\ wire[Len(wire)].id = wire[1].id + Len(wire) - 1
        /\ wire[1].id \in Nat
    BY <1>2, <2>2, Numbers DEF WireNumbered
  <2>5. wire[j].id <= wire[Len(wire)].id /\ wire[j].id \in Int
    <3>1. j \in Int /\ j <= Len(wire) /\ Len(wire) \in Int
      BY <1>1
    <3> QED BY <2>4, <3>1
  <2>6. nextEventId \in Int /\ wire[Len(wire)].id \in Int
    BY <2>4, <1>1
  <2> QED BY <2>1, <2>3, <2>5, <2>6
\* What the page knew at the end of a live wire was the host's turn.
<1>11. ASSUME NEW t, n > 0, Tells(Reach, t)
       PROVE  t = turn
  <2>1. Reach = nextEventId - 1
    BY <1>2, <1>7, <1>11 DEF WireNumbered
  <2> QED BY <2>1, <1>2, <1>11, LastTells
<1>12. ASSUME NEW j \in 1..Len(wire'), j \notin 1..Len(wire),
              NEW t, NoState(j, j)', n > 0 => t = turn
       PROVE  TellsThen(wire'[j].id, t)
  <2>1. /\ j - Len(wire) \in 1..n /\ j - Len(wire) \in 1..Len(events)
        /\ wire'[j] = NewFrame(events, j - Len(wire))
    BY <1>9, <1>12
  <2>2. events[j - Len(wire)].type # "state"
    <3>1. wire'[j].event.type # "state"
      BY <1>12 DEF NoState
    <3> QED BY <2>1, <3>1 DEF NewFrame
  <2>3. t = turn
    BY <1>8, <1>12, <2>1
  <2> QED BY <1>5, <2>1, <2>2, <2>3
<1>13. WireTold'
  <2>1. SUFFICES ASSUME NEW i \in 1..Len(wire'), NEW j \in 1..Len(wire'), i <= j,
                        wire'[i].event.type = "state", NoState(i + 1, j)'
                 PROVE  TellsThen(wire'[j].id, wire'[i].event.turn)
    BY DEF WireTold, Tells, TellsThen
  <2>2. CASE j \in 1..Len(wire)
    <3>1. i \in 1..Len(wire) /\ wire'[i] = wire[i] /\ wire'[j] = wire[j]
      BY <1>1, <1>10, <2>1, <2>2
    <3>2. NoState(i + 1, j)
      <4>1. \A l \in (i + 1)..j : l \in 1..Len(wire)
        BY <1>1, <2>1, <2>2
      <4> QED BY <2>1, <4>1, <1>10 DEF NoState
    <3>3. Tells(wire[j].id, wire[i].event.turn)
      BY <1>2, <2>1, <2>2, <3>1, <3>2 DEF WireTold
    <3> QED BY <1>4, <1>10, <2>2, <3>1, <3>3 DEF Follows
  <2>3. CASE j \notin 1..Len(wire) /\ i = j
    <3>1. j - Len(wire) \in 1..Len(events) /\ wire'[j] = NewFrame(events, j - Len(wire))
      BY <1>9, <2>3
    <3>2. events[j - Len(wire)].type = "state" /\ wire'[i].event.turn = events[j - Len(wire)].turn
      BY <2>1, <2>3, <3>1 DEF NewFrame
    <3> QED BY <1>5, <3>1, <3>2
  <2>4. CASE j \notin 1..Len(wire) /\ i < j
    <3>1. NoState(j, j)'
      BY <2>1, <2>4 DEF NoState
    <3>2. CASE i \notin 1..Len(wire)
      \* A state event is the last one of its step.
      <4>1. /\ i - Len(wire) \in 1..Len(events) /\ wire'[i] = NewFrame(events, i - Len(wire))
            /\ j - Len(wire) \in 1..Len(events)
        BY <1>9, <2>4, <3>2
      <4>2. events[i - Len(wire)].type = "state"
        BY <2>1, <4>1 DEF NewFrame
      <4>3. i - Len(wire) = Len(events)
        BY <4>1, <4>2 DEF Reports
      <4> QED BY <1>1, <2>4, <4>1, <4>3
    <3>3. CASE i \in 1..Len(wire)
      <4>1. wire # <<>> /\ Len(wire) \in 1..Len(wire) /\ i <= Len(wire) /\ wire'[i] = wire[i]
        BY <1>1, <1>8, <1>10, <3>3
      <4>2. NoState(i + 1, Len(wire))
        <5>1. \A l \in (i + 1)..Len(wire) : l \in 1..Len(wire) /\ l \in (i + 1)..j
          BY <1>1, <2>4, <3>3
        <5> QED BY <2>1, <5>1, <1>10 DEF NoState
      <4>3. Tells(wire[Len(wire)].id, wire[i].event.turn)
        BY <1>2, <2>1, <3>3, <4>1, <4>2 DEF WireTold
      <4>4. n > 0 => wire[i].event.turn = turn
        BY <4>1, <4>3, <1>11 DEF Reach
      <4> QED BY <1>12, <2>4, <3>1, <4>1, <4>4
    <3> QED BY <3>2, <3>3
  <2> QED BY <2>1, <2>2, <2>3, <2>4
<1>14. PageTold'
  <2>1. CASE skipped \/ overtaken
    BY <2>1 DEF PageTold
  <2>2. CASE ~(skipped \/ overtaken)
    <3>1. /\ Tells(page.cursor, page.turn)
          /\ \A j \in 1..Len(wire) : NoState(1, j) => Tells(wire[j].id, page.turn)
      BY <1>2, <2>2 DEF PageTold
    <3>2. page.cursor < nextEventId
      <4>1. CASE wire = <<>>
        BY <1>2, <4>1 DEF WireNumbered, Reach
      <4>2. CASE wire # <<>>
        <5>1. 1 \in 1..Len(wire) /\ page.cursor < wire[1].id
          BY <1>1, <1>2, <1>8, <4>2 DEF WireNumbered
        <5> QED BY <5>1, <1>1, <1>10
      <4> QED BY <4>1, <4>2
    <3>3. TellsThen(page.cursor, page.turn)
      BY <1>1, <1>4, <3>1, <3>2 DEF Follows
    <3>4. ASSUME NEW j \in 1..Len(wire'), NoState(1, j)'
          PROVE  TellsThen(wire'[j].id, page.turn)
      <4>1. CASE j \in 1..Len(wire)
        <5>1. \A l \in 1..j : l \in 1..Len(wire)
          BY <1>1, <4>1
        <5>2. NoState(1, j)
          BY <3>4, <5>1, <1>10 DEF NoState
        <5>3. Tells(wire[j].id, page.turn)
          BY <3>1, <4>1, <5>2
        <5> QED BY <1>4, <1>10, <4>1, <5>3 DEF Follows
      <4>2. CASE j \notin 1..Len(wire)
        <5>1. \A l \in 1..Len(wire) : l \in 1..j
          BY <1>1, <4>2
        <5>2. NoState(1, Len(wire))
          BY <3>4, <5>1, <1>10 DEF NoState
        <5>3. Tells(Reach, page.turn)
          <6>1. wire # <<>> => Len(wire) \in 1..Len(wire)
            BY <1>1, <1>8
          <6> QED BY <3>1, <5>2, <6>1 DEF Reach
        <5>4. n > 0 => page.turn = turn
          BY <5>3, <1>11
        <5>5. NoState(j, j)'
          BY <3>4 DEF NoState
        <5> QED BY <1>12, <4>2, <5>4, <5>5
      <4> QED BY <4>1, <4>2
    <3> QED BY <3>3, <3>4 DEF PageTold, Tells, TellsThen
  <2> QED BY <2>1, <2>2
<1> QED BY <1>6, <1>13, <1>14

-----------------------------------------------------------------------------
(* Steps of the host *)

\* What the host has done with stays so, and what is stored stays as it is.
Stable ==
    \A t \in TurnIds :
        /\ Over(t) => Over(t)'
        /\ rows[t].status = "completed" => rows'[t] = rows[t]

\* The messages of new events are of a turn that the host has not done with; the
\* completions are of a turn it now has done with, and of different stored messages.
EventsFit(events) ==
    \A i \in 1..Len(events) :
        /\ events[i].type # "state" => ~Over(events[i].key[1])
        /\ events[i].type = "chunk" =>
              /\ events[i].key = <<events[i].chunk[1], events[i].chunk[2]>>
              /\ events[i].chunk[3] < MaxChunks
        /\ events[i].type = "completed" =>
              /\ Over(events[i].key[1])'
              /\ StoredAs(events[i].key, events[i].digest)'
              /\ \A j \in (i + 1)..Len(events) :
                    events[j].type # "state" => events[j].key # events[i].key

\* The key of a message names its turn.
LEMMA KeyTurn ==
    ASSUME NEW k \in Keys
    PROVE  k[1] \in TurnIds /\ k[2] \in 1..MaxMessages /\ k = <<k[1], k[2]>>
  BY DEF Keys

\* What an event of each type holds.
LEMMA EventKey ==
    ASSUME NEW e \in Event
    PROVE  /\ e.type \in {"state", "started", "chunk", "completed"}
           /\ e.type = "state" => e.turn \in Turns
           /\ e.type # "state" => e.key \in Keys
           /\ e.type = "chunk" => e.chunk \in ChunkNames
           /\ e.type = "completed" => e.digest \in Texts
  BY DEF Event

\* The frames on the wire and in the buffer are earlier ones.
LEMMA SentEarlier ==
    ASSUME Typed, ReplayNumbered, WireNumbered, NEW f \in Sent
    PROVE  f \in Frame /\ f.id \in Nat /\ f.id < nextEventId
<1>1. /\ nextEventId \in Nat /\ Len(replay) \in Nat /\ Len(wire) \in Nat /\ Oldest \in Nat
      /\ Len(replay) = nextEventId - Oldest
  BY Numbers
<1>2. CASE \E i \in 1..Len(replay) : f = replay[i]
  <2>1. PICK i \in 1..Len(replay) : f = replay[i]
    BY <1>2
  <2>2. f \in Frame /\ f.id \in Nat /\ f.id = Oldest + i - 1
    BY <2>1, Numbers DEF ReplayNumbered
  <2> QED BY <1>1, <2>1, <2>2
<1>3. CASE \E i \in 1..Len(wire) : f = wire[i]
  <2>1. PICK i \in 1..Len(wire) : f = wire[i]
    BY <1>3
  <2>2. wire # <<>> /\ Len(wire) \in 1..Len(wire) /\ 1 \in 1..Len(wire)
    <3>1. wire \in Seq(Frame)
      BY DEF Typed, GatewayTyped
    <3> QED BY <2>1, <3>1, <1>1, EmptySeq
  <2>3. wire[Len(wire)].id < nextEventId
    BY <2>2 DEF WireNumbered, Reach
  <2>4. f \in Frame /\ f.id \in Nat /\ wire[1].id \in Nat
    BY <2>1, <2>2, Numbers
  <2>5. f.id = wire[1].id + i - 1 /\ wire[Len(wire)].id = wire[1].id + Len(wire) - 1
    BY <2>1, <2>2 DEF WireNumbered
  <2> QED BY <1>1, <2>3, <2>4, <2>5
<1> QED BY <1>2, <1>3 DEF Sent

\* After Publish a frame is an earlier one or a new one.
LEMMA PublishSent ==
    ASSUME Typed, ReplayNumbered, NEW events \in Seq(Event), Publish(events), NEW f \in Sent'
    PROVE  f \in Sent \/ \E i \in 1..Len(events) : f = NewFrame(events, i)
<1>1. CASE \E j \in 1..Len(replay') : f = replay'[j]
  <2>1. PICK j \in 1..Len(replay') : f = replay'[j]
    BY <1>1
  <2>2. \/ \E i \in 1..Len(replay) : replay'[j] = replay[i]
        \/ \E i \in 1..Len(events) : replay'[j] = NewFrame(events, i)
    BY PublishEffect
  <2> QED BY <2>1, <2>2 DEF Sent
<1>2. CASE \E j \in 1..Len(wire') : f = wire'[j]
  <2>1. PICK j \in 1..Len(wire') : f = wire'[j]
    BY <1>2
  <2>2. PICK n \in 0..Len(events) :
                /\ Len(wire') = Len(wire) + n
                /\ \A i \in 1..Len(wire) : wire'[i] = wire[i]
                /\ \A i \in 1..n : wire'[Len(wire) + i] = NewFrame(events, i)
    BY PublishEffect
  <2>3. Len(wire) \in Nat /\ Len(events) \in Nat
    BY Numbers, LenProperties
  <2>4. CASE j \in 1..Len(wire)
    BY <2>1, <2>2, <2>4 DEF Sent
  <2>5. CASE j \notin 1..Len(wire)
    <3>1. /\ j - Len(wire) \in 1..n /\ j - Len(wire) \in 1..Len(events)
          /\ Len(wire) + (j - Len(wire)) = j
      BY <2>2, <2>3, <2>5
    <3>2. wire'[Len(wire) + (j - Len(wire))] = NewFrame(events, j - Len(wire))
      BY <2>2, <3>1
    <3> QED BY <2>1, <3>1, <3>2
  <2> QED BY <2>4, <2>5
<1> QED BY <1>1, <1>2 DEF Sent

\* The key of a frame about a message.
LEMMA FrameKey ==
    ASSUME NEW f \in Frame, f.event.type # "state"
    PROVE  f.event.key \in Keys /\ f.event.key[1] \in TurnIds
<1>1. f.event \in Event
  BY DEF Frame
<1> QED BY <1>1, EventKey, KeyTurn

\* What is said of the messages outlasts a step of the host that publishes.
LEMMA PublishAnswers ==
    ASSUME Typed, Events, Answers, Stable, NEW events \in Seq(Event), EventsFit(events),
           Publish(events), page' = page
    PROVE  FramesFit' /\ StreamsFit' /\ ShownFits'
<1>1. ReplayNumbered /\ WireNumbered /\ FramesFit /\ StreamsFit /\ ShownFits
  BY DEF Events, Answers
<1>2. nextEventId \in Nat /\ Len(events) \in Nat
  BY <1>1, Numbers, LenProperties
<1>3. ASSUME NEW f \in Sent
      PROVE  f \in Frame /\ f.id \in Nat /\ f.id < nextEventId
  BY <1>1, <1>3, SentEarlier
<1>4. ASSUME NEW i \in 1..Len(events)
      PROVE  /\ NewFrame(events, i).id = nextEventId + i - 1
             /\ NewFrame(events, i).id \in Nat /\ NewFrame(events, i).id >= nextEventId
             /\ NewFrame(events, i).event = events[i]
             /\ events[i] \in Event
             /\ events[i].type # "state" => events[i].key \in Keys /\ events[i].key[1] \in TurnIds
  <2>1. /\ NewFrame(events, i).id = nextEventId + i - 1
        /\ NewFrame(events, i).event = events[i]
    BY DEF NewFrame
  <2>2. nextEventId + i - 1 \in Nat /\ nextEventId + i - 1 >= nextEventId
    BY <1>2
  <2>3. events[i] \in Event
    BY ElementOfSeq
  <2> QED BY <2>1, <2>2, <2>3, EventKey, KeyTurn
<1>5. ASSUME NEW f \in Sent'
      PROVE  f \in Sent \/ \E i \in 1..Len(events) : f = NewFrame(events, i)
  BY <1>1, <1>5, PublishSent
<1>6. ASSUME NEW k \in Keys, NEW text, StoredAs(k, text)
      PROVE  StoredAs(k, text)'
  BY <1>6, KeyTurn DEF Stable, StoredAs
<1>7. ASSUME NEW k \in Keys, Over(k[1]), NEW i \in 1..Len(events)
      PROVE  ~About(NewFrame(events, i), k)
  BY <1>4, <1>7 DEF EventsFit, About
<1>8. ASSUME NEW f \in Sent', f.event.type = "chunk"
      PROVE  /\ f.event.key = <<f.event.chunk[1], f.event.chunk[2]>>
             /\ f.event.chunk[3] < MaxChunks
  <2>1. CASE f \in Sent
    BY <1>1, <1>8, <2>1 DEF FramesFit
  <2>2. ASSUME NEW i \in 1..Len(events), f = NewFrame(events, i)
        PROVE  /\ f.event.key = <<f.event.chunk[1], f.event.chunk[2]>>
               /\ f.event.chunk[3] < MaxChunks
    BY <1>4, <1>8, <2>2 DEF EventsFit
  <2> QED BY <1>5, <2>1, <2>2
<1>9. ASSUME NEW f \in Sent', f.event.type = "completed"
      PROVE  /\ Over(f.event.key[1])'
             /\ StoredAs(f.event.key, f.event.digest)'
             /\ \A g \in Sent' : g.id > f.id => ~About(g, f.event.key)
  <2>1. CASE f \in Sent
    <3>1. /\ Over(f.event.key[1]) /\ StoredAs(f.event.key, f.event.digest)
          /\ \A g \in Sent : g.id > f.id => ~About(g, f.event.key)
      BY <1>1, <1>9, <2>1 DEF FramesFit
    <3>2. f.event.key \in Keys /\ f.event.key[1] \in TurnIds
      BY <1>3, <1>9, <2>1, FrameKey
    <3>3. Over(f.event.key[1])' /\ StoredAs(f.event.key, f.event.digest)'
      BY <1>6, <3>1, <3>2 DEF Stable
    <3>4. ASSUME NEW g \in Sent', g.id > f.id
          PROVE  ~About(g, f.event.key)
      BY <1>5, <1>7, <3>1, <3>2, <3>4
    <3> QED BY <3>3, <3>4
  <2>2. ASSUME NEW i \in 1..Len(events), f = NewFrame(events, i)
        PROVE  /\ Over(f.event.key[1])'
               /\ StoredAs(f.event.key, f.event.digest)'
               /\ \A g \in Sent' : g.id > f.id => ~About(g, f.event.key)
    <3>1. f.event = events[i] /\ f.id = nextEventId + i - 1 /\ f.id >= nextEventId /\ f.id \in Nat
      BY <1>4, <2>2
    <3>2. /\ Over(events[i].key[1])' /\ StoredAs(events[i].key, events[i].digest)'
          /\ \A j \in (i + 1)..Len(events) :
                    events[j].type # "state" => events[j].key # events[i].key
      BY <1>9, <3>1 DEF EventsFit
    <3>3. ASSUME NEW g \in Sent', g.id > f.id
          PROVE  ~About(g, f.event.key)
      <4>1. g \notin Sent
        BY <1>2, <1>3, <3>1, <3>3
      <4>2. PICK j \in 1..Len(events) : g = NewFrame(events, j)
        BY <1>5, <4>1
      <4>3. g.id = nextEventId + j - 1 /\ g.event = events[j]
        BY <1>4, <4>2
      <4>4. j \in (i + 1)..Len(events)
        BY <1>2, <3>1, <3>3, <4>3
      <4> QED BY <3>1, <3>2, <4>3, <4>4 DEF About
    <3> QED BY <3>1, <3>2, <3>3
  <2> QED BY <1>5, <2>1, <2>2
<1>10. FramesFit'
  BY <1>8, <1>9 DEF FramesFit
<1>11. StreamsFit'
  BY <1>1 DEF StreamsFit
<1>12. ShownFits'
  <2>1. SUFFICES ASSUME NEW k \in DOMAIN page.shown
                 PROVE  /\ IsBeginning(k, page.shown[k].text)
                        /\ k \in DOMAIN page.streams =>
                              \/ page.shown[k].status = "streaming"
                                 /\ page.shown[k].text = page.streams[k]
                              \/ page.shown[k].status = "failed" /\ Heard(k)'
                        /\ page.shown[k].status = "complete" => StoredAs(k, page.shown[k].text)'
    BY DEF ShownFits
  <2>2. k \in Keys
    BY <2>1 DEF Typed, PageTyped, Page
  <2>3. ASSUME Heard(k)
        PROVE  Heard(k)'
    <3>1. Over(k[1])'
      BY <2>2, <2>3, KeyTurn DEF Stable, Heard
    <3>2. ASSUME NEW f \in Sent', f.id > page.cursor
          PROVE  ~About(f, k)
      <4>1. CASE f \in Sent
        BY <2>3, <3>2, <4>1 DEF Heard
      <4>2. CASE f \notin Sent
        BY <1>5, <1>7, <2>2, <2>3, <4>2 DEF Heard
      <4> QED BY <4>1, <4>2
    <3> QED BY <3>1, <3>2 DEF Heard
  <2> QED BY <1>1, <1>6, <2>2, <2>3 DEF ShownFits
<1> QED BY <1>10, <1>11, <1>12

\* A step of the host that publishes what it does.
LEMMA PublishStep ==
    ASSUME IInv, NEW events, Reports(events), EventsFit(events), Stable, Publish(events),
           UNCHANGED <<page, history>>, HostTyped', HostFits', PageTyped'
    PROVE  IInv'
<1>1. events \in Seq(Event)
  BY DEF Reports
<1>2. Typed /\ Events /\ Answers /\ ReplayNumbered /\ WireNumbered
  BY DEF IInv, Events
<1>3. UNCHANGED <<page, skipped, overtaken>>
  BY DEF history
<1>4. GatewayTyped'
  BY <1>1, <1>2, PublishEffect
<1>5. ReplayNumbered' /\ WireNumbered'
  BY <1>1, <1>2, <1>3, PublishNumbers
<1>6. ReplayTold' /\ WireTold' /\ PageTold'
  BY <1>2, <1>3, PublishTold
<1>7. FramesFit' /\ StreamsFit' /\ ShownFits'
  BY <1>1, <1>2, <1>3, PublishAnswers
<1> QED BY <1>4, <1>5, <1>6, <1>7 DEF IInv, Typed, Events, Answers

\* A step that sends nothing, and leaves the turn and what the page shows.
LEMMA QuietStep ==
    ASSUME IInv, Stable, UNCHANGED <<gatewayVars, turn, history>>,
           page'.turn = page.turn, page'.cursor = page.cursor,
           page'.streams = page.streams, page'.shown = page.shown,
           HostTyped', HostFits', PageTyped'
    PROVE  IInv'
<1>1. Typed /\ Events /\ Answers
  BY DEF IInv
<1>2. /\ nextEventId' = nextEventId /\ replay' = replay /\ connection' = connection
      /\ wire' = wire /\ skipped' = skipped /\ overtaken' = overtaken /\ turn' = turn
  BY DEF gatewayVars, history
<1>3. Typed'
  BY <1>1, <1>2 DEF Typed, GatewayTyped
<1>4. Oldest' = Oldest
  BY <1>2 DEF Oldest
<1>5. ReplayNumbered' /\ WireNumbered'
  <2>1. ReplayNumbered'
    BY <1>1, <1>2, <1>4 DEF Events, ReplayNumbered
  <2>2. Reach' = Reach
    BY <1>2 DEF Reach
  <2>3. WireNumbered'
    BY <1>1, <1>2, <2>2 DEF Events, WireNumbered
  <2> QED BY <2>1, <2>3
<1>6. ReplayTold' /\ WireTold' /\ PageTold'
  BY <1>1, <1>2, <1>4 DEF Events, ReplayTold, WireTold, PageTold, Tells, NoState
<1>7. Sent' = Sent
  BY <1>2 DEF Sent
<1>8. ASSUME NEW k \in Keys, NEW text, StoredAs(k, text)
      PROVE  StoredAs(k, text)'
  BY <1>8, KeyTurn DEF Stable, StoredAs
<1>9. FramesFit'
  <2>1. SUFFICES ASSUME NEW f \in Sent
                 PROVE  /\ f.event.type = "chunk" =>
                              /\ f.event.key = <<f.event.chunk[1], f.event.chunk[2]>>
                              /\ f.event.chunk[3] < MaxChunks
                        /\ f.event.type = "completed" =>
                              /\ Over(f.event.key[1])'
                              /\ StoredAs(f.event.key, f.event.digest)'
                              /\ \A g \in Sent : g.id > f.id => ~About(g, f.event.key)
    BY <1>7 DEF FramesFit
  <2>2. FramesFit
    BY <1>1 DEF Answers
  <2>3. ASSUME f.event.type = "completed"
        PROVE  f.event.key \in Keys /\ f.event.key[1] \in TurnIds
    <3>1. f \in Frame
      BY <1>1, SentEarlier DEF Events
    <3> QED BY <2>3, <3>1, FrameKey
  <2> QED BY <2>2, <2>3, <1>8 DEF FramesFit, Stable
<1>10. StreamsFit'
  BY <1>1 DEF Answers, StreamsFit
<1>11. ShownFits'
  <2>1. SUFFICES ASSUME NEW k \in DOMAIN page.shown
                 PROVE  /\ IsBeginning(k, page.shown[k].text)
                        /\ k \in DOMAIN page.streams =>
                              \/ page.shown[k].status = "streaming"
                                 /\ page.shown[k].text = page.streams[k]
                              \/ page.shown[k].status = "failed" /\ Heard(k)'
                        /\ page.shown[k].status = "complete" => StoredAs(k, page.shown[k].text)'
    BY DEF ShownFits
  <2>2. k \in Keys
    BY <1>1, <2>1 DEF Typed, PageTyped, Page
  <2>3. Heard(k) => Heard(k)'
    BY <1>7, <2>2, KeyTurn DEF Heard, Stable
  <2> QED BY <1>1, <1>8, <2>2, <2>3 DEF Answers, ShownFits
<1> QED BY <1>1, <1>3, <1>5, <1>6, <1>9, <1>10, <1>11 DEF IInv, Events, Answers

\* The numbers of the host's and the page's turns.
LEMMA TurnNumbers ==
    ASSUME IInv
    PROVE  /\ turn \in Turns /\ turn.id \in 0..MaxTurns /\ turn.status \in Statuses
           /\ request \in 0..MaxTurns /\ page.asked \in 0..MaxTurns
           /\ saving.turn \in 0..MaxTurns
           /\ rows \in [TurnIds -> Row]
           /\ TurnIds = 1..MaxTurns /\ MaxTurns \in Nat
           /\ HostTyped /\ HostFits /\ PageTyped
  BY LimitsAssumption DEF IInv, Typed, HostTyped, PageTyped, Page, Turns, TurnIds, Answers

\* The event of a state change says what it should.
LEMMA SaysTurn ==
    ASSUME turn' \in Turns, NEW events, events = <<StateChanged(turn')>>
    PROVE  Reports(events) /\ EventsFit(events)
<1>1. StateChanged(turn') \in Event
  BY DEF StateChanged, Event
<1>2. events \in Seq(Event) /\ Len(events) = 1 /\ events[1] = StateChanged(turn')
  BY <1>1
<1>3. events[1].type = "state" /\ events[1].turn = turn'
  BY <1>2 DEF StateChanged
<1> QED BY <1>2, <1>3 DEF Reports, EventsFit

\* A turn is begun, of those the page asked for the one that has no row yet.
LEMMA TurnStartStep ==
    ASSUME IInv, TurnStart
    PROVE  IInv'
<1>1. /\ request # 0 /\ ~IsTurnActive(turn)
      /\ turn' = [id |-> request, status |-> "starting"]
      /\ rows' = [rows EXCEPT ![request].status = "reserved"]
      /\ Publish(<<StateChanged(turn')>>)
      /\ request' = 0
      /\ UNCHANGED <<projector, saving, answer, page, bounds, history>>
  BY DEF TurnStart
<1>2. request \in TurnIds /\ request = page.asked /\ rows[request].status = "none"
  BY <1>1, TurnNumbers DEF HostFits
<1>3. turn' \in Turns /\ turn'.id = request
  BY <1>1, TurnNumbers DEF Turns, Statuses
<1>4. rows' \in [TurnIds -> Row] /\ \A t \in TurnIds : t # request => rows'[t] = rows[t]
  <2>1. [rows[request] EXCEPT !.status = "reserved"] \in Row
    BY <1>2, TurnNumbers DEF Row
  <2>2. rows' = [rows EXCEPT ![request] = [rows[request] EXCEPT !.status = "reserved"]]
    BY <1>1
  <2> QED BY <1>2, <2>1, <2>2, TurnNumbers
<1>5. Stable
  <2>1. SUFFICES ASSUME NEW t \in TurnIds
                 PROVE  /\ Over(t) => Over(t)'
                        /\ rows[t].status = "completed" => rows'[t] = rows[t]
    BY DEF Stable
  <2>2. t # 0
    BY TurnNumbers
  <2> QED BY <1>1, <1>2, <1>3, <1>4, <2>2 DEF Over
<1>6. HostTyped'
  BY <1>1, <1>3, <1>4, TurnNumbers DEF HostTyped
<1>7. HostFits'
  <2>1. HostFits
    BY TurnNumbers
  <2>2. turn'.id # 0 /\ turn'.id # request' /\ turn'.id <= page.asked
    BY <1>1, <1>2, <1>3, TurnNumbers
  <2>3. \A t \in TurnIds : t > page.asked \/ t = request' => rows'[t].status = "none"
    BY <1>1, <1>2, <1>4, <2>1, TurnNumbers DEF HostFits
  <2> QED BY <1>1, <2>1, <2>2, <2>3 DEF HostFits
<1>8. PageTyped'
  BY <1>1, TurnNumbers DEF PageTyped, bounds, history
<1>9. PICK events : events = <<StateChanged(turn')>>
  OBVIOUS
<1>10. Reports(events) /\ EventsFit(events) /\ Publish(events)
  BY <1>1, <1>3, <1>9, SaysTurn
<1> QED BY <1>1, <1>5, <1>6, <1>7, <1>8, <1>10, PublishStep

\* A request that is refused is not the host's turn, and takes no row.
LEMMA TurnRefusedStep ==
    ASSUME IInv, TurnRefused
    PROVE  IInv'
<1>1. /\ request # 0 /\ Answer(request, Error) /\ request' = 0
      /\ UNCHANGED <<hostVars, gatewayVars, page, bounds, history>>
  BY DEF TurnRefused
<1>2. UNCHANGED <<turn, projector, saving, rows>>
  BY <1>1 DEF hostVars
<1>3. answer' \in Turns \cup {Error, NoAnswer}
  BY <1>1, TurnNumbers DEF Answer, HostTyped
<1>4. HostTyped' /\ PageTyped'
  BY <1>1, <1>2, <1>3, TurnNumbers DEF HostTyped, PageTyped, bounds, history
<1>5. HostFits'
  BY <1>1, <1>2, TurnNumbers DEF HostFits
<1>6. Stable
  BY <1>1, <1>2, TurnNumbers DEF Stable, Over
<1> QED BY <1>1, <1>2, <1>4, <1>5, <1>6, QuietStep

\* A step that gives the active turn another status, and fails its row at most.
Changes(s) ==
    /\ turn' = [turn EXCEPT !.status = s]
    /\ rows' = rows \/ RowFails(turn.id)
    /\ saving' = saving \/ saving' = [saving EXCEPT !.shown = FALSE] \/ saving' = NotSaving
    /\ \/ projector' = projector \/ projector' = NoProjector
       \/ projector' = NewProjector(turn.id)
    /\ answer' = answer \/ Answer(turn.id, turn') \/ Answer(turn.id, Error)
    /\ UNCHANGED <<request, page, bounds, history>>
    /\ Publish(<<StateChanged(turn')>>)

\* Such a step keeps the invariant.
LEMMA TurnChanges ==
    ASSUME IInv, IsTurnActive(turn), NEW s \in Statuses, Changes(s)
    PROVE  IInv'
<1>1. /\ UNCHANGED <<request, page, bounds, history>> /\ Publish(<<StateChanged(turn')>>)
      /\ request' = request /\ page' = page
  BY DEF Changes
<1>2. turn' \in Turns /\ turn'.id = turn.id /\ turn'.status = s
  BY TurnNumbers DEF Turns, Changes
<1>3. turn.id \in TurnIds /\ turn.id <= page.asked /\ turn.id # request
  BY TurnNumbers DEF HostFits
<1>4. /\ rows' \in [TurnIds -> Row]
      /\ \A t \in TurnIds : rows'[t] = rows[t] \/ (t = turn.id /\ rows[t].status = "reserved")
  <2>0. rows \in [TurnIds -> Row]
    BY TurnNumbers
  <2>3. rows' = rows \/ RowFails(turn.id)
    BY DEF Changes
  <2>1. CASE rows' = rows
    BY <2>0, <2>1
  <2>2. CASE rows' # rows
    <3>1. PICK r \in {"failed", "reserved"} :
              rows' = IF rows[turn.id].status = "reserved"
                        THEN [rows EXCEPT ![turn.id].status = r] ELSE rows
      BY <2>3, <2>2 DEF RowFails
    <3>2. /\ rows' = [rows EXCEPT ![turn.id] = [rows[turn.id] EXCEPT !.status = r]]
          /\ rows[turn.id].status = "reserved"
      BY <2>2, <3>1
    <3>3. [rows[turn.id] EXCEPT !.status = r] \in Row
      BY <1>3, <2>0 DEF Row
    <3>4. rows' \in [TurnIds -> Row]
      BY <1>3, <2>0, <3>2, <3>3
    <3>5. \A t \in TurnIds : t # turn.id => rows'[t] = rows[t]
      BY <2>0, <3>2
    <3> QED BY <3>2, <3>4, <3>5
  <2> QED BY <2>1, <2>2
<1>5. Stable
  BY <1>1, <1>2, <1>4 DEF Stable, Over
<1>6. saving' \in [turn : 0..MaxTurns, texts : Seq(Texts), shown : BOOLEAN]
      /\ \/ saving'.turn = 0 /\ saving'.texts = <<>>
         \/ saving'.turn = saving.turn /\ saving'.texts = saving.texts
  <2>1. saving \in [turn : 0..MaxTurns, texts : Seq(Texts), shown : BOOLEAN]
    BY TurnNumbers DEF HostTyped
  <2>5. 0 \in 0..MaxTurns /\ <<>> \in Seq(Texts)
    BY TurnNumbers, EmptySeq
  <2>2. saving' = saving \/ saving' = [saving EXCEPT !.shown = FALSE] \/ saving' = NotSaving
    BY DEF Changes
  <2>3. CASE saving' = NotSaving
    BY <2>5, <2>3 DEF NotSaving
  <2>4. CASE saving' = saving \/ saving' = [saving EXCEPT !.shown = FALSE]
    BY <2>1, <2>4
  <2> QED BY <2>2, <2>3, <2>4
<1>7. projector' \in [turn : 0..MaxTurns, messages : Seq(Message)] /\ Len(projector'.messages) <= MaxMessages
  <2>1. /\ projector \in [turn : 0..MaxTurns, messages : Seq(Message)]
        /\ Len(projector.messages) <= MaxMessages
        /\ 0 \in 0..MaxTurns /\ turn.id \in 0..MaxTurns
    BY TurnNumbers DEF HostTyped
  <2>2. <<>> \in Seq(Message) /\ Len(<<>>) = 0 /\ 0 <= MaxMessages
    BY EmptySeq, LimitsAssumption
  <2>3. CASE projector' = projector
    BY <2>1, <2>3
  <2>4. ASSUME NEW id \in 0..MaxTurns, projector' = [turn |-> id, messages |-> <<>>]
        PROVE  /\ projector' \in [turn : 0..MaxTurns, messages : Seq(Message)]
               /\ Len(projector'.messages) <= MaxMessages
    BY <2>2, <2>4
  <2> QED BY <2>1, <2>3, <2>4 DEF Changes, NoProjector, NewProjector
<1>8. answer' \in Turns \cup {Error, NoAnswer}
  BY <1>2, TurnNumbers DEF Answer, HostTyped, Changes
<1>9. HostTyped'
  BY <1>1, <1>2, <1>4, <1>6, <1>7, <1>8, TurnNumbers DEF HostTyped
<1>10. HostFits'
  <2>1. HostFits
    BY TurnNumbers
  <2>2. \A t \in TurnIds : t > page.asked \/ t = request => rows'[t].status = "none"
    BY <1>3, <1>4, <2>1, TurnNumbers DEF HostFits
  <2>3. /\ saving'.turn <= page.asked
        /\ saving'.turn # 0 => saving'.turn # request
        /\ Len(saving'.texts) <= MaxMessages
        /\ \A m \in 1..Len(saving'.texts) :
              \E n \in 0..MaxChunks : saving'.texts[m] = Text(saving'.turn, m, n)
    <3>1. CASE saving'.turn = saving.turn /\ saving'.texts = saving.texts
      BY <2>1, <3>1 DEF HostFits
    <3>2. CASE saving'.turn = 0 /\ saving'.texts = <<>>
      BY <3>2, TurnNumbers, LimitsAssumption
    <3> QED BY <1>6, <3>1, <3>2
  <2>4. turn'.id <= page.asked /\ turn'.id # 0 /\ turn'.id # request
    BY <1>2, <1>3, TurnNumbers
  <2> QED BY <1>1, <2>1, <2>2, <2>3, <2>4 DEF HostFits
<1>11. PageTyped'
  BY <1>1, TurnNumbers DEF PageTyped, bounds, history
<1>12. PICK events : events = <<StateChanged(turn')>>
  OBVIOUS
<1>13. Reports(events) /\ EventsFit(events) /\ Publish(events)
  BY <1>1, <1>2, <1>12, SaysTurn
<1> QED BY <1>1, <1>5, <1>9, <1>10, <1>11, <1>13, PublishStep

\* The provider took the turn.
LEMMA TurnRunningStep ==
    ASSUME IInv, TurnRunning
    PROVE  IInv'
<1>1. "running" \in Statuses /\ IsTurnActive(turn)
  BY DEF TurnRunning, Statuses, IsTurnActive
<1>2. Changes("running")
  BY DEF TurnRunning, Changes
<1> QED BY <1>1, <1>2, TurnChanges

\* The turn did not start.
LEMMA TurnStartFailsStep ==
    ASSUME IInv, TurnStartFails
    PROVE  IInv'
<1>1. "failed" \in Statuses /\ IsTurnActive(turn)
  BY DEF TurnStartFails, Statuses, IsTurnActive
<1>2. Changes("failed")
  BY DEF TurnStartFails, Changes
<1> QED BY <1>1, <1>2, TurnChanges

\* The running turn ended before its time.
LEMMA TurnFailsStep ==
    ASSUME IInv, TurnFails
    PROVE  IInv'
<1>1. "failed" \in Statuses /\ IsTurnActive(turn)
  BY DEF TurnFails, Statuses, IsTurnActive
<1>2. Changes("failed")
  BY DEF TurnFails, Changes
<1> QED BY <1>1, <1>2, TurnChanges

\* Something else in the snapshot changed.
LEMMA OtherChangeStep ==
    ASSUME IInv, OtherChange
    PROVE  IInv'
<1>1. /\ changes < MaxChanges /\ changes' = changes + 1
      /\ Publish(<<StateChanged(turn)>>)
      /\ UNCHANGED <<hostVars, request, answer, page, reloads, history>>
      /\ UNCHANGED <<turn, projector, saving, rows>>
  BY DEF OtherChange, hostVars
<1>2. HostTyped'
  BY <1>1, TurnNumbers DEF HostTyped
<1>3. PageTyped'
  <2>1. changes' \in 0..MaxChanges
    <3>1. changes \in 0..MaxChanges
      BY TurnNumbers DEF PageTyped
    <3> QED BY <1>1, <3>1, LimitsAssumption
  <2> QED BY <1>1, <2>1, TurnNumbers DEF PageTyped, history
<1>4. HostFits' /\ Stable
  BY <1>1, TurnNumbers DEF HostFits, Stable, Over
<1>5. PICK events : events = <<StateChanged(turn')>>
  OBVIOUS
<1>6. Reports(events) /\ EventsFit(events) /\ Publish(events)
  BY <1>1, <1>5, SaysTurn, TurnNumbers
<1> QED BY <1>1, <1>2, <1>3, <1>4, <1>6, PublishStep

\* The events of a delta are of the active turn, and number its chunks on.
LEMMA MessageEvents ==
    ASSUME IInv, IsTurnActive(turn), turn' = turn, NEW m \in 1..MaxMessages,
           NEW size \in Nat, NEW n \in Nat, size + n <= MaxChunks,
           NEW begin \in {<<>>, <<Started(turn.id, m)>>}, NEW chunks \in Seq(Event), Len(chunks) = n,
           \A i \in 1..n : chunks[i] = Chunk(<<turn.id, m, size + i - 1>>),
           NEW events, events = begin \o chunks
    PROVE  Reports(events) /\ EventsFit(events)
<1>1. turn.id \in TurnIds /\ ~Over(turn.id) /\ MaxChunks \in Nat
  <2>1. turn.id \in 0..MaxTurns /\ turn.id # 0 /\ TurnIds = 1..MaxTurns /\ MaxTurns \in Nat
    BY TurnNumbers DEF HostFits
  <2>2. ~Over(turn.id)
    BY DEF Over
  <2>3. MaxChunks \in Nat
    BY LimitsAssumption
  <2> QED BY <2>1, <2>2, <2>3
<1>2. <<turn.id, m>> \in Keys
  BY <1>1 DEF Keys
<1>3. Started(turn.id, m) \in Event
  BY <1>2 DEF Started, Event
<1>4. begin \in Seq(Event) /\ Len(begin) \in Nat
      /\ \A i \in 1..Len(begin) : begin[i] = Started(turn.id, m)
  <2>1. CASE begin = <<>>
    BY <2>1
  <2>2. CASE begin = <<Started(turn.id, m)>>
    BY <2>2, <1>3
  <2> QED BY <2>1, <2>2
<1>5. /\ events \in Seq(Event) /\ Len(events) = Len(begin) + n
      /\ \A i \in 1..Len(events) :
            events[i] = IF i <= Len(begin) THEN begin[i] ELSE chunks[i - Len(begin)]
  <2>1. begin \in Seq(Event) /\ chunks \in Seq(Event) /\ events = begin \o chunks
    BY <1>4
  <2>2. /\ begin \o chunks \in Seq(Event)
        /\ Len(begin \o chunks) = Len(begin) + Len(chunks)
        /\ \A i \in 1..(Len(begin) + Len(chunks)) :
              (begin \o chunks)[i] = IF i <= Len(begin) THEN begin[i] ELSE chunks[i - Len(begin)]
    BY <2>1, EventsJoined, Zenon
  <2>3. events \in Seq(Event) /\ Len(events) = Len(begin) + n
    BY <2>1, <2>2
  <2>4. ASSUME NEW i \in 1..Len(events)
        PROVE  events[i] = IF i <= Len(begin) THEN begin[i] ELSE chunks[i - Len(begin)]
    <3>1. (begin \o chunks)[i] = IF i <= Len(begin) THEN begin[i] ELSE chunks[i - Len(begin)]
      BY <2>2, <2>3
    <3> QED BY <2>1, <3>1
  <2> QED BY <2>3, <2>4
<1>6. ASSUME NEW i \in 1..Len(events)
      PROVE  /\ events[i].type \in {"started", "chunk"} /\ events[i].key[1] = turn.id
             /\ events[i].type = "chunk" =>
                  /\ events[i].key = <<events[i].chunk[1], events[i].chunk[2]>>
                  /\ events[i].chunk[3] < MaxChunks
  <2>1. CASE i <= Len(begin)
    <3>1. i \in 1..Len(begin) /\ events[i] = begin[i]
      BY <1>4, <1>5, <2>1
    <3>2. events[i] = Started(turn.id, m)
      BY <1>4, <3>1
    <3> QED BY <3>2 DEF Started
  <2>2. CASE ~(i <= Len(begin))
    <3>1. i - Len(begin) \in 1..n /\ events[i] = chunks[i - Len(begin)]
      BY <1>4, <1>5, <2>2
    <3>2. PICK j \in 1..n : j = i - Len(begin)
      BY <3>1
    <3>3. events[i] = Chunk(<<turn.id, m, size + j - 1>>)
      BY <3>1, <3>2
    <3>4. size + j - 1 < MaxChunks
      BY <1>1
    <3> QED BY <3>3, <3>4 DEF Chunk
  <2> QED BY <2>1, <2>2
<1>7. Reports(events)
  BY <1>5, <1>6 DEF Reports
<1>8. EventsFit(events)
  BY <1>1, <1>6 DEF EventsFit
<1> QED BY <1>7, <1>8

\* The chunk events of a message.
LEMMA ChunkEvents ==
    ASSUME IInv, IsTurnActive(turn), NEW m \in 1..MaxMessages,
           NEW size \in Nat, NEW n \in Nat, size + n <= MaxChunks
    PROVE  /\ [i \in 1..n |-> Chunk(<<turn.id, m, size + i - 1>>)] \in Seq(Event)
           /\ Len([i \in 1..n |-> Chunk(<<turn.id, m, size + i - 1>>)]) = n
<1>1. turn.id \in TurnIds /\ MaxChunks \in Nat
  BY TurnNumbers, LimitsAssumption DEF HostFits
<1>2. ASSUME NEW i \in 1..n
      PROVE  Chunk(<<turn.id, m, size + i - 1>>) \in Event
  <2>1. size + i - 1 \in 0..MaxChunks
    BY <1>1
  <2>2. <<turn.id, m, size + i - 1>> \in ChunkNames /\ <<turn.id, m>> \in Keys
    BY <1>1, <2>1 DEF ChunkNames, Keys
  <2> QED BY <2>2 DEF Chunk, Event
<1> QED BY <1>2, IsASeq

\* A message of the projector is begun, goes on or is complete.
LEMMA MessagesTyped ==
    ASSUME HostTyped, NEW m \in 1..MaxMessages, m <= Len(projector.messages) + 1,
           NEW message \in Message, NEW p,
           p = [projector EXCEPT !.messages =
                    IF m \in 1..Len(projector.messages) THEN [@ EXCEPT ![m] = message]
                    ELSE Append(@, message)]
    PROVE  /\ p \in [turn : 0..MaxTurns, messages : Seq(Message)]
           /\ Len(p.messages) <= MaxMessages
<1>1. /\ projector \in [turn : 0..MaxTurns, messages : Seq(Message)]
      /\ Len(projector.messages) <= MaxMessages /\ Len(projector.messages) \in Nat
      /\ MaxMessages \in Nat
  BY LimitsAssumption, LenProperties DEF HostTyped
<1>2. CASE m \in 1..Len(projector.messages)
  <2>1. [projector.messages EXCEPT ![m] = message] \in Seq(Message)
        /\ Len([projector.messages EXCEPT ![m] = message]) = Len(projector.messages)
    BY <1>1, <1>2, ExceptSeq
  <2>2. p = [projector EXCEPT !.messages = [projector.messages EXCEPT ![m] = message]]
    BY <1>2
  <2> QED BY <1>1, <2>1, <2>2
<1>3. CASE m \notin 1..Len(projector.messages)
  <2>1. Append(projector.messages, message) \in Seq(Message)
        /\ Len(Append(projector.messages, message)) = Len(projector.messages) + 1
    BY <1>1, AppendProperties
  <2>2. p = [projector EXCEPT !.messages = Append(projector.messages, message)]
    BY <1>3
  <2>3. Len(projector.messages) + 1 <= MaxMessages
    BY <1>1, <1>3
  <2> QED BY <1>1, <2>1, <2>2, <2>3
<1> QED BY <1>2, <1>3

\* A step that changes the projector alone, of the host.
LEMMA ProjectorFits ==
    ASSUME IInv, UNCHANGED <<turn, saving, rows, request, answer, page, bounds, history>>,
           projector' \in [turn : 0..MaxTurns, messages : Seq(Message)],
           Len(projector'.messages) <= MaxMessages
    PROVE  HostTyped' /\ HostFits' /\ PageTyped' /\ Stable
<1>1. HostTyped'
  BY TurnNumbers DEF HostTyped
<1>2. HostFits'
  BY TurnNumbers DEF HostFits
<1>3. PageTyped'
  BY TurnNumbers DEF PageTyped, bounds, history
<1>4. Stable
  BY DEF Stable, Over
<1> QED BY <1>1, <1>2, <1>3, <1>4

\* A delta becomes chunks.
LEMMA ReceiveDeltaStep ==
    ASSUME IInv, NEW m \in 1..MaxMessages, NEW n \in 1..MaxChunks, ReceiveDelta(m, n)
    PROVE  IInv'
<1> DEFINE known == m \in 1..Len(projector.messages)
           size == IF known THEN projector.messages[m].size ELSE 0
           begun == [size |-> size + n, completed |-> FALSE]
           begin == IF known THEN <<>> ELSE <<Started(turn.id, m)>>
           named == [i \in 1..n |-> Chunk(<<turn.id, m, size + i - 1>>)]
           sent == [i \in 1..n |-> Chunk(Chunks(turn.id, m, size, size + n)[i])]
<1>1. /\ Streaming /\ HasRoom(size, n)
      /\ m <= Len(projector.messages) + 1
      /\ projector' = [projector EXCEPT !.messages =
                            IF known THEN [@ EXCEPT ![m] = begun] ELSE Append(@, begun)]
      /\ Publish(begin \o sent)
      /\ UNCHANGED <<turn, saving, rows, request, answer, page, bounds, history>>
  BY DEF ReceiveDelta
<1>2. size \in Nat /\ n \in Nat /\ MaxChunks \in Nat
  <2>1. projector.messages \in Seq(Message)
    BY TurnNumbers DEF HostTyped
  <2>2. known => projector.messages[m] \in Message
    BY <2>1, ElementOfSeq
  <2> QED BY <2>2, LimitsAssumption DEF Message
<1>3. size + n <= MaxChunks
  BY <1>1 DEF HasRoom
<1>4. begun \in Message
  BY <1>2, <1>3 DEF Message
<1>5. begin \in {<<>>, <<Started(turn.id, m)>>}
  OBVIOUS
<1> HIDE DEF size, begun, begin
<1>6. sent = named
  <2>1. ASSUME NEW i \in 1..n
        PROVE  Chunks(turn.id, m, size, size + n)[i] = <<turn.id, m, size + i - 1>>
    <3>1. i \in 1..((size + n) - size)
      BY <1>2
    <3> QED BY <3>1 DEF Chunks
  <2> QED BY <2>1
<1>7. IsTurnActive(turn)
  BY <1>1 DEF Streaming, IsTurnActive
<1>8. named \in Seq(Event) /\ Len(named) = n
  BY <1>2, <1>3, <1>7, ChunkEvents
<1>9. \A i \in 1..n : named[i] = Chunk(<<turn.id, m, size + i - 1>>)
  OBVIOUS
<1> HIDE DEF named, sent
<1>10. PICK events : events = begin \o named
  OBVIOUS
<1>11. Reports(events) /\ EventsFit(events)
  BY <1>1, <1>2, <1>3, <1>5, <1>7, <1>8, <1>9, <1>10, MessageEvents
<1>12. /\ projector' \in [turn : 0..MaxTurns, messages : Seq(Message)]
       /\ Len(projector'.messages) <= MaxMessages
  BY <1>1, <1>4, TurnNumbers, MessagesTyped
<1>13. HostTyped' /\ HostFits' /\ PageTyped' /\ Stable
  BY <1>1, <1>12, ProjectorFits
<1>14. Publish(events)
  BY <1>1, <1>6, <1>10
<1> QED BY <1>1, <1>11, <1>13, <1>14, PublishStep

\* A message is complete; one that comes whole becomes chunks first.
LEMMA CompleteItemStep ==
    ASSUME IInv, NEW m \in 1..MaxMessages, NEW n \in 0..MaxChunks, CompleteItem(m, n)
    PROVE  IInv'
<1> DEFINE known == m \in 1..Len(projector.messages)
           whole == [size |-> n, completed |-> TRUE]
           begin == <<Started(turn.id, m)>>
           named == [i \in 1..n |-> Chunk(<<turn.id, m, 0 + i - 1>>)]
           sent == [i \in 1..n |-> Chunk(<<turn.id, m, i - 1>>)]
<1>1. /\ Streaming /\ m <= Len(projector.messages) + 1
      /\ projector' = [projector EXCEPT !.messages =
                            IF known THEN [@ EXCEPT ![m] = whole] ELSE Append(@, whole)]
      /\ IF known THEN UNCHANGED gatewayVars ELSE Publish(begin \o sent)
      /\ UNCHANGED <<turn, saving, rows, request, answer, page, bounds, history>>
  BY DEF CompleteItem
<1>2. n \in Nat /\ n <= MaxChunks /\ 0 + n <= MaxChunks /\ 0 \in Nat
  BY LimitsAssumption
<1>3. whole \in Message
  BY DEF Message
<1>4. IsTurnActive(turn)
  BY <1>1 DEF Streaming, IsTurnActive
<1> HIDE DEF whole
<1>5. /\ projector' \in [turn : 0..MaxTurns, messages : Seq(Message)]
      /\ Len(projector'.messages) <= MaxMessages
  BY <1>1, <1>3, TurnNumbers, MessagesTyped
<1>6. HostTyped' /\ HostFits' /\ PageTyped' /\ Stable
  BY <1>1, <1>5, ProjectorFits
<1>7. CASE known
  BY <1>1, <1>6, <1>7, QuietStep
<1>8. CASE ~known
  <2>1. sent = named
    BY <1>2
  <2>2. named \in Seq(Event) /\ Len(named) = n
    BY <1>2, <1>4, ChunkEvents
  <2>3. \A i \in 1..n : named[i] = Chunk(<<turn.id, m, 0 + i - 1>>)
    OBVIOUS
  <2>4. begin \in {<<>>, <<Started(turn.id, m)>>}
    OBVIOUS
  <2> HIDE DEF named, sent, begin
  <2>5. PICK events : events = begin \o named
    OBVIOUS
  <2>6. Reports(events) /\ EventsFit(events)
    BY <1>1, <1>2, <1>4, <2>2, <2>3, <2>4, <2>5, MessageEvents
  <2>7. Publish(events)
    BY <1>1, <1>8, <2>1, <2>5
  <2> QED BY <1>1, <1>6, <2>6, <2>7, PublishStep
<1> QED BY <1>7, <1>8

\* The texts of the turn go to the API.
LEMMA FinishTurnStep ==
    ASSUME IInv, FinishTurn
    PROVE  IInv'
<1>1. /\ Streaming
      /\ saving' = [turn |-> turn.id, shown |-> TRUE, texts |-> CompleteConversationTurn]
      /\ UNCHANGED <<turn, projector, rows, gatewayVars, request, answer, page, bounds, history>>
  BY DEF FinishTurn
<1>2. turn.id \in TurnIds /\ turn.id # request /\ turn.id <= page.asked
  BY <1>1, TurnNumbers DEF Streaming, IsTurnActive, HostFits
<1>3. /\ projector.messages \in Seq(Message) /\ Len(projector.messages) <= MaxMessages
      /\ Len(projector.messages) \in Nat /\ MaxMessages \in Nat
  BY TurnNumbers, LenProperties, LimitsAssumption DEF HostTyped
<1>4. ASSUME NEW m \in 1..Len(projector.messages)
      PROVE  /\ projector.messages[m].size \in 0..MaxChunks
             /\ Text(turn.id, m, projector.messages[m].size) \in Texts
  <2>1. projector.messages[m] \in Message /\ m \in 1..MaxMessages
    BY <1>3, ElementOfSeq
  <2>2. projector.messages[m].size \in 0..MaxChunks
    BY <2>1 DEF Message
  <2> QED BY <1>2, <2>1, <2>2, TextOf
<1>5. /\ CompleteConversationTurn \in Seq(Texts)
      /\ Len(CompleteConversationTurn) = Len(projector.messages)
      /\ \A m \in 1..Len(projector.messages) :
            CompleteConversationTurn[m] = Text(turn.id, m, projector.messages[m].size)
  <2>1. CompleteConversationTurn =
            [m \in 1..Len(projector.messages) |-> Text(turn.id, m, projector.messages[m].size)]
    BY DEF CompleteConversationTurn
  <2> QED BY <1>3, <1>4, <2>1, IsASeq
<1>6. /\ saving'.turn = turn.id /\ saving'.texts = CompleteConversationTurn
      /\ saving' \in [turn : 0..MaxTurns, texts : Seq(Texts), shown : BOOLEAN]
  BY <1>1, <1>5, TurnNumbers
<1>7. HostTyped' /\ PageTyped'
  BY <1>1, <1>6, TurnNumbers DEF HostTyped, PageTyped, bounds, history
<1>8. HostFits'
  <2>1. HostFits
    BY TurnNumbers
  <2>2. UNCHANGED <<turn, rows, request, page>>
    BY <1>1
  <2>3. saving'.turn <= page'.asked /\ saving'.turn # request'
    BY <1>2, <1>6, <2>2
  <2>4. /\ Len(saving'.texts) <= MaxMessages
        /\ \A m \in 1..Len(saving'.texts) :
              \E n \in 0..MaxChunks : saving'.texts[m] = Text(saving'.turn, m, n)
    BY <1>3, <1>4, <1>5, <1>6
  <2> QED BY <2>1, <2>2, <2>3, <2>4 DEF HostFits
<1>9. Stable
  BY <1>1 DEF Stable, Over
<1> QED BY <1>1, <1>7, <1>8, <1>9, QuietStep

\* The row of the turn whose texts are being stored.
LEMMA StoredRow ==
    ASSUME IInv, AnswerAccepted, rows[saving.turn].status = "reserved", rows' = Stored
    PROVE  /\ saving.turn \in TurnIds /\ saving.turn # request /\ saving.turn <= page.asked
           /\ rows' \in [TurnIds -> Row]
           /\ rows'[saving.turn] = [status |-> "completed", texts |-> saving.texts]
           /\ \A t \in TurnIds : t # saving.turn => rows'[t] = rows[t]
<1>1. saving.turn \in TurnIds /\ saving.turn # request /\ saving.turn <= page.asked
  BY TurnNumbers DEF AnswerAccepted, HostFits
<1>2. [status |-> "completed", texts |-> saving.texts] \in Row
  BY TurnNumbers DEF HostTyped, Row
<1> QED BY <1>1, <1>2, TurnNumbers DEF Stored

\* What the answer of the API leaves of the host, whatever became of the turn.
LEMMA SaveEnds ==
    ASSUME IInv, AnswerAccepted,
           rows' = rows \/ (rows[saving.turn].status = "reserved" /\ rows' = Stored),
           projector' = NoProjector, saving' = NotSaving,
           turn' = turn \/ \E s \in {"completed", "failed"} : turn' = [turn EXCEPT !.status = s],
           UNCHANGED <<request, answer, page, bounds, history>>
    PROVE  HostTyped' /\ HostFits' /\ PageTyped' /\ Stable
<1>1. rows' \in [TurnIds -> Row]
      /\ \A t \in TurnIds :
            \/ rows'[t] = rows[t]
            \/ rows[t].status = "reserved" /\ t <= page.asked /\ t # request
  <2>1. CASE rows' = rows
    BY <2>1, TurnNumbers
  <2>2. CASE rows[saving.turn].status = "reserved" /\ rows' = Stored
    BY <2>2, StoredRow
  <2> QED BY <2>1, <2>2
<1>2. /\ turn' \in Turns /\ turn'.id = turn.id
      /\ turn' = turn \/ ~IsTurnActive(turn')
  <2>1. CASE turn' = turn
    BY <2>1, TurnNumbers
  <2>2. ASSUME NEW s \in {"completed", "failed"}, turn' = [turn EXCEPT !.status = s]
        PROVE  turn' \in Turns /\ turn'.id = turn.id /\ ~IsTurnActive(turn')
    BY <2>2, TurnNumbers DEF Turns, Statuses, IsTurnActive
  <2> QED BY <2>1, <2>2
<1>3. saving' \in [turn : 0..MaxTurns, texts : Seq(Texts), shown : BOOLEAN]
      /\ saving'.turn = 0 /\ saving'.texts = <<>>
  <2>1. <<>> \in Seq(Texts) /\ 0 \in 0..MaxTurns
    BY TurnNumbers, EmptySeq
  <2> QED BY <2>1 DEF NotSaving
<1>4. projector' \in [turn : 0..MaxTurns, messages : Seq(Message)] /\ Len(projector'.messages) <= MaxMessages
  <2>1. <<>> \in Seq(Message) /\ Len(<<>>) = 0 /\ 0 <= MaxMessages /\ 0 \in 0..MaxTurns
    BY EmptySeq, LimitsAssumption
  <2> QED BY <2>1 DEF NoProjector
<1>5. HostTyped'
  BY <1>1, <1>2, <1>3, <1>4, TurnNumbers DEF HostTyped
<1>6. PageTyped'
  BY TurnNumbers DEF PageTyped, bounds, history
<1>7. HostFits'
  <2>1. HostFits
    BY TurnNumbers
  <2>2. \A t \in TurnIds : t > page.asked \/ t = request => rows'[t].status = "none"
    BY <1>1, <2>1, TurnNumbers DEF HostFits
  <2>3. turn'.id = 0 => ~IsTurnActive(turn')
    BY <1>2, <2>1 DEF HostFits
  <2> QED BY <1>2, <1>3, <2>1, <2>2, <2>3, TurnNumbers, LimitsAssumption DEF HostFits
<1>8. Stable
  BY <1>1, <1>2 DEF Stable, Over
<1> QED BY <1>5, <1>6, <1>7, <1>8

\* The completions of a turn, one for each of its texts.
LEMMA DoneEvents ==
    ASSUME NEW save, save.turn \in TurnIds, save.texts \in Seq(Texts),
           Len(save.texts) <= MaxMessages, NEW done, done = Completions(save)
    PROVE  /\ done \in Seq(Event) /\ Len(done) \in Nat /\ Len(done) <= Len(save.texts)
           /\ \A m \in 1..Len(done) :
                 /\ done[m].type = "completed" /\ done[m].key = <<save.turn, m>>
                 /\ done[m].digest = save.texts[m]
<1>1. Len(save.texts) \in Nat /\ MaxMessages \in Nat
  BY LenProperties, LimitsAssumption
<1>2. ASSUME NEW m \in 1..Len(save.texts)
      PROVE  Completed(save.turn, m, save.texts[m]) \in Event
  <2>1. save.texts[m] \in Texts /\ m \in 1..MaxMessages
    BY <1>1, ElementOfSeq
  <2>2. <<save.turn, m>> \in Keys
    BY <2>1 DEF Keys
  <2>3. Completed(save.turn, m, save.texts[m])
            \in [type : {"completed"}, key : Keys, digest : Texts]
    BY <2>1, <2>2 DEF Completed
  <2> QED BY <2>3 DEF Event
<1>3. CASE save.shown
  <2>1. done = [m \in 1..Len(save.texts) |-> Completed(save.turn, m, save.texts[m])]
    BY <1>3 DEF Completions
  <2>2. done \in Seq(Event) /\ Len(done) = Len(save.texts)
    BY <1>1, <1>2, <2>1, IsASeq
  <2>3. \A m \in 1..Len(done) : done[m] = Completed(save.turn, m, save.texts[m])
    BY <2>1, <2>2
  <2>4. ASSUME NEW m \in 1..Len(done)
        PROVE  /\ done[m].type = "completed" /\ done[m].key = <<save.turn, m>>
               /\ done[m].digest = save.texts[m]
    <3>1. done[m] = [type |-> "completed", key |-> <<save.turn, m>>, digest |-> save.texts[m]]
      BY <2>3 DEF Completed
    <3>2. PICK key, digest : key = <<save.turn, m>> /\ digest = save.texts[m]
      OBVIOUS
    <3>3. done[m] = [type |-> "completed", key |-> key, digest |-> digest]
      BY <3>1, <3>2
    <3> QED BY <3>2, <3>3
  <2> QED BY <1>1, <2>2, <2>4
<1>4. CASE ~save.shown
  <2>1. done = <<>>
    BY <1>4 DEF Completions
  <2> QED BY <1>1, <2>1, EmptySeq
<1> QED BY <1>3, <1>4

\* The completions of a turn that is stored and over are of its texts.
LEMMA CompletionEvents ==
    ASSUME IInv, AnswerAccepted, IsTurnActive(turn), rows[saving.turn].status = "reserved",
           rows' = Stored, turn' = [turn EXCEPT !.status = "completed"],
           UNCHANGED <<request, page>>,
           NEW events, events = Completions(saving) \o <<StateChanged(turn')>>
    PROVE  Reports(events) /\ EventsFit(events)
<1>1. /\ saving.turn \in TurnIds /\ saving.turn # request /\ saving.turn <= page.asked
      /\ rows'[saving.turn] = [status |-> "completed", texts |-> saving.texts]
      /\ turn.id = saving.turn
  BY StoredRow DEF AnswerAccepted
<1>2. turn' \in Turns /\ turn'.id = turn.id /\ ~IsTurnActive(turn')
  BY TurnNumbers DEF Turns, Statuses, IsTurnActive
<1>3. /\ saving.texts \in Seq(Texts) /\ Len(saving.texts) \in Nat
      /\ Len(saving.texts) <= MaxMessages /\ MaxMessages \in Nat
  BY TurnNumbers, LenProperties, LimitsAssumption DEF HostTyped, HostFits
<1>4. PICK t, texts : t = saving.turn /\ texts = saving.texts
  OBVIOUS
<1>5. ~Over(t) /\ Over(t)'
  <2>1. ~Over(t)
    BY <1>1, <1>4 DEF Over
  <2>2. t <= page'.asked /\ t # request'
    BY <1>1, <1>4
  <2> QED BY <1>2, <2>1, <2>2 DEF Over
<1>6. PICK done : done = Completions(saving)
  OBVIOUS
<1>7. /\ done \in Seq(Event) /\ Len(done) \in Nat /\ Len(done) <= Len(texts)
      /\ \A m \in 1..Len(done) : /\ done[m].type = "completed" /\ done[m].key = <<t, m>>
                                 /\ done[m].digest = texts[m]
  BY <1>1, <1>3, <1>4, <1>6, DoneEvents
<1>8. ASSUME NEW m \in 1..Len(texts)
      PROVE  StoredAs(<<t, m>>, texts[m])'
  BY <1>1, <1>3, <1>4 DEF StoredAs
<1>9. PICK last : last = StateChanged(turn')
  OBVIOUS
<1>10. last \in Event /\ last.type = "state" /\ last.turn = turn'
  <2>1. last \in [type : {"state"}, turn : Turns]
    BY <1>2, <1>9 DEF StateChanged
  <2> QED BY <1>9, <2>1 DEF StateChanged, Event
<1>11. events = Append(done, last)
  BY <1>6, <1>7, <1>9, <1>10, AppendIsConcat
<1>12. /\ events \in Seq(Event) /\ Len(events) = Len(done) + 1
       /\ events[Len(events)] = last
       /\ \A m \in 1..Len(done) : events[m] = done[m]
  <2>1. /\ events \in Seq(Event) /\ Len(events) = Len(done) + 1
        /\ events[Len(done) + 1] = last
        /\ \A m \in 1..Len(done) : events[m] = done[m]
    <3>1. done \in Seq(Event) /\ last \in Event
      BY <1>7, <1>10
    <3>2. /\ Append(done, last) \in Seq(Event) /\ Len(Append(done, last)) = Len(done) + 1
          /\ Append(done, last)[Len(done) + 1] = last
          /\ \A m \in 1..Len(done) : Append(done, last)[m] = done[m]
      BY <3>1, EventAppended, Zenon
    <3> QED BY <1>11, <3>2, Zenon
  <2> QED BY <2>1
<1>13. \A i \in 1..Len(events) : i # Len(events) => i \in 1..Len(done)
  BY <1>7, <1>12
<1>14. Reports(events)
  <2>1. \A i \in 1..Len(events) :
            events[i].type = "state" => i = Len(events) /\ events[i].turn = turn'
    BY <1>7, <1>10, <1>12, <1>13
  <2>2. Len(events) > 0
    BY <1>7, <1>12
  <2> QED BY <1>10, <1>12, <2>1, <2>2 DEF Reports
<1>15. EventsFit(events)
  <2>1. ASSUME NEW i \in 1..Len(events), i # Len(events)
        PROVE  /\ events[i].type = "completed"
               /\ events[i].key = <<t, i>> /\ events[i].digest = texts[i]
               /\ StoredAs(<<t, i>>, texts[i])'
    <3>1. i \in 1..Len(done) /\ i \in 1..Len(texts)
      BY <1>3, <1>4, <1>7, <1>13, <2>1
    <3> QED BY <1>7, <1>8, <1>12, <3>1
  <2>2. ~Over(t) /\ Over(t)'
    BY <1>5
  <2>3. ASSUME NEW i \in 1..Len(events)
        PROVE  /\ events[i].type # "state" => ~Over(events[i].key[1])
               /\ events[i].type # "chunk"
               /\ events[i].type = "completed" => /\ Over(events[i].key[1])'
                                                  /\ StoredAs(events[i].key, events[i].digest)'
    <3>1. CASE i = Len(events)
      BY <1>10, <1>12, <3>1
    <3>2. CASE i # Len(events)
      <4>1. events[i].key[1] = t
        <5>1. <<t, i>>[1] = t
          OBVIOUS
        <5> QED BY <2>1, <3>2, <5>1
      <4> QED BY <2>1, <2>2, <3>2, <4>1
    <3> QED BY <3>1, <3>2
  <2>4. ASSUME NEW i \in 1..Len(events), NEW j \in (i + 1)..Len(events),
               events[i].type = "completed", events[j].type # "state"
        PROVE  events[j].key # events[i].key
    <3>1. i # Len(events) /\ j \in 1..Len(events) /\ i # j
      BY <1>7, <1>12
    <3>2. j # Len(events)
      BY <1>10, <1>12, <2>4
    <3>3. events[j].key = <<t, j>> /\ events[i].key = <<t, i>>
      BY <2>1, <3>1, <3>2
    <3> QED BY <3>1, <3>3
  <2> QED BY <2>3, <2>4 DEF EventsFit
<1> QED BY <1>14, <1>15

\* The API has stored the texts.
LEMMA SavedStep ==
    ASSUME IInv, Saved
    PROVE  IInv'
<1>1. /\ AnswerAccepted /\ rows[saving.turn].status = "reserved"
      /\ rows' = Stored /\ projector' = NoProjector /\ saving' = NotSaving
      /\ UNCHANGED <<request, answer, page, bounds, history>>
      /\ IF IsTurnActive(turn)
           THEN /\ turn' = [turn EXCEPT !.status = "completed"]
                /\ Publish(Completions(saving) \o <<StateChanged(turn')>>)
           ELSE UNCHANGED <<turn, gatewayVars>>
  BY DEF Saved
<1>2. HostTyped' /\ HostFits' /\ PageTyped' /\ Stable
  BY <1>1, SaveEnds
<1>3. CASE IsTurnActive(turn)
  <2>1. PICK events : events = Completions(saving) \o <<StateChanged(turn')>>
    OBVIOUS
  <2>2. Reports(events) /\ EventsFit(events)
    BY <1>1, <1>3, <2>1, CompletionEvents
  <2>3. Publish(events)
    BY <1>1, <1>3, <2>1
  <2> QED BY <1>1, <1>2, <2>2, <2>3, PublishStep
<1>4. CASE ~IsTurnActive(turn)
  BY <1>1, <1>2, <1>4, QuietStep
<1> QED BY <1>3, <1>4

\* The API refused the texts, or its answer was lost.
LEMMA SaveFailsStep ==
    ASSUME IInv, SaveFails
    PROVE  IInv'
<1>1. /\ AnswerAccepted /\ projector' = NoProjector /\ saving' = NotSaving
      /\ rows' = rows \/ (rows[saving.turn].status = "reserved" /\ rows' = Stored)
      /\ UNCHANGED <<request, answer, page, bounds, history>>
      /\ IF IsTurnActive(turn)
           THEN turn' = [turn EXCEPT !.status = "failed"] /\ Publish(<<StateChanged(turn')>>)
           ELSE UNCHANGED <<turn, gatewayVars>>
  BY DEF SaveFails
<1>2. HostTyped' /\ HostFits' /\ PageTyped' /\ Stable
  BY <1>1, SaveEnds
<1>3. CASE IsTurnActive(turn)
  <2>1. PICK events : events = <<StateChanged(turn')>>
    OBVIOUS
  <2>2. turn' \in Turns
    BY <1>2 DEF HostTyped
  <2>3. Reports(events) /\ EventsFit(events)
    BY <2>1, <2>2, SaysTurn
  <2>4. Publish(events)
    BY <1>1, <1>3, <2>1
  <2> QED BY <1>1, <1>2, <2>3, <2>4, PublishStep
<1>4. CASE ~IsTurnActive(turn)
  BY <1>1, <1>2, <1>4, QuietStep
<1> QED BY <1>3, <1>4

-----------------------------------------------------------------------------
(* The page *)

\* A function whose domain is some of the keys.
LEMMA Partial ==
    ASSUME NEW K, NEW S, NEW f
    PROVE  f \in UNION {[D -> S] : D \in SUBSET K}
              <=> DOMAIN f \subseteq K /\ f \in [DOMAIN f -> S]
<1>1. ASSUME f \in UNION {[D -> S] : D \in SUBSET K}
      PROVE  DOMAIN f \subseteq K /\ f \in [DOMAIN f -> S]
  <2>1. PICK D \in SUBSET K : f \in [D -> S]
    BY <1>1
  <2> QED BY <2>1
<1>2. ASSUME DOMAIN f \subseteq K, f \in [DOMAIN f -> S]
      PROVE  f \in UNION {[D -> S] : D \in SUBSET K}
  BY <1>2
<1> QED BY <1>1, <1>2

\* What the page holds.
LEMMA PageHolds ==
    ASSUME Typed
    PROVE  /\ page \in Page /\ page.turn \in Turns /\ page.cursor \in NoCursor..MaxEvents
           /\ DOMAIN page.streams \subseteq Keys
           /\ \A k \in DOMAIN page.streams : page.streams[k] \in Texts
           /\ DOMAIN page.shown \subseteq Keys
           /\ \A k \in DOMAIN page.shown : page.shown[k] \in Entry
<1>1. page \in Page
  BY DEF Typed, PageTyped
<1>2. /\ page.turn \in Turns /\ page.cursor \in NoCursor..MaxEvents
      /\ page.streams \in UNION {[D -> Texts] : D \in SUBSET Keys}
      /\ page.shown \in UNION {[D -> Entry] : D \in SUBSET Keys}
  BY <1>1 DEF Page
<1>3. DOMAIN page.streams \subseteq Keys /\ page.streams \in [DOMAIN page.streams -> Texts]
  BY <1>2, Partial
<1>4. DOMAIN page.shown \subseteq Keys /\ page.shown \in [DOMAIN page.shown -> Entry]
  BY <1>2, Partial
<1> QED BY <1>1, <1>2, <1>3, <1>4

\* No frame behind the one with number c is of message k.
HeardAt(c, k) == Over(k[1]) /\ \A f \in Sent : f.id > c => ~About(f, k)

\* One step on what the page shows: p is what it holds then, and c its next cursor.
\* Of each message it keeps what it has, fails it, goes on with it or completes it.
Kinds(p, c, k) ==
    \/ /\ k \in DOMAIN page.shown /\ p.shown[k] = page.shown[k]
       /\ k \in DOMAIN p.streams =>
             k \in DOMAIN page.streams /\ p.streams[k] = page.streams[k]
    \/ /\ p.shown[k] = [status |-> "failed", text |-> <<>>]
       /\ k \in DOMAIN p.streams => HeardAt(c, k)
    \/ /\ k \in DOMAIN p.streams
       /\ p.shown[k] = [status |-> "streaming", text |-> p.streams[k]]
    \/ /\ k \notin DOMAIN p.streams
       /\ IsBeginning(k, p.shown[k].text)
       /\ p.shown[k].status = "complete" => StoredAs(k, p.shown[k].text)
Moves(p, c) ==
    /\ p \in Page /\ p.cursor = page.cursor
    /\ p.asked = page.asked
    /\ \A k \in DOMAIN p.streams : IsBeginning(k, p.streams[k])
    /\ \A k \in DOMAIN p.shown : Kinds(p, c, k)

\* The text of no chunk is empty.
LEMMA NothingSaid ==
    ASSUME NEW k \in Keys
    PROVE  IsBeginning(k, <<>>) /\ <<>> \in Texts
<1>1. k[1] \in TurnIds /\ k[2] \in 1..MaxMessages
  BY KeyTurn
<1>2. 0 \in 0..MaxChunks
  BY LimitsAssumption
<1>3. Text(k[1], k[2], 0) \in Texts /\ Len(Text(k[1], k[2], 0)) = 0
  BY <1>1, <1>2, TextOf
<1>4. Text(k[1], k[2], 0) \in Seq(ChunkNames)
  BY <1>3 DEF Texts
<1>5. Text(k[1], k[2], 0) = <<>>
  BY <1>3, <1>4, EmptySeq
<1> QED BY <1>2, <1>3, <1>5 DEF IsBeginning

\* The page's step keeps what is said of the messages.
LEMMA PageAnswers ==
    ASSUME IInv, NEW p, NEW c \in Int, Moves(p, c), UNCHANGED <<turn, rows, request>>,
           page'.streams = p.streams, page'.shown = p.shown, page'.asked = p.asked,
           page'.cursor = c, c >= page.cursor,
           \A f \in Sent' : f \in Sent \/ f.event.type = "state"
    PROVE  FramesFit' /\ StreamsFit' /\ ShownFits'
<1>1. FramesFit /\ StreamsFit /\ ShownFits /\ Typed
  BY DEF IInv, Answers
<1>2. \A t : Over(t)' <=> Over(t)
  BY DEF Over, Moves
<1>3. \A k, text : StoredAs(k, text)' <=> StoredAs(k, text)
  BY DEF StoredAs
<1>4. FramesFit'
  <2> SUFFICES ASSUME NEW f \in Sent'
               PROVE  /\ f.event.type = "chunk" =>
                            /\ f.event.key = <<f.event.chunk[1], f.event.chunk[2]>>
                            /\ f.event.chunk[3] < MaxChunks
                      /\ f.event.type = "completed" =>
                            /\ Over(f.event.key[1])'
                            /\ StoredAs(f.event.key, f.event.digest)'
                            /\ \A g \in Sent' : g.id > f.id => ~About(g, f.event.key)
    BY DEF FramesFit
  <2>1. CASE f.event.type = "state"
    BY <2>1
  <2>2. CASE f \in Sent
    <3>1. \A g \in Sent' : g \in Sent \/ \A k : ~About(g, k)
      BY DEF About
    <3> QED BY <1>1, <1>2, <1>3, <2>2, <3>1 DEF FramesFit
  <2> QED BY <2>1, <2>2
<1>5. StreamsFit'
  BY DEF StreamsFit, Moves
<1>6. ASSUME NEW k, Heard(k)
      PROVE  Heard(k)'
  <2>1. \A f \in Sent : f.id \in Int /\ page.cursor \in Int
    BY <1>1, SentEarlier, Numbers DEF IInv, Events
  <2>2. ASSUME NEW f \in Sent', f.id > page'.cursor
        PROVE  ~About(f, k)
    BY <1>6, <2>1, <2>2 DEF Heard, About
  <2> QED BY <1>2, <1>6, <2>2 DEF Heard
<1>7. ASSUME NEW k \in DOMAIN p.shown
      PROVE  /\ IsBeginning(k, p.shown[k].text)
             /\ k \in DOMAIN p.streams =>
                   \/ p.shown[k].status = "streaming" /\ p.shown[k].text = p.streams[k]
                   \/ p.shown[k].status = "failed" /\ Heard(k)'
             /\ p.shown[k].status = "complete" => StoredAs(k, p.shown[k].text)
  <2>1. Kinds(p, c, k)
    BY DEF Moves
  <2>2. k \in Keys /\ p.shown[k] \in Entry
    <3>1. p.shown \in UNION {[D -> Entry] : D \in SUBSET Keys}
      BY DEF Moves, Page
    <3> QED BY <3>1, Partial
  <2>3. CASE /\ k \in DOMAIN page.shown /\ p.shown[k] = page.shown[k]
             /\ k \in DOMAIN p.streams =>
                   k \in DOMAIN page.streams /\ p.streams[k] = page.streams[k]
    BY <1>1, <1>6, <2>3 DEF ShownFits
  <2>4. CASE /\ p.shown[k] = [status |-> "failed", text |-> <<>>]
             /\ k \in DOMAIN p.streams => HeardAt(c, k)
    <3>1. HeardAt(c, k) => Heard(k)'
      BY <1>2 DEF HeardAt, Heard, About
    <3> QED BY <2>2, <2>4, <3>1, NothingSaid
  <2>5. CASE /\ k \in DOMAIN p.streams
             /\ p.shown[k] = [status |-> "streaming", text |-> p.streams[k]]
    BY <2>5 DEF Moves
  <2>6. CASE /\ k \notin DOMAIN p.streams
             /\ IsBeginning(k, p.shown[k].text)
             /\ p.shown[k].status = "complete" => StoredAs(k, p.shown[k].text)
    BY <2>6
  <2> QED BY <2>1, <2>3, <2>4, <2>5, <2>6 DEF Kinds
<1>8. ShownFits'
  BY <1>3, <1>7 DEF ShownFits
<1> QED BY <1>4, <1>5, <1>8

\* An entry with another status or text.
LEMMA EntryChanged ==
    ASSUME NEW entry \in Entry
    PROVE  /\ \A s : [entry EXCEPT !["status"] = s] = [status |-> s, text |-> entry.text]
           /\ \A x : [entry EXCEPT !["text"] = x] = [status |-> entry.status, text |-> x]
<1>1. entry = [status |-> entry.status, text |-> entry.text]
  BY DEF Entry
<1> QED BY <1>1 DEF Entry

\* What is shown after messages have failed, or got a status or a text.
LEMMA ShownChanged ==
    ASSUME NEW shown, \A k \in DOMAIN shown : shown[k] \in Entry, NEW keys
    PROVE  /\ \A s : /\ DOMAIN Mapped(shown, keys, "status", s) = DOMAIN shown
                     /\ \A k \in DOMAIN shown : Mapped(shown, keys, "status", s)[k] =
                           IF k \in keys THEN [status |-> s, text |-> shown[k].text] ELSE shown[k]
           /\ \A x : /\ DOMAIN Mapped(shown, keys, "text", x) = DOMAIN shown
                     /\ \A k \in DOMAIN shown : Mapped(shown, keys, "text", x)[k] =
                           IF k \in keys THEN [status |-> shown[k].status, text |-> x] ELSE shown[k]
           /\ DOMAIN Failed(shown, keys) = DOMAIN shown
           /\ \A k \in DOMAIN shown : Failed(shown, keys)[k] =
                 IF k \in keys THEN [status |-> "failed", text |-> <<>>] ELSE shown[k]
           /\ \A s \in {"complete", "failed"} :
                 Mapped(shown, keys, "status", s) \in [DOMAIN shown -> Entry]
           /\ \A x \in Texts : Mapped(shown, keys, "text", x) \in [DOMAIN shown -> Entry]
           /\ Failed(shown, keys) \in [DOMAIN shown -> Entry]
<1>1. ASSUME NEW s
      PROVE  /\ DOMAIN Mapped(shown, keys, "status", s) = DOMAIN shown
             /\ \A k \in DOMAIN shown : Mapped(shown, keys, "status", s)[k] =
                   IF k \in keys THEN [status |-> s, text |-> shown[k].text] ELSE shown[k]
  BY EntryChanged DEF Mapped
<1>2. ASSUME NEW x
      PROVE  /\ DOMAIN Mapped(shown, keys, "text", x) = DOMAIN shown
             /\ \A k \in DOMAIN shown : Mapped(shown, keys, "text", x)[k] =
                   IF k \in keys THEN [status |-> shown[k].status, text |-> x] ELSE shown[k]
  BY EntryChanged DEF Mapped
<1>3. PICK failed : failed = Mapped(shown, keys, "status", "failed")
  OBVIOUS
<1>4. /\ DOMAIN failed = DOMAIN shown
      /\ \A k \in DOMAIN shown : failed[k] =
            IF k \in keys THEN [status |-> "failed", text |-> shown[k].text] ELSE shown[k]
  BY <1>1, <1>3
<1>5. \A k \in DOMAIN failed : failed[k] \in Entry
  BY <1>4 DEF Entry
<1>6. Failed(shown, keys) = Mapped(failed, keys, "text", <<>>)
  BY <1>3 DEF Failed
<1>7. /\ DOMAIN Failed(shown, keys) = DOMAIN failed
      /\ \A k \in DOMAIN failed : Failed(shown, keys)[k] =
            IF k \in keys THEN [failed[k] EXCEPT !["text"] = <<>>] ELSE failed[k]
  BY <1>6 DEF Mapped
<1>8. \A k \in DOMAIN failed :
          [failed[k] EXCEPT !["text"] = <<>>] = [status |-> failed[k].status, text |-> <<>>]
  BY <1>5, EntryChanged
<1>9. ASSUME NEW k \in DOMAIN shown
      PROVE  Failed(shown, keys)[k] =
                 IF k \in keys THEN [status |-> "failed", text |-> <<>>] ELSE shown[k]
  BY <1>4, <1>7, <1>8
<1>10. ASSUME NEW s \in {"complete", "failed"}
       PROVE  Mapped(shown, keys, "status", s) \in [DOMAIN shown -> Entry]
  <2>1. ASSUME NEW k \in DOMAIN shown
        PROVE  Mapped(shown, keys, "status", s)[k] \in Entry
    <3>1. shown[k] \in Entry
      OBVIOUS
    <3>2. [status |-> s, text |-> shown[k].text] \in Entry
      BY <3>1 DEF Entry
    <3> QED BY <1>1, <3>1, <3>2
  <2> QED BY <1>1, <2>1 DEF Mapped
<1>11. ASSUME NEW x \in Texts
       PROVE  Mapped(shown, keys, "text", x) \in [DOMAIN shown -> Entry]
  <2>1. ASSUME NEW k \in DOMAIN shown
        PROVE  Mapped(shown, keys, "text", x)[k] \in Entry
    <3>1. shown[k] \in Entry
      OBVIOUS
    <3>2. [status |-> shown[k].status, text |-> x] \in Entry
      BY <3>1 DEF Entry
    <3> QED BY <1>2, <3>1, <3>2
  <2> QED BY <1>2, <2>1 DEF Mapped
<1>12. Failed(shown, keys) \in [DOMAIN shown -> Entry]
  <2>1. <<>> \in Texts
    BY LimitsAssumption, EmptySeq DEF Texts
  <2>2. \A k \in DOMAIN shown : Failed(shown, keys)[k] \in Entry
    BY <1>9, <2>1 DEF Entry
  <2> QED BY <1>4, <1>6, <1>7, <2>2 DEF Mapped
<1> QED BY <1>1, <1>2, <1>4, <1>7, <1>9, <1>10, <1>11, <1>12

\* A snapshot fails the unfinished messages of a turn that is over.
LEMMA SnapshotMoves ==
    ASSUME IInv, NEW c, NEW t \in Turns, NEW p, p = WithSnapshot(page, t)
    PROVE  Moves(p, c) /\ p.turn = t
<1>1. /\ page \in Page /\ DOMAIN page.streams \subseteq Keys
      /\ \A k \in DOMAIN page.streams : page.streams[k] \in Texts
      /\ DOMAIN page.shown \subseteq Keys
      /\ \A k \in DOMAIN page.shown : page.shown[k] \in Entry
      /\ StreamsFit
  BY PageHolds DEF IInv, Answers
<1>2. PICK open, streams, shown :
          /\ open = {k \in DOMAIN page.streams : k[1] = t.id /\ ~IsTurnActive(t)}
          /\ streams = WithoutStreams(page, open)
          /\ shown = Failed(page.shown, open)
  OBVIOUS
<1>3. p = [page EXCEPT !.turn = t, !.streams = streams, !.shown = shown]
  BY <1>2 DEF WithSnapshot
<1>4. /\ DOMAIN streams = DOMAIN page.streams \ open
      /\ \A k \in DOMAIN streams : streams[k] = page.streams[k]
      /\ streams \in [DOMAIN streams -> Texts]
  BY <1>1, <1>2 DEF WithoutStreams
<1>5. /\ DOMAIN shown = DOMAIN page.shown
      /\ \A k \in DOMAIN shown : shown[k] =
            IF k \in open THEN [status |-> "failed", text |-> <<>>] ELSE page.shown[k]
      /\ shown \in [DOMAIN shown -> Entry]
  <2>1. Failed(page.shown, open) = shown
    BY <1>2
  <2> QED BY <1>1, <2>1, ShownChanged
<1>6. /\ streams \in UNION {[D -> Texts] : D \in SUBSET Keys}
      /\ shown \in UNION {[D -> Entry] : D \in SUBSET Keys}
  <2>1. DOMAIN streams \subseteq Keys /\ streams \in [DOMAIN streams -> Texts]
    BY <1>1, <1>4
  <2>2. DOMAIN shown \subseteq Keys /\ shown \in [DOMAIN shown -> Entry]
    BY <1>1, <1>5
  <2>3. streams \in UNION {[D -> Texts] : D \in SUBSET Keys}
    BY <2>1, Partial
  <2>4. shown \in UNION {[D -> Entry] : D \in SUBSET Keys}
    BY <2>2, Partial
  <2> QED BY <2>3, <2>4
<1>7. /\ p \in Page /\ p.turn = t /\ p.cursor = page.cursor /\ p.asked = page.asked
      /\ p.streams = streams /\ p.shown = shown
  BY <1>1, <1>3, <1>6 DEF Page
<1>8. \A k \in DOMAIN streams : IsBeginning(k, streams[k])
  BY <1>1, <1>4 DEF StreamsFit
<1>9. ASSUME NEW k \in DOMAIN shown
      PROVE  Kinds(p, c, k)
  BY <1>4, <1>5, <1>7 DEF Kinds
<1> QED BY <1>7, <1>8, <1>9 DEF Moves

\* A message that begins to be put together has no text yet.
LEMMA OpenMoves ==
    ASSUME IInv, NEW c, NEW key \in Keys, NEW p, p = OpenStream(page, key)
    PROVE  Moves(p, c) /\ p.turn = page.turn
<1>1. /\ page \in Page /\ DOMAIN page.streams \subseteq Keys
      /\ \A k \in DOMAIN page.streams : page.streams[k] \in Texts
      /\ DOMAIN page.shown \subseteq Keys
      /\ \A k \in DOMAIN page.shown : page.shown[k] \in Entry
      /\ StreamsFit
  BY PageHolds DEF IInv, Answers
<1>2. CASE key \in DOMAIN page.streams
  <2>1. p = page
    BY <1>2 DEF OpenStream, StreamKey
  <2> QED BY <1>1, <2>1 DEF Moves, Kinds, StreamsFit
<1>3. CASE key \notin DOMAIN page.streams
  <2>1. PICK streams, shown :
            /\ streams = Put(page.streams, key, <<>>)
            /\ shown = Put(page.shown, key, [status |-> "streaming", text |-> <<>>])
    OBVIOUS
  <2>2. p = [page EXCEPT !.streams = streams, !.shown = shown]
    BY <1>3, <2>1 DEF OpenStream, StreamKey
  <2>3. <<>> \in Texts /\ IsBeginning(key, <<>>)
    BY NothingSaid
  <2>4. /\ DOMAIN streams = DOMAIN page.streams \cup {key}
        /\ \A k \in DOMAIN streams : streams[k] = IF k = key THEN <<>> ELSE page.streams[k]
        /\ streams \in [DOMAIN streams -> Texts]
    BY <1>1, <2>1, <2>3 DEF Put
  <2>5. [status |-> "streaming", text |-> <<>>] \in Entry
    BY <2>3 DEF Entry
  <2>6. /\ DOMAIN shown = DOMAIN page.shown \cup {key}
        /\ \A k \in DOMAIN shown : shown[k] =
              IF k = key THEN [status |-> "streaming", text |-> <<>>] ELSE page.shown[k]
        /\ shown \in [DOMAIN shown -> Entry]
    BY <1>1, <2>1, <2>5 DEF Put
  <2>7. /\ streams \in UNION {[D -> Texts] : D \in SUBSET Keys}
        /\ shown \in UNION {[D -> Entry] : D \in SUBSET Keys}
    <3>1. DOMAIN streams \subseteq Keys /\ streams \in [DOMAIN streams -> Texts]
      BY <1>1, <2>4
    <3>2. DOMAIN shown \subseteq Keys /\ shown \in [DOMAIN shown -> Entry]
      BY <1>1, <2>6
    <3>3. streams \in UNION {[D -> Texts] : D \in SUBSET Keys}
      BY <3>1, Partial
    <3>4. shown \in UNION {[D -> Entry] : D \in SUBSET Keys}
      BY <3>2, Partial
    <3> QED BY <3>3, <3>4
  <2>8. /\ p \in Page /\ p.turn = page.turn /\ p.cursor = page.cursor
        /\ p.asked = page.asked /\ p.streams = streams /\ p.shown = shown
    BY <1>1, <2>2, <2>7 DEF Page
  <2>9. \A k \in DOMAIN streams : IsBeginning(k, streams[k])
    BY <1>1, <2>3, <2>4 DEF StreamsFit
  <2>10. ASSUME NEW k \in DOMAIN shown
         PROVE  Kinds(p, c, k)
    BY <2>4, <2>6, <2>8 DEF Kinds
  <2> QED BY <2>8, <2>9, <2>10 DEF Moves
<1> QED BY <1>2, <1>3

\* The frame that the page takes next is a later one, of nothing it has heard of.
LEMMA NextFrame ==
    ASSUME IInv, wire # <<>>
    PROVE  /\ Len(wire) \in Nat /\ Len(wire) >= 1 /\ Head(wire) = wire[1]
           /\ wire[1] \in Sent /\ wire[1] \in Frame /\ wire[1].event \in Event
           /\ wire[1].id \in 0..MaxEvents /\ page.cursor \in Int /\ wire[1].id > page.cursor
           /\ \A k : Heard(k) => ~About(wire[1], k)
<1>1. wire \in Seq(Frame) /\ Len(wire) \in Nat /\ page.cursor \in Int /\ WireNumbered
  BY Numbers DEF IInv, Typed, GatewayTyped, Events
<1>2. Len(wire) >= 1
  BY <1>1, EmptySeq
<1>3. wire[1] \in Frame /\ Head(wire) = wire[1]
  BY <1>1, <1>2, ElementOfSeq, HeadTailProperties
<1>4. wire[1] \in Sent
  BY <1>1, <1>2 DEF Sent
<1>5. wire[1].id \in 0..MaxEvents /\ wire[1].event \in Event
  BY <1>3 DEF Frame
<1>6. wire[1].id > page.cursor
  BY <1>1, <1>5, LimitsAssumption DEF WireNumbered
<1>7. \A k : Heard(k) => ~About(wire[1], k)
  BY <1>4, <1>6 DEF Heard
<1> QED BY <1>1, <1>2, <1>3, <1>4, <1>5, <1>6, <1>7

\* The next chunk of a message makes its beginning longer; another is passed over.
LEMMA ChunkMoves ==
    ASSUME IInv, wire # <<>>, NEW c, NEW e, e = wire[1].event, e.type = "chunk",
           NEW p, p = TakeChunk(page, e.key, e.chunk)
    PROVE  Moves(p, c) /\ p.turn = page.turn
<1>1. /\ page \in Page /\ DOMAIN page.streams \subseteq Keys
      /\ \A k \in DOMAIN page.streams : page.streams[k] \in Texts
      /\ DOMAIN page.shown \subseteq Keys
      /\ \A k \in DOMAIN page.shown : page.shown[k] \in Entry
      /\ StreamsFit /\ ShownFits /\ FramesFit
  BY PageHolds DEF IInv, Answers
<1>2. PICK key, chunk : key = e.key /\ chunk = e.chunk
  OBVIOUS
<1>3. key \in Keys /\ chunk \in ChunkNames
  BY <1>2, NextFrame, EventKey
<1>4. key = <<chunk[1], chunk[2]>> /\ chunk[3] < MaxChunks
  BY <1>1, <1>2, NextFrame DEF FramesFit
<1>5. ~Heard(key)
  BY <1>2, NextFrame DEF About
<1>6. CASE key \notin DOMAIN page.streams \/ ~IsNext(page.streams[key], chunk)
  <2>1. p = page
    BY <1>2, <1>6 DEF TakeChunk, StreamKey
  <2> QED BY <1>1, <2>1 DEF Moves, Kinds, StreamsFit
<1>7. CASE key \in DOMAIN page.streams /\ IsNext(page.streams[key], chunk)
  <2>1. PICK n \in 0..MaxChunks : page.streams[key] = Text(key[1], key[2], n)
    BY <1>1, <1>7 DEF StreamsFit, IsBeginning
  <2>2. PICK t \in TurnIds, m \in 1..MaxMessages : t = key[1] /\ m = key[2]
    BY <1>3, KeyTurn
  <2>3. Len(page.streams[key]) = n
    BY <2>1, <2>2, TextOf
  <2>4. chunk = <<t, m, n>> /\ n < MaxChunks
    <3>1. chunk = <<chunk[1], chunk[2], chunk[3]>>
      BY <1>3 DEF ChunkNames
    <3>2. chunk[3] = n
      BY <1>7, <2>3 DEF IsNext
    <3>3. chunk[1] = t /\ chunk[2] = m
      BY <1>4, <2>2
    <3> QED BY <1>4, <3>1, <3>2, <3>3
  <2>5. PICK text : text = Append(page.streams[key], chunk)
    OBVIOUS
  <2>6. text = Text(key[1], key[2], n + 1) /\ n + 1 \in 0..MaxChunks /\ text \in Texts
    <3>1. n + 1 \in 0..MaxChunks
      BY <2>4, LimitsAssumption
    <3>2. text = Text(t, m, n + 1)
      BY <2>1, <2>2, <2>4, <2>5, TextGrows
    <3>3. Text(t, m, n + 1) \in Texts
      BY <3>1, TextOf
    <3> QED BY <2>2, <3>1, <3>2, <3>3
  <2>7. PICK streams, shown :
            /\ streams = [page.streams EXCEPT ![key] = text]
            /\ shown = Mapped(page.shown, {key}, "text", text)
    OBVIOUS
  <2>8. p = [page EXCEPT !.streams = streams, !.shown = shown]
    <3>1. p = [page EXCEPT !.streams[key] = text, !.shown = Mapped(@, {key}, "text", text)]
      BY <1>2, <1>7, <2>5 DEF TakeChunk, StreamKey
    <3> QED BY <2>7, <3>1
  <2>9. /\ DOMAIN streams = DOMAIN page.streams
        /\ \A k \in DOMAIN streams : streams[k] = IF k = key THEN text ELSE page.streams[k]
        /\ streams \in [DOMAIN streams -> Texts]
    <3>1. page.streams \in [DOMAIN page.streams -> Texts]
      <4>1. page.streams \in UNION {[D -> Texts] : D \in SUBSET Keys}
        BY <1>1 DEF Page
      <4> QED BY <4>1, Partial
    <3> QED BY <2>6, <2>7, <3>1
  <2>10. /\ DOMAIN shown = DOMAIN page.shown
         /\ \A k \in DOMAIN shown : shown[k] =
               IF k = key THEN [status |-> page.shown[k].status, text |-> text]
               ELSE page.shown[k]
         /\ shown \in [DOMAIN shown -> Entry]
    <3>1. Mapped(page.shown, {key}, "text", text) = shown
      BY <2>7
    <3>2. /\ DOMAIN shown = DOMAIN page.shown
          /\ \A k \in DOMAIN page.shown : shown[k] =
               IF k \in {key} THEN [status |-> page.shown[k].status, text |-> text]
               ELSE page.shown[k]
          /\ shown \in [DOMAIN page.shown -> Entry]
      <4>1. text \in Texts /\ \A k \in DOMAIN page.shown : page.shown[k] \in Entry
        BY <1>1, <2>6
      <4>2. shown \in [DOMAIN page.shown -> Entry]
        BY <3>1, <4>1, ShownChanged
      <4>3. /\ DOMAIN shown = DOMAIN page.shown
            /\ \A k \in DOMAIN page.shown : shown[k] =
                 IF k \in {key} THEN [status |-> page.shown[k].status, text |-> text]
                 ELSE page.shown[k]
        BY <3>1, <4>1, EntryChanged DEF Mapped
      <4> QED BY <4>2, <4>3
    <3> QED BY <3>2
  <2>11. /\ streams \in UNION {[D -> Texts] : D \in SUBSET Keys}
         /\ shown \in UNION {[D -> Entry] : D \in SUBSET Keys}
    <3>1. DOMAIN streams \subseteq Keys /\ DOMAIN shown \subseteq Keys
      BY <1>1, <2>9, <2>10
    <3> QED BY <2>9, <2>10, <3>1, Partial
  <2>12. /\ p \in Page /\ p.turn = page.turn /\ p.cursor = page.cursor
         /\ p.asked = page.asked /\ p.streams = streams /\ p.shown = shown
    BY <1>1, <2>8, <2>11 DEF Page
  <2>13. ASSUME NEW k \in DOMAIN streams
         PROVE  IsBeginning(k, streams[k])
    BY <1>1, <2>6, <2>9 DEF StreamsFit, IsBeginning
  <2>14. ASSUME NEW k \in DOMAIN shown
         PROVE  Kinds(p, c, k)
    <3>1. CASE k # key
      BY <2>9, <2>10, <2>12, <3>1 DEF Kinds
    <3>2. CASE k = key
      <4>1. page.shown[k].status = "streaming"
        BY <1>1, <1>5, <1>7, <2>10, <3>2 DEF ShownFits
      <4>2. p.shown[k] = [status |-> "streaming", text |-> p.streams[k]]
        BY <1>7, <2>9, <2>10, <2>12, <3>2, <4>1
      <4> QED BY <1>7, <2>9, <2>12, <3>2, <4>2 DEF Kinds
    <3> QED BY <3>1, <3>2
  <2> QED BY <2>12, <2>13, <2>14 DEF Moves
<1> QED BY <1>6, <1>7

\* A completion shows the stored message, or fails it.
LEMMA CompletionMoves ==
    ASSUME IInv, wire # <<>>, NEW c, c = wire[1].id,
           NEW e, e = wire[1].event, e.type = "completed",
           NEW p, p = CompleteMessage(page, e.key, e.digest)
    PROVE  Moves(p, c) /\ p.turn = page.turn
<1>1. /\ page \in Page /\ DOMAIN page.streams \subseteq Keys
      /\ \A k \in DOMAIN page.streams : page.streams[k] \in Texts
      /\ DOMAIN page.shown \subseteq Keys
      /\ \A k \in DOMAIN page.shown : page.shown[k] \in Entry
      /\ StreamsFit /\ ShownFits /\ FramesFit
  BY PageHolds DEF IInv, Answers
<1>2. PICK key, digest : key = e.key /\ digest = e.digest
  OBVIOUS
<1>3. key \in Keys /\ digest \in Texts
  BY <1>2, NextFrame, EventKey
<1>4. ~Heard(key)
  BY <1>2, NextFrame DEF About
<1>5. /\ Over(key[1]) /\ StoredAs(key, digest)
      /\ \A g \in Sent : g.id > wire[1].id => ~About(g, key)
  BY <1>1, <1>2, NextFrame DEF FramesFit
<1>6. HeardAt(c, key)
  BY <1>5 DEF HeardAt
<1>7. CASE key \notin DOMAIN page.streams \/ Len(page.streams[key]) # Len(digest)
  <2>1. PICK shown : shown = Failed(page.shown, {key})
    OBVIOUS
  <2>2. p = [page EXCEPT !.shown = shown]
    BY <1>2, <1>7, <2>1 DEF CompleteMessage, StreamKey
  <2>3. /\ DOMAIN shown = DOMAIN page.shown
        /\ \A k \in DOMAIN shown : shown[k] =
              IF k = key THEN [status |-> "failed", text |-> <<>>] ELSE page.shown[k]
        /\ shown \in [DOMAIN shown -> Entry]
    <3>1. Failed(page.shown, {key}) = shown /\ \A k \in DOMAIN page.shown : page.shown[k] \in Entry
      BY <1>1, <2>1
    <3>2. /\ DOMAIN shown = DOMAIN page.shown
          /\ \A k \in DOMAIN page.shown : shown[k] =
               IF k \in {key} THEN [status |-> "failed", text |-> <<>>] ELSE page.shown[k]
      BY <3>1, ShownChanged
    <3>3. shown \in [DOMAIN page.shown -> Entry]
      BY <3>1, ShownChanged
    <3> QED BY <3>2, <3>3
  <2>4. shown \in UNION {[D -> Entry] : D \in SUBSET Keys}
    BY <1>1, <2>3, Partial
  <2>5. /\ p \in Page /\ p.turn = page.turn /\ p.cursor = page.cursor
        /\ p.asked = page.asked /\ p.streams = page.streams /\ p.shown = shown
    BY <1>1, <2>2, <2>4 DEF Page
  <2>6. ASSUME NEW k \in DOMAIN shown
        PROVE  Kinds(p, c, k)
    BY <1>6, <2>3, <2>5 DEF Kinds
  <2> QED BY <1>1, <2>5, <2>6 DEF Moves, StreamsFit
<1>8. CASE key \in DOMAIN page.streams /\ Len(page.streams[key]) = Len(digest)
  <2>1. PICK status \in {"complete", "failed"} :
            status = IF Verified(page.streams[key], digest) THEN "complete" ELSE "failed"
    OBVIOUS
  <2>2. PICK streams, shown :
            /\ streams = WithoutStreams(page, {key})
            /\ shown = Mapped(page.shown, {key}, "status", status)
    OBVIOUS
  <2>3. p = [page EXCEPT !.streams = streams, !.shown = shown]
    <3>1. p = [page EXCEPT !.streams = WithoutStreams(page, {key}),
                           !.shown = Mapped(@, {key}, "status",
                              IF Verified(page.streams[key], digest) THEN "complete" ELSE "failed")]
      BY <1>2, <1>8 DEF CompleteMessage, StreamKey
    <3> QED BY <2>1, <2>2, <3>1
  <2>4. /\ DOMAIN streams = DOMAIN page.streams \ {key}
        /\ \A k \in DOMAIN streams : streams[k] = page.streams[k]
        /\ streams \in [DOMAIN streams -> Texts]
    BY <1>1, <2>2 DEF WithoutStreams
  <2>5. /\ DOMAIN shown = DOMAIN page.shown
        /\ \A k \in DOMAIN shown : shown[k] =
              IF k = key THEN [status |-> status, text |-> page.shown[k].text] ELSE page.shown[k]
        /\ shown \in [DOMAIN shown -> Entry]
    <3>1. /\ Mapped(page.shown, {key}, "status", status) = shown
          /\ \A k \in DOMAIN page.shown : page.shown[k] \in Entry
      BY <1>1, <2>2
    <3>2. /\ DOMAIN shown = DOMAIN page.shown
          /\ \A k \in DOMAIN page.shown : shown[k] =
               IF k \in {key} THEN [status |-> status, text |-> page.shown[k].text]
               ELSE page.shown[k]
      BY <3>1, ShownChanged
    <3>3. shown \in [DOMAIN page.shown -> Entry]
      BY <2>1, <3>1, ShownChanged
    <3> QED BY <3>2, <3>3
  <2>6. /\ streams \in UNION {[D -> Texts] : D \in SUBSET Keys}
        /\ shown \in UNION {[D -> Entry] : D \in SUBSET Keys}
    <3>1. DOMAIN streams \subseteq Keys /\ DOMAIN shown \subseteq Keys
      BY <1>1, <2>4, <2>5
    <3>2. streams \in UNION {[D -> Texts] : D \in SUBSET Keys}
      <4>1. DOMAIN streams \subseteq Keys /\ streams \in [DOMAIN streams -> Texts]
        BY <2>4, <3>1
      <4> QED BY <4>1, Partial
    <3>3. shown \in UNION {[D -> Entry] : D \in SUBSET Keys}
      BY <2>5, <3>1, Partial
    <3> QED BY <3>2, <3>3
  <2>7. /\ p \in Page /\ p.turn = page.turn /\ p.cursor = page.cursor
        /\ p.asked = page.asked /\ p.streams = streams /\ p.shown = shown
    BY <1>1, <2>3, <2>6 DEF Page
  <2>8. \A k \in DOMAIN streams : IsBeginning(k, streams[k])
    BY <1>1, <2>4 DEF StreamsFit
  <2>9. ASSUME NEW k \in DOMAIN shown
        PROVE  Kinds(p, c, k)
    <3>1. CASE k # key
      BY <2>4, <2>5, <2>7, <3>1 DEF Kinds
    <3>2. CASE k = key
      <4>1. page.shown[k].text = page.streams[k] /\ IsBeginning(k, page.shown[k].text)
        BY <1>1, <1>4, <1>8, <2>5, <3>2 DEF ShownFits
      <4>2. p.shown[k] = [status |-> status, text |-> page.shown[k].text]
            /\ k \notin DOMAIN p.streams
        BY <2>4, <2>5, <2>7, <3>2
      <4>3. status = "complete" => StoredAs(k, page.shown[k].text)
        BY <1>5, <2>1, <3>2, <4>1 DEF Verified
      <4> QED BY <4>1, <4>2, <4>3 DEF Kinds
    <3> QED BY <3>1, <3>2
  <2> QED BY <2>7, <2>8, <2>9 DEF Moves
<1> QED BY <1>7, <1>8

\* applyEvent, of the next frame.
LEMMA AppliedMoves ==
    ASSUME IInv, wire # <<>>, NEW c, c = wire[1].id, NEW e, e = wire[1].event, NEW p, p = Applied(page, e)
    PROVE  Moves(p, c) /\ p.turn = IF e.type = "state" THEN e.turn ELSE page.turn
<1>1. e \in Event
  BY NextFrame
<1>2. CASE e.type = "state"
  <2>1. p = WithSnapshot(page, e.turn)
    BY <1>2 DEF Applied, IsStartedEvent, IsChunkEvent, IsCompletedEvent
  <2>2. e.turn \in Turns
    BY <1>1, <1>2, EventKey
  <2> QED BY <1>2, <2>1, <2>2, SnapshotMoves
<1>3. CASE e.type # "state"
  <2>1. \/ p = page
        \/ e.type = "started" /\ p = OpenStream(page, e.key)
        \/ e.type = "chunk" /\ p = TakeChunk(page, e.key, e.chunk)
        \/ e.type = "completed" /\ p = CompleteMessage(page, e.key, e.digest)
    BY <1>3 DEF Applied, IsStartedEvent, IsChunkEvent, IsCompletedEvent
  <2>2. CASE p = page
    <3>1. page \in Page /\ StreamsFit
      BY PageHolds DEF IInv, Answers
    <3> QED BY <1>3, <2>2, <3>1 DEF Moves, Kinds, StreamsFit
  <2>3. CASE e.type = "started" /\ p = OpenStream(page, e.key)
    BY <1>1, <1>3, <2>3, EventKey, OpenMoves
  <2>4. CASE e.type = "chunk" /\ p = TakeChunk(page, e.key, e.chunk)
    BY <1>3, <2>4, ChunkMoves
  <2>5. CASE e.type = "completed" /\ p = CompleteMessage(page, e.key, e.digest)
    BY <1>3, <2>5, CompletionMoves
  <2> QED BY <2>1, <2>2, <2>3, <2>4, <2>5
<1> QED BY <1>2, <1>3

\* A step that leaves the buffer and the turn leaves what it says of the turn.
LEMMA BufferKept ==
    ASSUME IInv, UNCHANGED <<turn, nextEventId, replay>>
    PROVE  /\ Oldest' = Oldest /\ ReplayNumbered' /\ ReplayTold'
           /\ \A d, t : Tells(d, t)' <=> Tells(d, t)
           /\ \A d, t : TellsThen(d, t) <=> Tells(d, t)
<1>1. Oldest' = Oldest
  BY DEF Oldest
<1>2. ReplayNumbered'
  BY <1>1 DEF IInv, Events, ReplayNumbered
<1>3. /\ \A d, t : Tells(d, t)' <=> Tells(d, t)
      /\ \A d, t : TellsThen(d, t) <=> Tells(d, t)
  BY <1>1 DEF Tells, TellsThen
<1>4. ReplayTold'
  BY <1>3 DEF IInv, Events, ReplayTold
<1> QED BY <1>1, <1>2, <1>3, <1>4

\* The page has not taken more events than there are.
LEMMA CursorBound ==
    ASSUME IInv
    PROVE  page.cursor \in Int /\ page.cursor < nextEventId /\ nextEventId \in Nat
<1>1. /\ WireNumbered /\ page.cursor \in Int /\ nextEventId \in Nat /\ Len(wire) \in Nat
      /\ \A i \in 1..Len(wire) : wire[i].id \in Nat
  BY Numbers DEF IInv, Events
<1>2. CASE wire = <<>>
  BY <1>1, <1>2 DEF WireNumbered, Reach
<1>3. CASE wire # <<>>
  <2>1. Len(wire) \in 1..Len(wire) /\ 1 \in 1..Len(wire)
    <3>1. Len(wire) >= 1
      BY <1>3, NextFrame
    <3> QED BY <1>1, <3>1
  <2>2. wire[Len(wire)].id = wire[1].id + Len(wire) - 1
    BY <1>1, <2>1 DEF WireNumbered
  <2>3. page.cursor < wire[1].id /\ wire[Len(wire)].id < nextEventId
    BY <1>1, <1>3 DEF WireNumbered, Reach
  <2> QED BY <1>1, <2>1, <2>2, <2>3
<1> QED BY <1>2, <1>3

\* A connection that ends takes its frames with it.
LEMMA NoFrames ==
    ASSUME IInv, UNCHANGED <<nextEventId, replay>>, wire' = <<>>, connection' = "none"
    PROVE  GatewayTyped' /\ \A f \in Sent' : f \in Sent
<1>1. <<>> \in Seq(Frame) /\ \A i : i \notin 1..Len(<<>>)
  BY EmptySeq
<1>2. GatewayTyped'
  BY <1>1 DEF IInv, Typed, GatewayTyped
<1>3. \A f \in Sent' : f \in Sent
  BY <1>1 DEF Sent
<1> QED BY <1>2, <1>3

\* A lost connection: the page has what it had, and nothing is on the way.
LEMMA DisconnectStep ==
    ASSUME IInv, Disconnect
    PROVE  IInv'
<1>1. /\ connection' = "none" /\ wire' = <<>>
      /\ UNCHANGED <<turn, projector, saving, rows, nextEventId, replay, request, answer, page,
                     changes, reloads, skipped, overtaken>>
  BY DEF Disconnect, hostVars, bounds, history
<1>2. HostTyped' /\ HostFits' /\ PageTyped'
  BY <1>1 DEF IInv, Typed, Answers, HostTyped, HostFits, PageTyped
<1>3. GatewayTyped' /\ \A f \in Sent' : f \in Sent
  BY <1>1, NoFrames
<1>4. /\ ReplayNumbered' /\ ReplayTold'
      /\ \A c, t : Tells(c, t)' <=> Tells(c, t)
  BY <1>1, BufferKept
<1>5. \A i : i \notin 1..Len(<<>>)
  BY EmptySeq
<1>6. WireNumbered'
  BY <1>1, <1>5, CursorBound DEF WireNumbered, Reach
<1>7. WireTold'
  BY <1>1, <1>5 DEF WireTold
<1>8. PageTold'
  BY <1>1, <1>4, <1>5 DEF IInv, Events, PageTold
<1>9. ASSUME NEW c
      PROVE  Moves(page, c)
  BY PageHolds DEF IInv, Answers, Moves, Kinds, StreamsFit
<1>10. FramesFit' /\ StreamsFit' /\ ShownFits'
  <2>1. PICK p, c : p = page /\ c = page.cursor
    OBVIOUS
  <2>2. Moves(p, c)
    BY <1>9, <2>1
  <2>3. c \in Int /\ page'.cursor = c /\ c >= page.cursor
    BY <1>1, <2>1, CursorBound
  <2> QED BY <1>1, <1>3, <2>1, <2>2, <2>3, PageAnswers
<1> QED BY <1>2, <1>3, <1>4, <1>6, <1>7, <1>8, <1>10 DEF IInv, Typed, Events, Answers

\* A page that holds no message.
LEMMA NothingHeld ==
    ASSUME NEW none, none = <<>>
    PROVE  /\ DOMAIN none = {} /\ none \in UNION {[D -> Texts] : D \in SUBSET Keys}
           /\ none \in UNION {[D -> Entry] : D \in SUBSET Keys}
<1>1. DOMAIN none = {} /\ none = [k \in {} |-> k]
  OBVIOUS
<1>2. {} \in SUBSET Keys
  OBVIOUS
<1>3. PICK empty : empty = {}
  OBVIOUS
<1>4. none = [k \in empty |-> k]
  BY <1>1, <1>3
<1>5. none \in [empty -> Texts] /\ none \in [empty -> Entry]
  BY <1>3, <1>4
<1> QED BY <1>1, <1>2, <1>3, <1>5

\* A page that has just been loaded holds nothing.
LEMMA FreshPage ==
    ASSUME NEW t \in Turns, NEW asked \in 0..MaxTurns, NEW loading \in BOOLEAN,
           NEW p, p = Fresh(t, asked, loading)
    PROVE  /\ p \in Page /\ p.turn = t /\ p.cursor = -1 /\ p.asked = asked
           /\ DOMAIN p.streams = {} /\ DOMAIN p.shown = {}
<1>1. PICK none : none = <<>>
  OBVIOUS
<1>2. DOMAIN none = {}
  BY <1>1, NothingHeld
<1>3. /\ none \in UNION {[D -> Texts] : D \in SUBSET Keys}
      /\ none \in UNION {[D -> Entry] : D \in SUBSET Keys}
  BY <1>1, NothingHeld
<1>4. NoCursor \in NoCursor..MaxEvents /\ NoCursor = -1 /\ 0 \in 0..MaxTurns
  BY LimitsAssumption DEF NoCursor
<1>5. p = [turn |-> t, cursor |-> NoCursor, streams |-> none, shown |-> none,
           asked |-> asked, last |-> 0, working |-> FALSE, loading |-> loading]
  BY <1>1 DEF Fresh
<1>6. p \in Page
  BY <1>3, <1>4, <1>5 DEF Page
<1> QED BY <1>2, <1>4, <1>5, <1>6

\* The page is loaded anew, with the host's turn and without a cursor.
LEMMA ReloadStep ==
    ASSUME IInv, Reload
    PROVE  IInv'
<1>1. /\ page' = Fresh(turn, page.asked, TRUE)
      /\ connection' = "none" /\ wire' = <<>> /\ answer' = NoAnswer
      /\ skipped' = FALSE /\ overtaken' = FALSE
      /\ reloads < MaxReloads /\ reloads' = reloads + 1
      /\ UNCHANGED <<turn, projector, saving, rows, nextEventId, replay, request, changes>>
  BY DEF Reload, hostVars
<1>2. PICK p : p = Fresh(turn, page.asked, TRUE)
  OBVIOUS
<1>3. /\ p \in Page /\ p.turn = turn /\ p.cursor = -1 /\ p.asked = page.asked
      /\ DOMAIN p.streams = {} /\ DOMAIN p.shown = {}
  <2>1. PICK t \in Turns, asked \in 0..MaxTurns, loading \in BOOLEAN :
            t = turn /\ asked = page.asked /\ loading = TRUE
    BY TurnNumbers
  <2>2. p = Fresh(t, asked, loading)
    BY <1>2, <2>1
  <2>3. /\ p \in Page /\ p.turn = t /\ p.cursor = -1 /\ p.asked = asked
        /\ DOMAIN p.streams = {} /\ DOMAIN p.shown = {}
    BY <2>2, FreshPage
  <2> QED BY <2>1, <2>3
<1>4. page' = p
  BY <1>1, <1>2
<1>5. HostTyped'
  BY <1>1 DEF IInv, Typed, HostTyped
<1>6. HostFits'
  BY <1>1, <1>3, <1>4 DEF IInv, Answers, HostFits
<1>7. PageTyped'
  <2>1. reloads \in 0..MaxReloads /\ changes \in 0..MaxChanges
    BY DEF IInv, Typed, PageTyped
  <2>2. reloads' \in 0..MaxReloads
    BY <1>1, <2>1, LimitsAssumption
  <2> QED BY <1>1, <1>3, <1>4, <2>1, <2>2 DEF PageTyped
<1>8. GatewayTyped' /\ \A f \in Sent' : f \in Sent
  BY <1>1, NoFrames
<1>9. ReplayNumbered' /\ ReplayTold'
  BY <1>1, BufferKept
<1>10. \A i : i \notin 1..Len(<<>>)
  BY EmptySeq
<1>11. WireNumbered'
  <2>1. Reach' = -1 /\ nextEventId' \in Nat
    BY <1>1, <1>3, <1>4, CursorBound DEF Reach
  <2> QED BY <1>1, <1>10, <2>1 DEF WireNumbered
<1>12. WireTold'
  BY <1>1, <1>10 DEF WireTold
<1>13. PageTold'
  <2>1. page'.turn = turn'
    BY <1>1, <1>3, <1>4
  <2> QED BY <1>1, <1>10, <2>1 DEF PageTold, Tells
<1>14. FramesFit'
  <2>1. \A t : Over(t)' <=> Over(t)
    BY <1>1, <1>3, <1>4 DEF Over
  <2>2. \A k, text : StoredAs(k, text)' <=> StoredAs(k, text)
    BY <1>1 DEF StoredAs
  <2>3. FramesFit
    BY DEF IInv, Answers
  <2> QED BY <1>8, <2>1, <2>2, <2>3 DEF FramesFit, About
<1>15. StreamsFit' /\ ShownFits'
  BY <1>3, <1>4 DEF StreamsFit, ShownFits
<1> QED BY <1>5, <1>6, <1>7, <1>8, <1>9, <1>11, <1>12, <1>13, <1>14, <1>15
        DEF IInv, Typed, Events, Answers

\* A step of the page alone, which may replace its snapshot by one of an answer.
LEMMA PageStep ==
    ASSUME IInv, UNCHANGED <<turn, projector, saving, rows, request, gatewayVars, skipped>>,
           NEW p, NEW c, c = page.cursor, Moves(p, c), PageTyped', answer' \in Turns \cup {Error, NoAnswer},
           page'.streams = p.streams, page'.shown = p.shown, page'.asked = p.asked,
           page'.cursor = c,
           overtaken' = TRUE \/ (overtaken' = overtaken /\ page'.turn = page.turn)
    PROVE  IInv'
<1>1. HostTyped' /\ GatewayTyped'
  BY DEF IInv, Typed, HostTyped, GatewayTyped, gatewayVars
<1>2. HostFits'
  BY DEF IInv, Answers, HostFits, Moves
<1>3. ReplayNumbered' /\ ReplayTold' /\ \A d, t : Tells(d, t)' <=> Tells(d, t)
  BY BufferKept DEF gatewayVars
<1>4. wire' = wire /\ connection' = connection /\ nextEventId' = nextEventId /\ replay' = replay
  BY DEF gatewayVars
<1>5. WireNumbered'
  BY <1>4 DEF IInv, Events, WireNumbered, Reach
<1>6. WireTold'
  BY <1>3, <1>4 DEF IInv, Events, WireTold, NoState
<1>7. PageTold'
  BY <1>3, <1>4 DEF IInv, Events, PageTold, NoState
<1>8. FramesFit' /\ StreamsFit' /\ ShownFits'
  <2>1. \A f \in Sent' : f \in Sent
    BY <1>4 DEF Sent
  <2>2. c \in Int /\ c >= page.cursor
    BY CursorBound
  <2> QED BY <2>1, <2>2, PageAnswers
<1> QED BY <1>1, <1>2, <1>3, <1>5, <1>6, <1>7, <1>8 DEF IInv, Typed, Events, Answers

\* The stored messages replace what was shown.
LEMMA MessagesLoadedStep ==
    ASSUME IInv, MessagesLoaded
    PROVE  IInv'
<1>1. /\ page' = [page EXCEPT !.shown = <<>>, !.loading = FALSE]
      /\ UNCHANGED <<turn, projector, saving, rows, request, gatewayVars, answer,
                     changes, reloads, skipped, overtaken>>
  BY DEF MessagesLoaded, hostVars, bounds, history
<1>2. PICK p, c, none : none = <<>> /\ c = page.cursor /\ p = [page EXCEPT !.shown = none]
  OBVIOUS
<1>3. page \in Page /\ StreamsFit
  BY PageHolds DEF IInv, Answers
<1>4. DOMAIN none = {} /\ none \in UNION {[D -> Entry] : D \in SUBSET Keys}
  BY <1>2, NothingHeld
<1>5. /\ p \in Page /\ p.shown = none /\ p.streams = page.streams
      /\ p.cursor = page.cursor /\ p.asked = page.asked /\ p.turn = page.turn
  BY <1>2, <1>3, <1>4 DEF Page
<1>6. Moves(p, c)
  BY <1>3, <1>4, <1>5 DEF Moves, StreamsFit
<1>7. page' = [p EXCEPT !.loading = FALSE]
  BY <1>1, <1>2, <1>3 DEF Page
<1>8. /\ page' \in Page /\ page'.shown = p.shown /\ page'.streams = p.streams
      /\ page'.cursor = p.cursor /\ page'.asked = p.asked /\ page'.turn = p.turn
  BY <1>5, <1>7 DEF Page
<1>9. PageTyped'
  BY <1>1, <1>8 DEF IInv, Typed, PageTyped
<1>10. answer' \in Turns \cup {Error, NoAnswer}
  BY <1>1 DEF IInv, Typed, HostTyped
<1> QED BY <1>1, <1>2, <1>5, <1>6, <1>8, <1>9, <1>10, PageStep

\* The answer to a request, with a snapshot unless it is an error.
LEMMA ReceiveAnswerStep ==
    ASSUME IInv, ReceiveAnswer
    PROVE  IInv'
<1>1. /\ answer # NoAnswer /\ answer' = NoAnswer
      /\ page' = [(IF answer = Error THEN page ELSE WithSnapshot(page, answer))
                      EXCEPT !.working = FALSE]
      /\ overtaken' = (overtaken \/ answer # Error)
      /\ UNCHANGED <<turn, projector, saving, rows, request, gatewayVars, changes, reloads, skipped>>
  BY DEF ReceiveAnswer, hostVars, bounds
<1>2. PICK p, c : c = page.cursor /\ p = IF answer = Error THEN page ELSE WithSnapshot(page, answer)
  OBVIOUS
<1>3. Moves(p, c) /\ (answer = Error => p.turn = page.turn)
  <2>1. CASE answer = Error
    BY <1>2, <2>1, PageHolds DEF IInv, Answers, Moves, Kinds, StreamsFit
  <2>2. CASE answer # Error
    <3>1. answer \in Turns
      BY <1>1, <2>2 DEF IInv, Typed, HostTyped
    <3> QED BY <1>2, <2>2, <3>1, SnapshotMoves
  <2> QED BY <2>1, <2>2
<1>4. page' = [p EXCEPT !.working = FALSE] /\ p \in Page /\ p.cursor = page.cursor
  BY <1>1, <1>2, <1>3 DEF Moves
<1>5. /\ page' \in Page /\ page'.shown = p.shown /\ page'.streams = p.streams
      /\ page'.cursor = page.cursor /\ page'.asked = p.asked /\ page'.turn = p.turn
  BY <1>4 DEF Page
<1>6. PageTyped' /\ (overtaken' = TRUE \/ (overtaken' = overtaken /\ answer = Error))
  <2>1. overtaken \in BOOLEAN
    BY DEF IInv, Typed, PageTyped
  <2>2. overtaken' \in BOOLEAN /\ (overtaken' = TRUE \/ (overtaken' = overtaken /\ answer = Error))
    <3>1. CASE answer = Error
      BY <1>1, <2>1, <3>1
    <3>2. CASE answer # Error
      BY <1>1, <2>1, <3>2
    <3> QED BY <3>1, <3>2
  <2>3. skipped \in BOOLEAN /\ changes \in 0..MaxChanges /\ reloads \in 0..MaxReloads
    BY DEF IInv, Typed, PageTyped
  <2> QED BY <1>1, <1>5, <2>2, <2>3 DEF PageTyped
<1> QED BY <1>1, <1>2, <1>3, <1>5, <1>6, PageStep

\* The page asks for a turn, with a number of its own.
LEMMA SendPromptStep ==
    ASSUME IInv, SendPrompt
    PROVE  IInv'
<1>1. /\ page.asked < MaxTurns /\ request = 0
      /\ page' = [page EXCEPT !.asked = page.asked + 1, !.last = page.asked + 1, !.working = TRUE]
      /\ request' = page.asked + 1
      /\ UNCHANGED <<turn, projector, saving, rows, gatewayVars, answer, changes, reloads, history>>
  BY PageHolds DEF SendPrompt, hostVars, bounds, IInv, Page
<1>2. /\ page \in Page /\ page.asked \in 0..MaxTurns /\ MaxTurns \in Nat
      /\ page.asked + 1 \in 1..MaxTurns
  BY <1>1, TurnNumbers, PageHolds DEF IInv
<1>3. /\ page' \in Page /\ page'.asked = page.asked + 1
      /\ page'.turn = page.turn /\ page'.cursor = page.cursor
      /\ page'.streams = page.streams /\ page'.shown = page.shown
  <2>1. PICK n \in 0..MaxTurns : n = page.asked + 1
    BY <1>2
  <2>2. page' = [page EXCEPT !.asked = n, !.last = n, !.working = TRUE]
    BY <1>1, <2>1
  <2>3. page \in Page
    BY <1>2
  <2> QED BY <2>1, <2>2, <2>3 DEF Page
<1>4. HostTyped' /\ PageTyped'
  BY <1>1, <1>2, <1>3 DEF IInv, Typed, HostTyped, PageTyped, history
<1>5. HostFits /\ turn.id \in 0..MaxTurns /\ saving.turn \in 0..MaxTurns /\ TurnIds = 1..MaxTurns
  BY TurnNumbers
<1>6. HostFits'
  <2>1. /\ request' # 0 => request' = page'.asked
        /\ turn'.id <= page'.asked
        /\ turn'.id = 0 => ~IsTurnActive(turn')
        /\ turn'.id # 0 => turn'.id # request'
    BY <1>1, <1>2, <1>3, <1>5 DEF HostFits
  <2>2. \A t \in TurnIds : t > page'.asked \/ t = request' => rows'[t].status = "none"
    BY <1>1, <1>2, <1>3, <1>5 DEF HostFits
  <2>3. saving'.turn <= page'.asked /\ (saving'.turn # 0 => saving'.turn # request')
    BY <1>1, <1>2, <1>3, <1>5 DEF HostFits
  <2> QED BY <1>1, <1>5, <2>1, <2>2, <2>3 DEF HostFits
<1>7. Stable
  BY <1>1, <1>2, <1>3, <1>5 DEF Stable, Over
<1> QED BY <1>1, <1>3, <1>4, <1>6, <1>7, QuietStep

\* The page sends another command.
LEMMA CommandStep ==
    ASSUME IInv, Command
    PROVE  IInv'
<1>1. /\ answer' = turn
      /\ page' = [page EXCEPT !.working = TRUE]
      /\ changes < MaxChanges /\ changes' = changes + 1
      /\ UNCHANGED <<turn, projector, saving, rows, gatewayVars, request, reloads, history>>
  BY DEF Command, hostVars
<1>2. page \in Page
  BY PageHolds DEF IInv
<1>3. /\ page' \in Page /\ page'.asked = page.asked
      /\ page'.turn = page.turn /\ page'.cursor = page.cursor
      /\ page'.streams = page.streams /\ page'.shown = page.shown
  BY <1>1, <1>2 DEF Page
<1>4. HostTyped'
  BY <1>1 DEF IInv, Typed, HostTyped
<1>5. PageTyped'
  <2>1. changes \in 0..MaxChanges
    BY DEF IInv, Typed, PageTyped
  <2>2. changes' \in 0..MaxChanges
    BY <1>1, <2>1, LimitsAssumption
  <2> QED BY <1>1, <1>3, <2>2 DEF IInv, Typed, PageTyped, history
<1>6. HostFits' /\ Stable
  BY <1>1, <1>3 DEF IInv, Answers, HostFits, Stable, Over
<1> QED BY <1>1, <1>3, <1>4, <1>5, <1>6, QuietStep

\* Who knows the turn at c knows it at d, if no state event lies between.
LEMMA TellsOn ==
    ASSUME IInv, NEW t, NEW c \in Int, NEW d \in Int, Tells(c, t), c + 1 >= Oldest, c <= d,
           \A i \in 1..Len(replay) :
               replay[i].id > c /\ replay[i].id <= d => replay[i].event.type # "state"
    PROVE  Tells(d, t)
<1>1. \A i \in 1..Len(replay) : replay[i].id \in Int
  BY Numbers DEF IInv, Events
<1>2. ASSUME \A i \in 1..Len(replay) : replay[i].id > d => replay[i].event.type # "state"
      PROVE  \A i \in 1..Len(replay) : replay[i].id > c => replay[i].event.type # "state"
  BY <1>1, <1>2
<1> QED BY <1>2 DEF Tells

\* The page takes the next frame.
LEMMA ReceiveStep ==
    ASSUME IInv, Receive
    PROVE  IInv'
<1>1. /\ wire # <<>>
      /\ page' = [Applied(page, Head(wire).event) EXCEPT !.cursor = Head(wire).id]
      /\ wire' = Tail(wire)
      /\ overtaken' = (overtaken /\ Head(wire).event.type # "state")
      /\ UNCHANGED <<turn, projector, saving, rows, nextEventId, replay, connection, request,
                     answer, changes, reloads, skipped>>
  BY DEF Receive, hostVars, bounds
<1>2. /\ Len(wire) \in Nat /\ Len(wire) >= 1 /\ Head(wire) = wire[1]
      /\ wire[1].event \in Event /\ wire[1].id \in 0..MaxEvents
      /\ page.cursor \in Int /\ wire[1].id > page.cursor /\ MaxEvents \in Nat
  BY <1>1, NextFrame, LimitsAssumption
<1>3. wire \in Seq(Frame)
  BY DEF IInv, Typed, GatewayTyped
<1>4. /\ wire' \in Seq(Frame) /\ Len(wire') = Len(wire) - 1
      /\ \A i \in 1..Len(wire') : wire'[i] = wire[i + 1]
  BY <1>1, <1>3, HeadTailProperties
<1>5. PICK e, c, p : e = wire[1].event /\ c = wire[1].id /\ p = Applied(page, e)
  OBVIOUS
<1>6. /\ Moves(p, c)
      /\ p.turn = IF e.type = "state" THEN e.turn ELSE page.turn
  BY <1>1, <1>5, AppliedMoves
<1>7. page' = [p EXCEPT !.cursor = c] /\ c \in NoCursor..MaxEvents /\ p \in Page
  BY <1>1, <1>2, <1>5, <1>6 DEF Moves, NoCursor
<1>8. /\ page' \in Page /\ page'.cursor = c /\ page'.asked = page.asked
      /\ page'.turn = p.turn /\ page'.streams = p.streams /\ page'.shown = p.shown
      /\ p.asked = page.asked
  BY <1>6, <1>7 DEF Page, Moves
<1>9. \A f \in Sent' : f \in Sent
  <2>1. \A i \in 1..Len(wire') : i + 1 \in 1..Len(wire)
    BY <1>2, <1>4
  <2> QED BY <1>1, <1>4, <2>1 DEF Sent
<1>10. FramesFit' /\ StreamsFit' /\ ShownFits'
  <2>1. c \in Int /\ c >= page.cursor
    BY <1>2, <1>5
  <2> QED BY <1>1, <1>6, <1>8, <1>9, <2>1, PageAnswers
<1>11. HostTyped' /\ HostFits' /\ GatewayTyped' /\ PageTyped'
  <2>1. HostTyped' /\ GatewayTyped'
    BY <1>1, <1>4 DEF IInv, Typed, HostTyped, GatewayTyped
  <2>2. HostFits'
    BY <1>1, <1>8 DEF IInv, Answers, HostFits
  <2>3. PageTyped'
    BY <1>1, <1>8 DEF IInv, Typed, PageTyped
  <2> QED BY <2>1, <2>2, <2>3
<1>12. ReplayNumbered' /\ ReplayTold' /\ \A d, t : TellsThen(d, t) <=> Tells(d, t)
  BY <1>1, BufferKept
<1>13. /\ WireNumbered /\ WireTold /\ PageTold
       /\ \A i \in 1..Len(wire) : wire[i].id = c + i - 1
       /\ c \in Int /\ nextEventId \in Nat
  <2>1. WireNumbered /\ WireTold /\ PageTold
    BY DEF IInv, Events
  <2>2. c \in Int /\ nextEventId \in Nat
    BY <1>2, <1>5, CursorBound
  <2>3. \A i \in 1..Len(wire) : wire[i].id = c + i - 1
    BY <1>5, <2>1 DEF WireNumbered
  <2> QED BY <2>1, <2>2, <2>3
<1>14. WireNumbered'
  <2>1. wire' # <<>> => Len(wire') \in 1..Len(wire') /\ 1 \in 1..Len(wire')
    BY <1>2, <1>4, EmptySeq
  <2>2. Reach' = Reach
    <3>1. CASE wire' = <<>>
      <4>1. Len(wire) = 1
        BY <1>2, <1>4, <3>1
      <4> QED BY <1>1, <1>5, <1>8, <3>1, <4>1 DEF Reach
    <3>2. CASE wire' # <<>>
      <4>1. wire'[Len(wire')] = wire[Len(wire)]
        BY <1>2, <1>4, <2>1, <3>2
      <4> QED BY <1>1, <3>2, <4>1 DEF Reach
    <3> QED BY <3>1, <3>2
  <2>3. \A i \in 1..Len(wire') : wire'[i].id = c + i
    <3> TAKE i \in 1..Len(wire')
    <3>1. i + 1 \in 1..Len(wire) /\ i \in Int
      BY <1>2, <1>4
    <3>2. wire[i + 1].id = c + (i + 1) - 1
      BY <1>13, <3>1
    <3> QED BY <1>4, <1>13, <3>1, <3>2
  <2>4. \A i \in 1..Len(wire') : wire'[i].id = wire'[1].id + i - 1
    <3> TAKE i \in 1..Len(wire')
    <3>1. i \in Int /\ 1 \in 1..Len(wire')
      BY <1>2, <1>4
    <3>2. wire'[i].id = c + i /\ wire'[1].id = c + 1
      BY <2>3, <3>1
    <3> QED BY <1>13, <3>1, <3>2
  <2>5. wire' # <<>> => wire'[1].id = page'.cursor + 1 /\ page'.cursor < wire'[1].id
    BY <1>8, <1>13, <2>1, <2>3
  <2>6. page'.cursor # NoCursor
    BY <1>2, <1>5, <1>8 DEF NoCursor
  <2>7. connection' = "none" => wire' = <<>>
    BY <1>1, <1>13 DEF WireNumbered
  <2>8. (connection' = "live" => Reach' = nextEventId' - 1) /\ Reach' < nextEventId'
    BY <1>1, <1>13, <2>2 DEF WireNumbered
  <2> QED BY <2>4, <2>5, <2>6, <2>7, <2>8 DEF WireNumbered
<1>15. ASSUME NEW i \in Int, NEW j \in Int, i >= 1, j <= Len(wire'), NoState(i, j)'
       PROVE  NoState(i + 1, j + 1)
  <2> SUFFICES ASSUME NEW l \in (i + 1)..(j + 1)
               PROVE  wire[l].event.type # "state"
    BY DEF NoState
  <2>1. l - 1 \in i..j /\ l - 1 \in 1..Len(wire') /\ (l - 1) + 1 = l
    BY <1>2, <1>4, <1>15
  <2>2. wire'[l - 1] = wire[l]
    BY <1>4, <2>1
  <2> QED BY <1>15, <2>1, <2>2 DEF NoState
<1>16. WireTold'
  <2> SUFFICES ASSUME NEW i \in 1..Len(wire'), NEW j \in 1..Len(wire'), i <= j,
                      wire'[i].event.type = "state", NoState(i + 1, j)'
               PROVE  TellsThen(wire'[j].id, wire'[i].event.turn)
    BY DEF WireTold, Tells, TellsThen
  <2>1. i + 1 \in 1..Len(wire) /\ j + 1 \in 1..Len(wire) /\ i + 1 <= j + 1
    BY <1>2, <1>4
  <2>2. NoState((i + 1) + 1, j + 1)
    BY <1>2, <1>4, <1>15
  <2>3. Tells(wire[j + 1].id, wire[i + 1].event.turn)
    BY <1>4, <1>13, <2>1, <2>2 DEF WireTold
  <2> QED BY <1>4, <1>12, <2>3
<1>17. PageTold'
  <2> SUFFICES ASSUME ~skipped', ~overtaken'
               PROVE  /\ TellsThen(c, p.turn)
                      /\ \A j \in 1..Len(wire') :
                            NoState(1, j)' => TellsThen(wire'[j].id, p.turn)
    <3>1. page'.cursor = c /\ page'.turn = p.turn
      BY <1>8
    <3> QED BY <3>1 DEF PageTold, Tells, TellsThen
  <2>1. 1 \in 1..Len(wire) /\ wire[1].id = c /\ wire[1].event = e
    BY <1>2, <1>5
  <2>2. CASE e.type = "state"
    <3>1. p.turn = wire[1].event.turn
      BY <1>6, <2>1, <2>2
    <3>2. Tells(c, p.turn)
      <4>1. NoState(1 + 1, 1)
        BY DEF NoState
      <4> QED BY <1>13, <2>1, <2>2, <3>1, <4>1 DEF WireTold
    <3>3. ASSUME NEW j \in 1..Len(wire'), NoState(1, j)'
          PROVE  Tells(wire[j + 1].id, p.turn)
      <4>1. j + 1 \in 1..Len(wire) /\ 1 <= j + 1
        BY <1>2, <1>4
      <4>2. NoState(1 + 1, j + 1)
        <5>1. j <= Len(wire') /\ 1 >= 1 /\ 1 \in Int /\ j \in Int
          BY <1>2, <1>4
        <5> QED BY <1>15, <3>3, <5>1
      <4> QED BY <1>13, <2>1, <2>2, <3>1, <4>1, <4>2 DEF WireTold
    <3> QED BY <1>4, <1>12, <3>2, <3>3
  <2>3. CASE e.type # "state"
    <3>1. ~skipped /\ ~overtaken /\ p.turn = page.turn
      BY <1>1, <1>2, <1>5, <1>6, <2>3
    <3>2. Tells(c, p.turn)
      <4>1. NoState(1, 1)
        BY <2>1, <2>3 DEF NoState
      <4> QED BY <1>13, <2>1, <3>1, <4>1 DEF PageTold
    <3>3. ASSUME NEW j \in 1..Len(wire'), NoState(1, j)'
          PROVE  Tells(wire[j + 1].id, p.turn)
      <4>1. j + 1 \in 1..Len(wire)
        BY <1>2, <1>4
      <4>2. NoState(1 + 1, j + 1)
        <5>1. j <= Len(wire') /\ 1 >= 1 /\ 1 \in Int /\ j \in Int
          BY <1>2, <1>4
        <5> QED BY <1>15, <3>3, <5>1
      <4>3. NoState(1, j + 1)
        BY <2>1, <2>3, <4>2 DEF NoState
      <4> QED BY <1>13, <3>1, <4>1, <4>3 DEF PageTold
    <3> QED BY <1>4, <1>12, <3>2, <3>3
  <2> QED BY <2>2, <2>3
<1> QED BY <1>10, <1>11, <1>12, <1>14, <1>16, <1>17 DEF IInv, Typed, Events, Answers

\* What a page with a cursor missed is the end of the buffer: all that is behind the
\* cursor, or the whole buffer if it begins later.
LEMMA MissedFrames ==
    ASSUME IInv, NEW after \in Nat, after < nextEventId, after + 1 >= Oldest \/ after = 0
    PROVE  \E gone \in Nat :
              /\ gone <= Len(replay)
              /\ after + 1 >= Oldest => gone = after + 1 - Oldest
              /\ after + 1 < Oldest => gone = 0
              /\ Missed(after) \in Seq(Frame)
              /\ Len(Missed(after)) = Len(replay) - gone
              /\ \A i \in 1..(Len(replay) - gone) : Missed(after)[i] = replay[gone + i]
<1>1. /\ Oldest \in Nat /\ Oldest >= 1 /\ nextEventId \in Nat /\ Len(replay) \in Nat
      /\ Len(replay) = nextEventId - Oldest
      /\ \A i \in 1..Len(replay) : replay[i] \in Frame /\ replay[i].id = Oldest + i - 1
  BY Numbers DEF IInv, Events, ReplayNumbered
<1>2. PICK gone \in Nat : gone = IF after + 1 >= Oldest THEN after + 1 - Oldest ELSE 0
  <2>1. (IF after + 1 >= Oldest THEN after + 1 - Oldest ELSE 0) \in Nat
    BY <1>1
  <2> QED BY <2>1
<1>3. gone <= Len(replay)
  BY <1>1, <1>2
<1>4. Seen(after) = 1..gone
  <2>1. ASSUME NEW i \in 1..Len(replay)
        PROVE  replay[i].id <= after <=> i <= gone
    BY <1>1, <1>2
  <2>2. \A i \in 1..gone : i \in 1..Len(replay)
    BY <1>1, <1>3
  <2>3. Seen(after) \subseteq 1..gone
    BY <1>1, <2>1 DEF Seen
  <2>4. 1..gone \subseteq Seen(after)
    BY <2>1, <2>2 DEF Seen
  <2> QED BY <2>3, <2>4
<1>5. Cardinality(Seen(after)) = gone
  <2>1. Cardinality(1..gone) = gone
    BY FS_Interval
  <2> QED BY <1>4, <2>1
<1>6. Missed(after) = SubSeq(replay, gone + 1, Len(replay))
  BY <1>5 DEF Missed
<1>7. /\ SubSeq(replay, gone + 1, Len(replay)) \in Seq(Frame)
      /\ Len(SubSeq(replay, gone + 1, Len(replay))) = Len(replay) - gone
      /\ \A i \in 1..(Len(replay) - gone) :
            SubSeq(replay, gone + 1, Len(replay))[i] = replay[gone + i]
  <2>1. replay \in Seq(Frame) /\ gone + 1 \in 1..(Len(replay) + 1)
    BY <1>1, <1>3 DEF IInv, Typed, GatewayTyped
  <2>2. \A i \in (gone + 1)..Len(replay) : replay[i] \in Frame
    BY <1>1
  <2> QED BY <1>1, <2>1, <2>2, SubSeqProperties
<1>8. (after + 1 >= Oldest => gone = after + 1 - Oldest) /\ (after + 1 < Oldest => gone = 0)
  BY <1>1, <1>2
<1>9. /\ Missed(after) \in Seq(Frame) /\ Len(Missed(after)) = Len(replay) - gone
      /\ \A i \in 1..(Len(replay) - gone) : Missed(after)[i] = replay[gone + i]
  BY <1>6, <1>7
<1> QED BY <1>3, <1>8, <1>9

\* What a page that follows the events may be told: a reset, or the end of the buffer.
LEMMA SubscribeKeeps ==
    ASSUME IInv, connection = "none", connection' = "live",
           UNCHANGED <<turn, projector, saving, rows, nextEventId, replay, request, answer, page,
                       changes, reloads, overtaken>>,
           wire' \in Seq(Frame), skipped' \in BOOLEAN,
           \A i \in 1..Len(wire') : wire'[i].event.type = "state" \/ wire'[i] \in Sent,
           WireNumbered', WireTold', PageTold'
    PROVE  IInv'
<1>1. HostTyped' /\ GatewayTyped' /\ PageTyped' /\ HostFits'
  BY DEF IInv, Typed, HostTyped, GatewayTyped, PageTyped, Answers, HostFits
<1>2. ReplayNumbered' /\ ReplayTold'
  BY BufferKept
<1>3. \A f \in Sent' : f \in Sent \/ f.event.type = "state"
  BY DEF Sent
<1>4. FramesFit' /\ StreamsFit' /\ ShownFits'
  <2>1. PICK p, c : p = page /\ c = page.cursor
    OBVIOUS
  <2>2. Moves(p, c)
    BY <2>1, PageHolds DEF IInv, Answers, Moves, Kinds, StreamsFit
  <2>3. c \in Int /\ c >= page.cursor
    BY <2>1, CursorBound
  <2> QED BY <1>3, <2>1, <2>2, <2>3, PageAnswers
<1> QED BY <1>1, <1>2, <1>4 DEF IInv, Typed, Events, Answers

\* A reset tells the turn, and the number of the last event.
LEMMA ResetStep ==
    ASSUME IInv, Subscribe, wire' = <<[id |-> nextEventId - 1, name |-> "reset",
                                       event |-> StateChanged(turn)]>>,
           skipped' = FALSE, page.cursor + 1 < Oldest
    PROVE  IInv'
<1>1. /\ connection = "none" /\ connection' = "live"
      /\ UNCHANGED <<turn, projector, saving, rows, nextEventId, replay, request, answer, page,
                     changes, reloads, overtaken>>
  BY DEF Subscribe, hostVars, bounds
<1>2. /\ Oldest \in Nat /\ Oldest >= 1 /\ Oldest <= nextEventId /\ page.cursor \in Int
      /\ nextEventId \in 1..(MaxEvents + 1) /\ MaxEvents \in Nat /\ page.cursor < nextEventId
  BY Numbers, CursorBound, LimitsAssumption DEF IInv, Events, Typed, GatewayTyped
<1>3. PICK frame : frame = [id |-> nextEventId - 1, name |-> "reset", event |-> StateChanged(turn)]
  OBVIOUS
<1>4. frame \in Frame /\ frame.event.type = "state" /\ frame.event.turn = turn
      /\ frame.id = nextEventId - 1 /\ frame.name = "reset"
  <2>1. StateChanged(turn) \in [type : {"state"}, turn : Turns]
    BY TurnNumbers DEF StateChanged
  <2>2. StateChanged(turn) \in Event
    BY <2>1 DEF Event
  <2>3. nextEventId - 1 \in 0..MaxEvents
    BY <1>2
  <2> QED BY <1>3, <2>2, <2>3 DEF Frame, StateChanged
<1>5. wire' = <<frame>>
  BY <1>3
<1>6. wire' \in Seq(Frame) /\ Len(wire') = 1 /\ wire'[1] = frame /\ wire' # <<>>
  BY <1>4, <1>5
<1>7. Reach' = nextEventId - 1
  BY <1>4, <1>6 DEF Reach
<1>8. WireNumbered'
  BY <1>1, <1>2, <1>4, <1>6, <1>7 DEF WireNumbered
<1>9. \A d : TellsThen(d, turn)
  BY <1>1 DEF TellsThen
<1>10. WireTold'
  BY <1>4, <1>6, <1>9 DEF WireTold, Tells, TellsThen
<1>11. PageTold'
  <2>1. TellsThen(page.cursor, page.turn)
    <3>1. Oldest' = Oldest
      BY <1>1 DEF Oldest
    <3> QED BY <1>2, <3>1 DEF TellsThen
  <2>2. ASSUME NEW j \in 1..Len(wire')
        PROVE  ~NoState(1, j)'
    BY <1>4, <1>6 DEF NoState
  <2> QED BY <1>1, <2>1, <2>2 DEF PageTold, Tells, TellsThen
<1>12. \A i \in 1..Len(wire') : wire'[i].event.type = "state"
  BY <1>4, <1>6
<1> QED BY <1>1, <1>6, <1>8, <1>10, <1>11, <1>12, SubscribeKeeps

\* The frames of the buffer that the page missed.
LEMMA ReplayStep ==
    ASSUME IInv, Subscribe, page.cursor \in Nat, wire' = Missed(page.cursor),
           page.cursor + 1 >= Oldest \/ page.cursor = 0,
           skipped' = (skipped \/ (page.cursor = 0 /\ Oldest > 1))
    PROVE  IInv'
<1>1. /\ connection = "none" /\ connection' = "live"
      /\ UNCHANGED <<turn, projector, saving, rows, nextEventId, replay, request, answer, page,
                     changes, reloads, overtaken>>
  BY DEF Subscribe, hostVars, bounds
<1>2. /\ Oldest \in Nat /\ Oldest >= 1 /\ nextEventId \in Nat /\ page.cursor < nextEventId
      /\ Len(replay) \in Nat /\ Len(replay) = nextEventId - Oldest
      /\ \A i \in 1..Len(replay) : replay[i].id = Oldest + i - 1
      /\ Len(replay) > 0 \/ nextEventId = 1
  BY Numbers, CursorBound DEF IInv, Events, ReplayNumbered
<1>3. PICK after \in Nat : after = page.cursor
  OBVIOUS
<1>4. PICK gone \in Nat :
          /\ gone <= Len(replay)
          /\ after + 1 >= Oldest => gone = after + 1 - Oldest
          /\ after + 1 < Oldest => gone = 0
          /\ Missed(after) \in Seq(Frame)
          /\ Len(Missed(after)) = Len(replay) - gone
          /\ \A i \in 1..(Len(replay) - gone) : Missed(after)[i] = replay[gone + i]
  BY <1>2, <1>3, MissedFrames
<1>5. /\ wire' \in Seq(Frame) /\ Len(wire') = Len(replay) - gone
      /\ \A i \in 1..Len(wire') : wire'[i] = replay[gone + i] /\ gone + i \in 1..Len(replay)
  <2>1. wire' = Missed(after)
    BY <1>3
  <2>2. /\ wire' \in Seq(Frame) /\ Len(wire') = Len(replay) - gone
        /\ \A i \in 1..Len(wire') : wire'[i] = replay[gone + i]
    BY <1>4, <2>1
  <2>3. \A i \in 1..Len(wire') : gone + i \in 1..Len(replay)
    <3>1. Len(wire') = Len(replay) - gone
      BY <2>2
    <3>2. gone \in Nat /\ Len(replay) \in Nat
      BY <1>2
    <3> QED BY <3>1, <3>2
  <2> QED BY <2>2, <2>3
<1>6. \A i \in 1..Len(wire') : i \in Nat /\ wire'[i].id = Oldest + gone + i - 1
  <2> TAKE i \in 1..Len(wire')
  <2>1. i \in Nat
    BY <1>2, <1>5
  <2>2. wire'[i] = replay[gone + i] /\ gone + i \in 1..Len(replay)
    BY <1>5
  <2>3. replay[gone + i].id = Oldest + (gone + i) - 1
    BY <1>2, <2>2
  <2>4. Oldest \in Nat /\ gone \in Nat
    BY <1>2
  <2>5. Oldest + (gone + i) - 1 = Oldest + gone + i - 1
    BY <2>1, <2>4
  <2> QED BY <2>1, <2>2, <2>3, <2>5
<1>7. skipped' \in BOOLEAN /\ \A i \in 1..Len(wire') : wire'[i] \in Sent
  <2>1. skipped' \in BOOLEAN
    BY DEF IInv, Typed, PageTyped
  <2> QED BY <1>5, <2>1 DEF Sent
<1>8. skipped' => skipped \/ (after = 0 /\ Oldest > 1)
  BY <1>3
<1>9. ~skipped' => ~skipped /\ after + 1 >= Oldest
  <2>1. ~skipped' => ~skipped /\ ~(after = 0 /\ Oldest > 1)
    BY <1>3
  <2>2. after + 1 >= Oldest \/ after = 0
    BY <1>3
  <2>3. Oldest \in Nat
    BY <1>2
  <2> QED BY <2>1, <2>2, <2>3
<1>10. wire' # <<>> => 1 \in 1..Len(wire') /\ Len(wire') \in 1..Len(wire')
  BY <1>2, <1>5, EmptySeq
<1>11. WireNumbered'
  <2>1. Reach' = nextEventId - 1
    <3>1. CASE wire' = <<>>
      <4>1. gone = Len(replay)
        BY <1>2, <1>5, <3>1, EmptySeq
      <4>2. after + 1 >= Oldest
        BY <1>2, <1>3, <1>4, <4>1
      <4>3. gone = after + 1 - Oldest
        BY <1>4, <4>2
      <4>4. after = nextEventId - 1
        BY <1>2, <4>1, <4>3
      <4> QED BY <1>1, <1>3, <3>1, <4>4 DEF Reach
    <3>2. CASE wire' # <<>>
      <4>1. wire'[Len(wire')].id = Oldest + gone + Len(wire') - 1
        BY <1>6, <1>10, <3>2
      <4> QED BY <1>2, <1>5, <3>2, <4>1 DEF Reach
    <3> QED BY <3>1, <3>2
  <2>2. \A i \in 1..Len(wire') : wire'[i].id = wire'[1].id + i - 1
    <3> TAKE i \in 1..Len(wire')
    <3>1. 1 \in 1..Len(wire')
      BY <1>2, <1>5
    <3>2. wire'[i].id = Oldest + gone + i - 1 /\ wire'[1].id = Oldest + gone + 1 - 1 /\ i \in Nat
      BY <1>6, <3>1
    <3> QED BY <1>2, <3>2
  <2>3. wire' # <<>> =>
            /\ page'.cursor < wire'[1].id
            /\ wire'[1].id = page'.cursor + 1 \/ skipped'
    <3>1. ASSUME wire' # <<>>
          PROVE  wire'[1].id = Oldest + gone
      <4>1. wire'[1].id = Oldest + gone + 1 - 1
        BY <1>6, <1>10, <3>1
      <4> QED BY <1>2, <4>1
    <3>2. page'.cursor = after /\ Oldest \in Nat
      BY <1>1, <1>2, <1>3
    <3>3. CASE after + 1 >= Oldest
      <4>1. gone = after + 1 - Oldest
        BY <1>4, <3>3
      <4> QED BY <3>1, <3>2, <4>1
    <3>4. CASE ~(after + 1 >= Oldest)
      <4>1. skipped'
        BY <1>9, <3>4
      <4>2. after < Oldest + gone
        BY <3>2, <3>4
      <4> QED BY <3>1, <3>2, <4>1, <4>2
    <3> QED BY <3>3, <3>4
  <2>4. page'.cursor # NoCursor
    BY <1>1, <1>3 DEF NoCursor
  <2> QED BY <1>1, <1>2, <2>1, <2>2, <2>3, <2>4 DEF WireNumbered
<1>12. ASSUME NEW i \in Int, NEW j \in 1..Len(wire'), i >= 0, NoState(i + 1, j)'
       PROVE  \A l \in 1..Len(replay) :
                  replay[l].id >= Oldest + gone + i /\ replay[l].id <= wire'[j].id
                      => replay[l].event.type # "state"
  <2> SUFFICES ASSUME NEW l \in 1..Len(replay),
                      replay[l].id >= Oldest + gone + i, replay[l].id <= wire'[j].id
               PROVE  replay[l].event.type # "state"
    OBVIOUS
  <2>1. replay[l].id = Oldest + l - 1 /\ wire'[j].id = Oldest + gone + j - 1 /\ j \in Nat /\ l \in Nat
    BY <1>2, <1>6
  <2>2. l - gone \in (i + 1)..j /\ l - gone \in 1..Len(wire') /\ gone + (l - gone) = l
    <3>1. Oldest \in Nat /\ gone \in Nat /\ i \in Int /\ i >= 0 /\ j \in Nat /\ l \in Nat
      BY <1>2, <1>12, <2>1
    <3>2. Oldest + l - 1 >= Oldest + gone + i /\ Oldest + l - 1 <= Oldest + gone + j - 1
      BY <2>1
    <3>3. l >= gone + i + 1 /\ l <= gone + j
      BY <3>1, <3>2
    <3>4. j <= Len(wire') /\ Len(wire') \in Int
      BY <1>2, <1>5
    <3> QED BY <3>1, <3>3, <3>4
  <2>3. wire'[l - gone] = replay[l]
    BY <1>5, <2>2
  <2> QED BY <1>12, <2>2, <2>3 DEF NoState
<1>13. WireTold'
  <2> SUFFICES ASSUME NEW i \in 1..Len(wire'), NEW j \in 1..Len(wire'), i <= j,
                      wire'[i].event.type = "state", NoState(i + 1, j)'
               PROVE  TellsThen(wire'[j].id, wire'[i].event.turn)
    BY DEF WireTold, Tells, TellsThen
  <2>1. PICK c, d, t : c = wire'[i].id /\ d = wire'[j].id /\ t = wire'[i].event.turn
    OBVIOUS
  <2>2. Tells(c, t)
    BY <1>5, <2>1 DEF IInv, Events, ReplayTold
  <2>3. /\ c \in Int /\ d \in Int /\ c <= d /\ c + 1 >= Oldest
        /\ c + 1 = Oldest + gone + i
    <3>1. i \in Nat /\ j \in Nat /\ Oldest \in Nat /\ gone \in Nat /\ i <= j
      BY <1>2, <1>6
    <3>2. c = Oldest + gone + i - 1 /\ d = Oldest + gone + j - 1
      BY <1>6, <2>1
    <3> QED BY <3>1, <3>2
  <2>4. \A l \in 1..Len(replay) :
            replay[l].id > c /\ replay[l].id <= d => replay[l].event.type # "state"
    <3>1. \A l \in 1..Len(replay) : replay[l].id \in Int
      BY Numbers DEF IInv, Events
    <3>2. \A l \in 1..Len(replay) :
              replay[l].id >= Oldest + gone + i /\ replay[l].id <= d
                  => replay[l].event.type # "state"
      <4>1. i \in Int /\ i >= 0
        BY <1>6
      <4> QED BY <1>12, <2>1, <4>1
    <3> QED BY <2>3, <3>1, <3>2
  <2>5. Tells(d, t)
    BY <2>2, <2>3, <2>4, TellsOn
  <2> QED BY <1>1, <2>1, <2>5, BufferKept
<1>14. PageTold'
  <2> SUFFICES ASSUME ~skipped', ~overtaken'
               PROVE  /\ TellsThen(page.cursor, page.turn)
                      /\ \A j \in 1..Len(wire') :
                            NoState(1, j)' => TellsThen(wire'[j].id, page.turn)
    BY <1>1 DEF PageTold, Tells, TellsThen
  <2>1. after + 1 >= Oldest /\ Tells(after, page.turn) /\ gone = after + 1 - Oldest
    BY <1>1, <1>3, <1>4, <1>9 DEF IInv, Events, PageTold
  <2>2. ASSUME NEW j \in 1..Len(wire'), NoState(1, j)'
        PROVE  Tells(wire'[j].id, page.turn)
    <3>1. PICK d, t : d = wire'[j].id /\ t = page.turn
      OBVIOUS
    <3>2. d \in Int /\ after <= d
      <4>1. d = Oldest + gone + j - 1 /\ j \in Nat /\ Oldest \in Nat /\ j >= 1
        BY <1>2, <1>6, <3>1
      <4> QED BY <2>1, <4>1
    <3>3. \A l \in 1..Len(replay) : replay[l].id \in Int
      BY Numbers DEF IInv, Events
    <3>4. \A l \in 1..Len(replay) :
              replay[l].id >= Oldest + gone + 0 /\ replay[l].id <= d
                  => replay[l].event.type # "state"
      <4>1. NoState(0 + 1, j)'
        BY <2>2
      <4>2. 0 \in Int /\ 0 >= 0
        OBVIOUS
      <4> QED BY <1>12, <3>1, <4>1, <4>2
    <3>5. \A l \in 1..Len(replay) :
              replay[l].id > after /\ replay[l].id <= d => replay[l].event.type # "state"
      <4>1. Oldest + gone + 0 = after + 1
        BY <1>2, <2>1
      <4>2. after \in Int
        OBVIOUS
      <4>3. \A l \in 1..Len(replay) : replay[l].id > after => replay[l].id >= after + 1
        BY <3>3, <4>2
      <4> QED BY <3>4, <4>1, <4>3
    <3>6. after \in Int /\ Tells(after, t)
      BY <2>1, <3>1
    <3>7. Tells(d, t)
      BY <2>1, <3>2, <3>5, <3>6, TellsOn
    <3> QED BY <3>1, <3>7
  <2> QED BY <1>1, <1>3, <2>1, <2>2, BufferKept
<1> QED BY <1>1, <1>5, <1>7, <1>11, <1>13, <1>14, SubscribeKeeps

\* The page connects, for the first time or anew.
LEMMA SubscribeStep ==
    ASSUME IInv, Subscribe
    PROVE  IInv'
<1>1. PICK first : first = IF replay = <<>> THEN nextEventId ELSE replay[1].id
  OBVIOUS
<1>2. /\ Oldest \in Nat /\ Oldest >= 1 /\ Len(replay) \in Nat /\ nextEventId \in Nat
      /\ Oldest = nextEventId - Len(replay)
      /\ \A i \in 1..Len(replay) : replay[i].id = Oldest + i - 1
      /\ replay \in Seq(Frame)
  BY Numbers DEF IInv, Events, ReplayNumbered, Oldest, Typed, GatewayTyped
<1>3. first = Oldest
  <2>1. CASE replay = <<>>
    BY <1>1, <1>2, <2>1, EmptySeq
  <2>2. CASE replay # <<>>
    <3>1. 1 \in 1..Len(replay)
      BY <1>2, <2>2, EmptySeq
    <3>2. replay[1].id = Oldest + 1 - 1
      BY <1>2, <3>1
    <3> QED BY <1>1, <1>2, <2>2, <3>2
  <2> QED BY <2>1, <2>2
<1>4. page.cursor \in NoCursor..MaxEvents /\ page.cursor \in Int /\ page.cursor >= -1
  BY PageHolds, Numbers DEF IInv, Events
<1>5. PICK reset \in BOOLEAN :
          reset = (page.cursor = NoCursor
                   \/ NeedsReset(IF page.cursor = NoCursor THEN 0 ELSE page.cursor, first))
  OBVIOUS
<1>6. /\ wire' = IF reset
                   THEN <<[id |-> nextEventId - 1, name |-> "reset", event |-> StateChanged(turn)]>>
                   ELSE Missed(IF page.cursor = NoCursor THEN 0 ELSE page.cursor)
      /\ skipped' = IF reset THEN FALSE
                    ELSE skipped \/ ((IF page.cursor = NoCursor THEN 0 ELSE page.cursor) = 0 /\ first > 1)
  BY <1>1, <1>5 DEF Subscribe, LastEventId
<1>7. CASE reset
  <2>1. page.cursor + 1 < Oldest
    <3>1. CASE page.cursor = NoCursor
      BY <1>2, <3>1 DEF NoCursor
    <3>2. CASE page.cursor # NoCursor
      <4>1. NeedsReset(page.cursor, first)
        BY <1>5, <1>7, <3>2
      <4> QED BY <1>2, <1>3, <1>4, <4>1 DEF NeedsReset
    <3> QED BY <3>1, <3>2
  <2> QED BY <1>6, <1>7, <2>1, ResetStep
<1>8. CASE ~reset
  <2>1. page.cursor # NoCursor /\ ~NeedsReset(page.cursor, first)
    BY <1>5, <1>8
  <2>2. page.cursor \in Nat
    BY <1>4, <2>1 DEF NoCursor
  <2>3. page.cursor + 1 >= Oldest \/ page.cursor = 0
    BY <1>2, <1>3, <2>1, <2>2 DEF NeedsReset
  <2>4. wire' = Missed(page.cursor) /\ skipped' = (skipped \/ (page.cursor = 0 /\ Oldest > 1))
    BY <1>3, <1>6, <1>8, <2>1
  <2> QED BY <2>2, <2>3, <2>4, ReplayStep
<1> QED BY <1>7, <1>8

-----------------------------------------------------------------------------
(* The invariant holds *)

\* At first nothing has happened.
LEMMA InitIInv ==
    ASSUME Init
    PROVE  IInv
<1>1. /\ turn = NoTurn /\ projector = NoProjector /\ saving = NotSaving
      /\ rows = [t \in TurnIds |-> [status |-> "none", texts |-> <<>>]]
      /\ nextEventId = 1 /\ replay = <<>> /\ connection = "none" /\ wire = <<>>
      /\ request = 0 /\ answer = NoAnswer /\ skipped = FALSE /\ overtaken = FALSE
      /\ changes = 0 /\ reloads = 0 /\ page = Fresh(NoTurn, 0, FALSE)
  BY DEF Init
<1>2. /\ MaxTurns \in Nat /\ MaxMessages \in Nat /\ ReplayLimit \in Nat
      /\ MaxEvents \in Nat /\ MaxChanges \in Nat /\ MaxReloads \in Nat
      /\ TurnIds = 1..MaxTurns
  BY LimitsAssumption DEF TurnIds
<1>3. turn \in Turns /\ turn.id = 0 /\ ~IsTurnActive(turn)
  BY <1>1, <1>2 DEF NoTurn, Turns, Statuses, IsTurnActive
<1>4. /\ page \in Page /\ page.turn = turn /\ page.cursor = -1 /\ page.asked = 0
      /\ DOMAIN page.streams = {} /\ DOMAIN page.shown = {}
  <2>1. PICK t \in Turns, asked \in 0..MaxTurns, loading \in BOOLEAN :
            t = turn /\ asked = 0 /\ loading = FALSE
    <3>1. turn \in Turns /\ 0 \in 0..MaxTurns /\ FALSE \in BOOLEAN
      BY <1>2, <1>3
    <3> QED BY <3>1, Zenon
  <2>2. PICK p : p = Fresh(t, asked, loading)
    OBVIOUS
  <2>3. page = p
    BY <1>1, <2>1, <2>2
  <2>4. /\ p \in Page /\ p.turn = t /\ p.cursor = -1 /\ p.asked = asked
        /\ DOMAIN p.streams = {} /\ DOMAIN p.shown = {}
    BY <2>2, FreshPage
  <2> QED BY <2>1, <2>3, <2>4
<1>5. /\ <<>> \in Seq(Texts) /\ <<>> \in Seq(Message) /\ <<>> \in Seq(Frame)
      /\ Len(<<>>) = 0 /\ \A i : i \notin 1..Len(<<>>)
  BY EmptySeq
<1>6. HostTyped
  <2>1. projector \in [turn : 0..MaxTurns, messages : Seq(Message)]
        /\ Len(projector.messages) <= MaxMessages
    BY <1>1, <1>2, <1>5 DEF NoProjector
  <2>2. saving \in [turn : 0..MaxTurns, texts : Seq(Texts), shown : BOOLEAN]
    BY <1>1, <1>2, <1>5 DEF NotSaving
  <2>3. rows \in [TurnIds -> Row]
    <3>1. [status |-> "none", texts |-> <<>>] \in Row
      BY <1>5 DEF Row
    <3> QED BY <1>1, <3>1
  <2>4. request \in 0..MaxTurns /\ answer \in Turns \cup {Error, NoAnswer}
    BY <1>1, <1>2
  <2> QED BY <1>3, <2>1, <2>2, <2>3, <2>4 DEF HostTyped
<1>7. GatewayTyped
  BY <1>1, <1>2, <1>5 DEF GatewayTyped
<1>8. PageTyped
  <2>1. changes \in 0..MaxChanges /\ reloads \in 0..MaxReloads
    BY <1>1, <1>2
  <2>2. skipped \in BOOLEAN /\ overtaken \in BOOLEAN
    BY <1>1, Zenon
  <2> QED BY <1>4, <2>1, <2>2 DEF PageTyped
<1>9. HostFits
  <2>1. saving.turn = 0 /\ saving.texts = <<>>
    BY <1>1 DEF NotSaving
  <2>2. \A t \in TurnIds : rows[t].status = "none"
    BY <1>1
  <2>3. Len(saving.texts) <= MaxMessages /\ \A i : i \notin 1..Len(saving.texts)
    BY <1>2, <1>5, <2>1
  <2>4. /\ request = 0 /\ page.asked = 0 /\ saving.turn = 0
        /\ turn.id = 0 /\ ~IsTurnActive(turn)
    BY <1>1, <1>3, <1>4, <2>1
  <2> QED BY <2>2, <2>3, <2>4 DEF HostFits
<1>10. ReplayNumbered /\ ReplayTold
  BY <1>1, <1>5 DEF ReplayNumbered, ReplayTold, Oldest
<1>11. WireNumbered /\ WireTold /\ PageTold
  <2>1. WireNumbered
    <3>1. Reach = -1
      BY <1>1, <1>4 DEF Reach
    <3> QED BY <1>1, <1>5, <3>1 DEF WireNumbered
  <2>2. WireTold /\ PageTold
    BY <1>1, <1>4, <1>5 DEF WireTold, PageTold, Tells
  <2> QED BY <2>1, <2>2
<1>12. FramesFit /\ StreamsFit /\ ShownFits
  <2>1. \A f : f \notin Sent
    BY <1>1, <1>5 DEF Sent
  <2> QED BY <1>4, <2>1 DEF FramesFit, StreamsFit, ShownFits
<1> QED BY <1>6, <1>7, <1>8, <1>9, <1>10, <1>11, <1>12 DEF IInv, Typed, Events, Answers

\* A step that changes nothing.
LEMMA StutterStep ==
    ASSUME IInv, UNCHANGED vars
    PROVE  IInv'
<1>1. UNCHANGED <<turn, projector, saving, rows, gatewayVars, request, answer, page,
                  changes, reloads, history>>
  BY DEF vars, hostVars, bounds
<1>2. HostTyped' /\ HostFits' /\ PageTyped' /\ Stable
  BY <1>1 DEF IInv, Typed, Answers, HostTyped, HostFits, PageTyped, Stable, Over, history
<1> QED BY <1>1, <1>2, QuietStep

\* Every step keeps the invariant.
LEMMA StepIInv ==
    ASSUME IInv, [Next]_vars
    PROVE  IInv'
<1>1. CASE UNCHANGED vars
  BY <1>1, StutterStep
<1>2. CASE TurnStart
  BY <1>2, TurnStartStep
<1>3. CASE TurnRefused
  BY <1>3, TurnRefusedStep
<1>4. CASE TurnRunning
  BY <1>4, TurnRunningStep
<1>5. CASE TurnStartFails
  BY <1>5, TurnStartFailsStep
<1>6. CASE TurnFails
  BY <1>6, TurnFailsStep
<1>7. CASE \E m \in 1..MaxMessages, n \in 1..MaxChunks : ReceiveDelta(m, n)
  BY <1>7, ReceiveDeltaStep
<1>8. CASE \E m \in 1..MaxMessages, n \in 0..MaxChunks : CompleteItem(m, n)
  BY <1>8, CompleteItemStep
<1>9. CASE FinishTurn
  BY <1>9, FinishTurnStep
<1>10. CASE Saved
  BY <1>10, SavedStep
<1>11. CASE SaveFails
  BY <1>11, SaveFailsStep
<1>12. CASE OtherChange
  BY <1>12, OtherChangeStep
<1>13. CASE Reload
  BY <1>13, ReloadStep
<1>14. CASE MessagesLoaded
  BY <1>14, MessagesLoadedStep
<1>15. CASE Subscribe
  BY <1>15, SubscribeStep
<1>16. CASE Disconnect
  BY <1>16, DisconnectStep
<1>17. CASE Receive
  BY <1>17, ReceiveStep
<1>18. CASE SendPrompt
  BY <1>18, SendPromptStep
<1>19. CASE Command
  BY <1>19, CommandStep
<1>20. CASE ReceiveAnswer
  BY <1>20, ReceiveAnswerStep
<1> QED BY <1>1, <1>2, <1>3, <1>4, <1>5, <1>6, <1>7, <1>8, <1>9, <1>10, <1>11, <1>12, <1>13,
           <1>14, <1>15, <1>16, <1>17, <1>18, <1>19, <1>20 DEF Next

\* The invariant holds in every behaviour.
THEOREM Invariance == Spec => []IInv
<1>1. Init => IInv
  BY InitIInv
<1>2. IInv /\ [Next]_vars => IInv'
  BY StepIInv
<1> QED BY <1>1, <1>2, PTL DEF Spec

-----------------------------------------------------------------------------
(* What the invariant says *)

\* The variables have their types.
LEMMA ProvesTypeOK ==
    ASSUME IInv
    PROVE  TypeOK
<1>1. HostTyped /\ GatewayTyped /\ PageTyped
  BY DEF IInv, Typed
<1>2. \A x \in Texts : IsText(x)
  BY DEF Texts, IsText
<1>3. \A m \in 1..Len(projector.messages) : projector.messages[m].size \in 0..MaxChunks
  <2>1. projector.messages \in Seq(Message)
    BY <1>1 DEF HostTyped
  <2>2. \A m \in 1..Len(projector.messages) : projector.messages[m] \in Message
    BY <2>1, ElementOfSeq
  <2> QED BY <2>2 DEF Message
<1>4. ASSUME NEW t \in TurnIds
      PROVE  /\ rows[t].status \in {"none", "reserved", "completed", "failed"}
             /\ \A m \in 1..Len(rows[t].texts) : IsText(rows[t].texts[m])
  <2>1. rows[t] \in Row
    BY <1>1 DEF HostTyped
  <2> QED BY <1>2, <2>1 DEF Row
<1>5. \A i \in 1..Len(wire) : wire[i].id \in 0..MaxEvents
  <2>1. \A i \in 1..Len(wire) : wire[i] \in Frame
    BY <1>1, ElementOfSeq DEF GatewayTyped
  <2> QED BY <2>1 DEF Frame
<1>6. /\ page.turn \in Turns /\ page.cursor \in NoCursor..MaxEvents
      /\ DOMAIN page.streams \subseteq Keys /\ DOMAIN page.shown \subseteq Keys
      /\ \A k \in DOMAIN page.streams : IsText(page.streams[k])
      /\ \A k \in DOMAIN page.shown :
            /\ page.shown[k].status \in {"streaming", "complete", "failed"}
            /\ IsText(page.shown[k].text)
  <2>1. /\ page.turn \in Turns /\ page.cursor \in NoCursor..MaxEvents
        /\ DOMAIN page.streams \subseteq Keys /\ DOMAIN page.shown \subseteq Keys
        /\ \A k \in DOMAIN page.streams : page.streams[k] \in Texts
        /\ \A k \in DOMAIN page.shown : page.shown[k] \in Entry
    BY PageHolds DEF IInv
  <2> QED BY <1>2, <2>1 DEF Entry
<1>7. /\ page.asked \in 0..MaxTurns /\ page.last \in 0..MaxTurns
      /\ {page.working, page.loading, skipped, overtaken} \subseteq BOOLEAN
  BY <1>1 DEF PageTyped, Page
<1>8. /\ turn \in Turns /\ projector.turn \in 0..MaxTurns /\ Len(projector.messages) <= MaxMessages
      /\ saving.turn \in 0..MaxTurns /\ saving.shown \in BOOLEAN
      /\ request \in 0..MaxTurns /\ answer \in Turns \cup {Error, NoAnswer}
  BY <1>1 DEF HostTyped
<1> QED BY <1>1, <1>3, <1>4, <1>5, <1>6, <1>7, <1>8 DEF TypeOK, GatewayTyped, PageTyped

\* What is shown is the beginning of a text, or a text that is stored.
LEMMA ProvesShown ==
    ASSUME IInv
    PROVE  ShownIsWritten
<1>1. ShownFits /\ DOMAIN page.shown \subseteq Keys
  BY PageHolds DEF IInv, Answers
<1>2. ShownIsPrefix
  <2> SUFFICES ASSUME NEW k \in DOMAIN page.shown
               PROVE  page.shown[k].text = Text(k[1], k[2], Len(page.shown[k].text))
    BY DEF ShownIsPrefix
  <2>1. PICK n \in 0..MaxChunks : page.shown[k].text = Text(k[1], k[2], n)
    BY <1>1 DEF ShownFits, IsBeginning
  <2>2. k[1] \in TurnIds /\ k[2] \in 1..MaxMessages
    BY <1>1, KeyTurn
  <2>3. Len(Text(k[1], k[2], n)) = n
    BY <2>2, TextOf
  <2> QED BY <2>1, <2>3
<1>3. CompleteIsStored
  BY <1>1, ProvesTypeOK DEF CompleteIsStored, ShownFits, StoredAs
<1> QED BY <1>2, <1>3 DEF ShownIsWritten

\* What the owner reads of an answer is its beginning, across cut connections, replays
\* and reloads, and a message shown as complete is the text that the API has stored.
THEOREM AnswersShown == Spec => []ShownIsWritten
<1>1. IInv => ShownIsWritten
  BY ProvesShown
<1> QED BY <1>1, Invariance, PTL

\* The page takes an event only behind all the ones before it, or with a reset.
LEMMA TakenInOrder ==
    ASSUME IInv, FrameTaken
    PROVE  Head(wire).name = "reset" \/ page'.cursor = page.cursor + 1 \/ skipped
<1>1. wire # <<>> /\ page'.cursor = Head(wire).id /\ Head(wire) = wire[1]
  BY NextFrame DEF FrameTaken
<1> QED BY <1>1 DEF IInv, Events, WireNumbered

\* The page gets every event after its cursor in order, or a reset that tells it where
\* the gap ends; a replay from cursor 0 of #subscribe is the exception.
THEOREM NoGaps == Spec => GaplessOrReset
<1>1. IInv /\ [Next]_vars =>
          [FrameTaken => \/ Head(wire).name = "reset"
                         \/ page'.cursor = page.cursor + 1
                         \/ skipped]_vars
  BY TakenInOrder
<1> QED BY <1>1, Invariance, PTL DEF Spec, GaplessOrReset

\* The cursor of the page moves when the page takes a frame, and never else.
LEMMA TakenByReceive ==
    ASSUME IInv, Next, FrameTaken
    PROVE  Receive
<1>1. page'.cursor > page.cursor /\ page.cursor \in Int /\ page.cursor >= -1 /\ page \in Page
  BY NextFrame, PageHolds, Numbers DEF FrameTaken, IInv, Events
<1>2. page'.cursor # page.cursor /\ page' # page
  BY <1>1
<1>3. ~(TurnStart \/ TurnRefused \/ TurnRunning \/ TurnStartFails \/ TurnFails)
  BY <1>2 DEF TurnStart, TurnRefused, TurnRunning, TurnStartFails, TurnFails
<1>4. /\ \A m \in 1..MaxMessages, n \in 1..MaxChunks : ~ReceiveDelta(m, n)
      /\ \A m \in 1..MaxMessages, n \in 0..MaxChunks : ~CompleteItem(m, n)
  BY <1>2 DEF ReceiveDelta, CompleteItem
<1>5. ~(FinishTurn \/ Saved \/ SaveFails \/ OtherChange \/ Subscribe \/ Disconnect)
  BY <1>2 DEF FinishTurn, Saved, SaveFails, OtherChange, Subscribe, Disconnect
<1>6. ~Reload
  <2>1. Reload => page'.cursor = -1
    BY DEF Reload, Fresh, NoCursor
  <2> QED BY <1>1, <2>1
<1>7. ~MessagesLoaded
  BY <1>1, <1>2 DEF MessagesLoaded, Page
<1>8. ~SendPrompt /\ ~Command
  BY <1>1, <1>2 DEF SendPrompt, Command, Page
<1>9. ~ReceiveAnswer
  <2>1. ASSUME NEW t
        PROVE  WithSnapshot(page, t).cursor = page.cursor
               /\ [WithSnapshot(page, t) EXCEPT !.working = FALSE].cursor = page.cursor
    BY <1>1 DEF WithSnapshot, Page
  <2>2. [page EXCEPT !.working = FALSE].cursor = page.cursor
    BY <1>1 DEF Page
  <2> QED BY <1>2, <2>1, <2>2 DEF ReceiveAnswer
<1> QED BY <1>3, <1>4, <1>5, <1>6, <1>7, <1>8, <1>9 DEF Next

\* The last frame of a connection that was not cut brings the page up to date.
LEMMA LastFrameTells ==
    ASSUME IInv, Next, FrameTaken, wire' = <<>>, connection = "live"
    PROVE  page'.turn = turn' \/ skipped \/ overtaken'
<1>1. Receive /\ IInv'
  BY TakenByReceive, StepIInv
<1>2. UNCHANGED <<turn, nextEventId, replay, skipped>> /\ wire' = Tail(wire) /\ wire # <<>>
  BY <1>1 DEF Receive, hostVars
<1>3. wire \in Seq(Frame) /\ Len(wire) = 1 /\ Head(wire) = wire[1]
  <2>1. wire \in Seq(Frame)
    BY DEF IInv, Typed, GatewayTyped
  <2>2. Len(Tail(wire)) = Len(wire) - 1 /\ Len(Tail(wire)) = 0 /\ Len(wire) \in Nat
    <3>1. Len(Tail(wire)) = Len(wire) - 1
      BY <1>2, <2>1, HeadTailProperties
    <3>2. Tail(wire) = <<>>
      BY <1>2
    <3>3. Len(<<>>) = 0 /\ Len(wire) \in Nat
      BY <2>1, LenProperties
    <3> QED BY <3>1, <3>2, <3>3
  <2>3. Len(wire) = 1
    BY <2>2
  <2>4. Head(wire) = wire[1]
    BY <1>2, NextFrame
  <2> QED BY <2>1, <2>3, <2>4
<1>4. page'.cursor = nextEventId - 1
  BY <1>2, <1>3 DEF FrameTaken, IInv, Events, WireNumbered, Reach
<1>5. PICK c, t : c = page'.cursor /\ t = page'.turn
  OBVIOUS
<1>6. skipped' \/ overtaken' \/ Tells(c, t)'
  BY <1>1, <1>5 DEF IInv, Events, PageTold, Tells
<1>7. Tells(c, t)' => Tells(nextEventId - 1, t)
  BY <1>2, <1>4, <1>5, BufferKept
<1>8. Tells(nextEventId - 1, t) => t = turn
  BY LastTells DEF IInv, Events
<1> QED BY <1>2, <1>5, <1>6, <1>7, <1>8

\* A page that has read all there is to read shows the host's turn: neither a cut, a
\* replay nor a reset leaves it behind.
THEOREM CatchesUp == Spec => EventsCatchUp
<1>1. IInv /\ [Next]_vars =>
          [FrameTaken /\ wire' = <<>> /\ connection = "live"
              => page'.turn = turn' \/ skipped \/ overtaken']_vars
  BY LastFrameTells
<1> QED BY <1>1, Invariance, PTL DEF Spec, EventsCatchUp
=============================================================================
