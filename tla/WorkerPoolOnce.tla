--------------------------- MODULE WorkerPoolOnce ---------------------------
(* No test is reported twice. *)
EXTENDS WorkerPoolPipes

\* The time a leaf without a prover of its own may take.
USE SMTT(60), ZenonT(20), SMTT(61)

-----------------------------------------------------------------------------
(* No test is reported twice and none is forgotten.                          *)
(*                                                                           *)
(* An item is owed by the thread whose group holds it until its answer is    *)
(* counted; it is settled once it is in the result channel or reported.  The *)
(* invariant says that no item is both, and that the answers waiting in a    *)
(* pipe are those of the items after the first `received`, in order: that is *)
(* why skip(received) names exactly the items without an answer.             *)

InChannel(s, i) == \E n \in 1..Len(s) : s[n].kind = "result" /\ s[n].item = i
NoRepeat(s) ==
  \A m, n \in 1..Len(s) :
    /\ s[m].kind = "result" /\ s[n].kind = "result"
    /\ s[m].item = s[n].item /\ s[m].item \in Items
    => m = n

Owed(w, i) == HoldsGroup(w) /\ i[1] = grp[w] /\ i[2] > received[w]
Settled(i) == reports[i] # <<>> \/ InChannel(rx, i)

SettledOnce ==
  /\ NoRepeat(rx)
  /\ \A i \in Items :
       /\ InChannel(rx, i) => reports[i] = <<>>
       /\ Settled(i) => i[1] < next /\ \A w \in Workers : ~Owed(w, i)

ChannelClosed == coord # "recv" => rx = <<>>

OnceInv ==
  /\ GroupsApart /\ PipeInv /\ SettledOnce /\ ChannelClosed /\ ReportedAtMostOnce

-----------------------------------------------------------------------------
(* The result channel as a set of items. *)

\* Sending: what is in the channel afterwards.
LEMMA ConcatChannel ==
  ASSUME NEW s \in Seq(Messages), NEW t \in Seq(Messages)
  PROVE  /\ \A i : InChannel(s \o t, i) <=> InChannel(s, i) \/ InChannel(t, i)
         /\ NoRepeat(s) /\ NoRepeat(t) /\ (\A i \in Items : ~(InChannel(s, i) /\ InChannel(t, i)))
              => NoRepeat(s \o t)
<1>1. /\ Len(s \o t) = Len(s) + Len(t) /\ Len(s) \in Nat /\ Len(t) \in Nat
      /\ \A n \in 1..Len(s) : (s \o t)[n] = s[n]
      /\ \A n \in 1..Len(t) : (s \o t)[Len(s) + n] = t[n]
      /\ \A n \in 1..(Len(s) + Len(t)) : n > Len(s) =>
           n - Len(s) \in 1..Len(t) /\ (s \o t)[n] = t[n - Len(s)]
  OBVIOUS
<1> DEFINE st == s \o t
<1> HIDE DEF st
<1>2. /\ Len(st) = Len(s) + Len(t) /\ Len(s) \in Nat /\ Len(t) \in Nat
      /\ \A n \in 1..Len(s) : st[n] = s[n]
      /\ \A n \in 1..Len(t) : st[Len(s) + n] = t[n]
      /\ \A n \in 1..(Len(s) + Len(t)) : n > Len(s) =>
           n - Len(s) \in 1..Len(t) /\ st[n] = t[n - Len(s)]
  BY <1>1 DEF st
<1>3. ASSUME NEW i PROVE InChannel(st, i) <=> InChannel(s, i) \/ InChannel(t, i)
  <2>1. ASSUME InChannel(st, i) PROVE InChannel(s, i) \/ InChannel(t, i)
    <3>1. PICK n \in 1..Len(st) : st[n].kind = "result" /\ st[n].item = i
      BY <2>1 DEF InChannel
    <3>2. CASE n <= Len(s)
      BY <1>2, <3>1, <3>2 DEF InChannel
    <3>3. CASE n > Len(s)
      <4>1. n - Len(s) \in 1..Len(t) /\ st[n] = t[n - Len(s)]
        BY <1>2, <3>3
      <4> QED BY <3>1, <4>1 DEF InChannel
    <3> QED BY <1>2, <3>2, <3>3
  <2>2. ASSUME InChannel(s, i) PROVE InChannel(st, i)
    <3>1. PICK n \in 1..Len(s) : s[n].kind = "result" /\ s[n].item = i
      BY <2>2 DEF InChannel
    <3>2. n \in 1..Len(st) /\ st[n] = s[n]
      BY <1>2
    <3> QED BY <3>1, <3>2 DEF InChannel
  <2>3. ASSUME InChannel(t, i) PROVE InChannel(st, i)
    <3>1. PICK n \in 1..Len(t) : t[n].kind = "result" /\ t[n].item = i
      BY <2>3 DEF InChannel
    <3>2. Len(s) + n \in 1..Len(st) /\ st[Len(s) + n] = t[n]
      BY <1>2
    <3> QED BY <3>1, <3>2 DEF InChannel
  <2> QED BY <2>1, <2>2, <2>3
<1>4. ASSUME NoRepeat(s), NoRepeat(t),
             \A i \in Items : ~(InChannel(s, i) /\ InChannel(t, i))
      PROVE  NoRepeat(st)
  <2> SUFFICES ASSUME NEW m \in 1..Len(st), NEW n \in 1..Len(st),
                      st[m].kind = "result", st[n].kind = "result",
                      st[m].item = st[n].item, st[m].item \in Items
               PROVE  m = n
    BY DEF NoRepeat
  <2>1. CASE m <= Len(s) /\ n <= Len(s)
    <3>1. m \in 1..Len(s) /\ n \in 1..Len(s) /\ st[m] = s[m] /\ st[n] = s[n]
      BY <1>2, <2>1
    <3> QED BY <1>4, <3>1 DEF NoRepeat
  <2>2. CASE m > Len(s) /\ n > Len(s)
    <3> DEFINE p == m - Len(s)
               q == n - Len(s)
    <3>1. p \in 1..Len(t) /\ q \in 1..Len(t) /\ st[m] = t[p] /\ st[n] = t[q]
      BY <1>2, <2>2
    <3>2. p = q
      BY <1>4, <3>1 DEF NoRepeat
    <3> QED BY <1>2, <3>2
  <2>3. CASE m <= Len(s) /\ n > Len(s)
    <3>1. m \in 1..Len(s) /\ st[m] = s[m] /\ n - Len(s) \in 1..Len(t) /\ st[n] = t[n - Len(s)]
      BY <1>2, <2>3
    <3> QED BY <1>4, <3>1 DEF InChannel
  <2>4. CASE m > Len(s) /\ n <= Len(s)
    <3>1. n \in 1..Len(s) /\ st[n] = s[n] /\ m - Len(s) \in 1..Len(t) /\ st[m] = t[m - Len(s)]
      BY <1>2, <2>4
    <3> QED BY <1>4, <3>1 DEF InChannel
  <2> QED BY <1>2, <2>1, <2>2, <2>3, <2>4
<1> QED BY <1>3, <1>4 DEF st

\* Receiving: the head leaves the channel, and nothing else does.
LEMMA TailChannel ==
  ASSUME NEW s \in Seq(Messages), s # <<>>
  PROVE  /\ \A i : InChannel(Tail(s), i) => InChannel(s, i)
         /\ \A i : InChannel(s, i) =>
              InChannel(Tail(s), i) \/ (Head(s).kind = "result" /\ Head(s).item = i)
         /\ Head(s).kind = "result" => InChannel(s, Head(s).item)
         /\ NoRepeat(s) => NoRepeat(Tail(s))
         /\ NoRepeat(s) /\ Head(s).kind = "result" /\ Head(s).item \in Items
              => ~InChannel(Tail(s), Head(s).item)
<1> DEFINE t == Tail(s)
<1>1. /\ Len(s) \in Nat \ {0} /\ Len(t) = Len(s) - 1 /\ Head(s) = s[1]
      /\ \A n \in 1..Len(t) : t[n] = s[n + 1] /\ n + 1 \in 1..Len(s)
      /\ \A n \in 1..Len(s) : n # 1 => n - 1 \in 1..Len(t) /\ t[n - 1] = s[n]
  OBVIOUS
<1> HIDE DEF t
<1>2. \A i : InChannel(t, i) => InChannel(s, i)
  BY <1>1 DEF InChannel
<1>3. ASSUME NEW i, InChannel(s, i)
      PROVE  InChannel(t, i) \/ (Head(s).kind = "result" /\ Head(s).item = i)
  <2>1. PICK n \in 1..Len(s) : s[n].kind = "result" /\ s[n].item = i
    BY <1>3 DEF InChannel
  <2>2. CASE n = 1
    BY <1>1, <2>1, <2>2
  <2>3. CASE n # 1
    BY <1>1, <2>1, <2>3 DEF InChannel
  <2> QED BY <2>2, <2>3
<1>4. Head(s).kind = "result" => InChannel(s, Head(s).item)
  BY <1>1 DEF InChannel
<1>5. ASSUME NoRepeat(s) PROVE NoRepeat(t)
  <2> SUFFICES ASSUME NEW m \in 1..Len(t), NEW n \in 1..Len(t),
                      t[m].kind = "result", t[n].kind = "result",
                      t[m].item = t[n].item, t[m].item \in Items
               PROVE  m = n
    BY DEF NoRepeat
  <2>1. m + 1 \in 1..Len(s) /\ n + 1 \in 1..Len(s) /\ t[m] = s[m + 1] /\ t[n] = s[n + 1]
    BY <1>1
  <2>2. m + 1 = n + 1
    BY <1>5, <2>1 DEF NoRepeat
  <2> QED BY <1>1, <2>2
<1>6. ASSUME NoRepeat(s), Head(s).kind = "result", Head(s).item \in Items,
             InChannel(t, Head(s).item)
      PROVE  FALSE
  <2>1. PICK n \in 1..Len(t) : t[n].kind = "result" /\ t[n].item = Head(s).item
    BY <1>6 DEF InChannel
  <2>2. n + 1 \in 1..Len(s) /\ s[n + 1] = t[n] /\ 1 \in 1..Len(s)
    BY <1>1
  <2>3. n + 1 = 1
    BY <1>1, <1>6, <2>1, <2>2 DEF NoRepeat
  <2> QED BY <1>1, <2>3
<1> QED BY <1>2, <1>3, <1>4, <1>5, <1>6 DEF t

\* The sentinels name exactly the items after the first n, each once.
LEMMA SentinelsChannel ==
  ASSUME NEW g \in Groups, NEW n \in 0..Size[g], NEW o \in Outcomes, NEW w \in Workers
  PROVE  /\ \A i : InChannel(Sentinels(g, n, o, w), i)
                     <=> \E k \in (n + 1)..Size[g] : i = <<g, k>>
         /\ NoRepeat(Sentinels(g, n, o, w))
<1> DEFINE S == Sentinels(g, n, o, w)
<1>1. Size[g] \in Nat /\ n \in Nat
  BY PoolAssumption DEF Groups
<1>2. /\ Len(S) = Size[g] - n
      /\ \A j \in 1..(Size[g] - n) : S[j].kind = "result" /\ S[j].item = <<g, n + j>>
  <2>1. /\ Len(S) = Size[g] - n
        /\ \A j \in 1..(Size[g] - n) : S[j] = ResultMessage(<<g, n + j>>, o, w)
    BY Zenon, SentinelsAreMessages
  <2> HIDE DEF S
  <2>2. \A i : ResultMessage(i, o, w).kind = "result" /\ ResultMessage(i, o, w).item = i
    BY DEF ResultMessage
  <2>3. ASSUME NEW j \in 1..(Size[g] - n) PROVE S[j].kind = "result" /\ S[j].item = <<g, n + j>>
    BY ONLY Zenon, <2>1, <2>2, j \in 1..(Size[g] - n)
  <2> QED BY ONLY Zenon, <2>1, <2>3
<1> HIDE DEF S
<1>3. ASSUME NEW i, InChannel(S, i) PROVE \E k \in (n + 1)..Size[g] : i = <<g, k>>
  <2>1. PICK j \in 1..Len(S) : S[j].kind = "result" /\ S[j].item = i
    BY <1>3 DEF InChannel
  <2>2. j \in 1..(Size[g] - n)
    BY <1>2, <2>1
  <2>3. i = <<g, n + j>>
    BY Zenon, <1>2, <2>1, <2>2
  <2>4. n + j \in (n + 1)..Size[g]
    BY <1>1, <2>2
  <2> QED BY <2>3, <2>4
<1>4. ASSUME NEW k \in (n + 1)..Size[g] PROVE InChannel(S, <<g, k>>)
  <2>1. k - n \in 1..Len(S) /\ n + (k - n) = k
    BY <1>1, <1>2
  <2> QED BY <1>2, <2>1 DEF InChannel
<1>5. NoRepeat(S)
  <2> SUFFICES ASSUME NEW p \in 1..Len(S), NEW q \in 1..Len(S), S[p].item = S[q].item
               PROVE  p = q
    BY DEF NoRepeat
  <2>1. <<g, n + p>> = <<g, n + q>>
    BY <1>2
  <2> QED BY <1>1, <1>2, <2>1
<1> QED BY <1>3, <1>4, <1>5 DEF S

\* A diagnostic names no item.
LEMMA DiagnosticsChannel ==
  ASSUME NEW w \in Workers
  PROVE  /\ \A i : ~InChannel(SkippedTeardowns(w), i) /\ ~InChannel(<<DiagMessage(w)>>, i)
                   /\ ~InChannel(<<>>, i)
         /\ NoRepeat(SkippedTeardowns(w)) /\ NoRepeat(<<DiagMessage(w)>>) /\ NoRepeat(<<>>)
BY DEF InChannel, NoRepeat, SkippedTeardowns, SkippedMessage, DiagMessage

\* What handle_drain_outcome sends for a lost worker.
LEMMA LossChannel ==
  ASSUME NEW g \in Groups, NEW n \in 0..Size[g], NEW o \in Outcomes, NEW w \in Workers
  PROVE  LET msgs == SkippedTeardowns(w) \o Sentinels(g, n, o, w)
         IN  /\ msgs \in Seq(Messages)
             /\ \A i : InChannel(msgs, i) <=> \E k \in (n + 1)..Size[g] : i = <<g, k>>
             /\ NoRepeat(msgs)
<1>1. Sentinels(g, n, o, w) \in Seq(Messages) /\ SkippedTeardowns(w) \in Seq(Messages)
  BY SentinelsAreMessages, SkippedTeardownsTyped
<1>2. SkippedTeardowns(w) \o Sentinels(g, n, o, w) \in Seq(Messages)
  BY Zenon, <1>1, ConcatProperties
<1> DEFINE T == SkippedTeardowns(w)
           S == Sentinels(g, n, o, w)
<1>3. (\A i : InChannel(S, i) <=> \E k \in (n + 1)..Size[g] : i = <<g, k>>) /\ NoRepeat(S)
  BY Zenon, SentinelsChannel
<1>4. (\A i : ~InChannel(T, i)) /\ NoRepeat(T)
  BY Zenon, DiagnosticsChannel
<1>5. /\ \A i : InChannel(T \o S, i) <=> InChannel(T, i) \/ InChannel(S, i)
      /\ NoRepeat(T) /\ NoRepeat(S) /\ (\A i \in Items : ~(InChannel(T, i) /\ InChannel(S, i)))
           => NoRepeat(T \o S)
  BY Zenon, <1>1, ConcatChannel
<1>6. \A i : InChannel(T \o S, i) <=> \E k \in (n + 1)..Size[g] : i = <<g, k>>
  <2> HIDE DEF T, S
  <2> QED BY ONLY Zenon, <1>3, <1>4, <1>5
<1>7. NoRepeat(T \o S)
  <2> HIDE DEF T, S
  <2> QED BY ONLY Zenon, <1>3, <1>4, <1>5
<1> QED BY Zenon, <1>2, <1>6, <1>7 DEF T, S

-----------------------------------------------------------------------------
(* The steps. *)

\* A thread that sends results only for items it owed, and owes them no more,
\* keeps every item settled at most once.
LEMMA SendSettles ==
  ASSUME TypeInv, GroupsApart, SettledOnce, ChannelClosed, ReportedAtMostOnce,
         NEW w \in Workers, NEW msgs \in Seq(Messages), NoRepeat(msgs), Send(msgs),
         UNCHANGED <<coord, next, reports>>,
         \A i \in Items : InChannel(msgs, i) => Owed(w, i) /\ ~Owed(w, i)',
         \A i \in Items, v \in Workers : Owed(v, i)' => Owed(v, i)
  PROVE  SettledOnce' /\ ChannelClosed' /\ ReportedAtMostOnce'
<1>0. rx \in Seq(Messages) /\ coord \in {"recv", "stopping", "join", "done"}
  BY DEF TypeInv, TypeOK, CoordTypes
<1>1. ChannelClosed' /\ ReportedAtMostOnce'
  BY DEF ChannelClosed, Send, ReportedAtMostOnce
<1>2. ASSUME NEW i \in Items, Owed(w, i)
      PROVE  /\ reports[i] = <<>> /\ ~InChannel(rx, i)
             /\ i[1] < next /\ \A v \in Workers : v # w => ~Owed(v, i)
  BY <1>2 DEF SettledOnce, Settled, Owed, GroupsApart
<1>3. /\ NoRepeat(rx')
      /\ \A i \in Items : InChannel(rx', i) =>
           InChannel(rx, i) \/ (InChannel(msgs, i) /\ coord = "recv")
  <2>1. CASE coord = "recv"
    <3>1. rx' = rx \o msgs
      BY <2>1 DEF Send
    <3>2. \A i \in Items : ~(InChannel(rx, i) /\ InChannel(msgs, i))
      BY <1>2
    <3> QED BY <1>0, <2>1, <3>1, <3>2, ConcatChannel DEF SettledOnce
  <2>2. CASE coord # "recv"
    BY <2>2 DEF Send, SettledOnce
  <2> QED BY <2>1, <2>2
<1>4. ASSUME NEW i \in Items
      PROVE  /\ InChannel(rx', i) => reports'[i] = <<>>
             /\ Settled(i)' => i[1] < next' /\ \A v \in Workers : ~Owed(v, i)'
  <2>1. CASE InChannel(msgs, i)
    <3>1. Owed(w, i) /\ ~Owed(w, i)'
      BY <2>1
    <3> QED BY <1>2, <3>1
  <2>2. CASE ~InChannel(msgs, i)
    <3>1. Settled(i)' => Settled(i)
      BY <1>3, <2>2 DEF Settled
    <3> QED BY <1>3, <2>2, <3>1 DEF SettledOnce
  <2> QED BY <2>1, <2>2
<1> QED BY <1>1, <1>3, <1>4 DEF SettledOnce

\* A step that sends nothing and takes no group keeps it too.
LEMMA QuietSettles ==
  ASSUME SettledOnce, ChannelClosed, ReportedAtMostOnce,
         UNCHANGED <<coord, next, rx, reports>>,
         \A i \in Items, v \in Workers : Owed(v, i)' => Owed(v, i)
  PROVE  SettledOnce' /\ ChannelClosed' /\ ReportedAtMostOnce'
BY DEF SettledOnce, ChannelClosed, ReportedAtMostOnce, Settled, InChannel, NoRepeat

\* The steps of the coordinator keep every item settled at most once.
LEMMA CoordinatorSettles ==
  ASSUME TypeInv, GroupsApart, SettledOnce, ChannelClosed, ReportedAtMostOnce, Coordinator
  PROVE  SettledOnce' /\ ChannelClosed' /\ ReportedAtMostOnce'
<1>0. CoordTypes /\ ThreadTypes
  BY DEF TypeInv, TypeOK
<1>1. \A i, v : Owed(v, i)' <=> Owed(v, i)
  BY CoordinatorLeaves DEF threadVars, Owed, HoldsGroup
<1>2. CASE RecvDiagnostic
  <2>1. rx \in Seq(Messages) /\ rx # <<>> /\ rx' = Tail(rx) /\ UNCHANGED <<coord, next, reports>>
        /\ coord = "recv"
    BY <1>0, <1>2 DEF RecvDiagnostic, CoordTypes
  <2>2. NoRepeat(rx') /\ \A i : InChannel(rx', i) => InChannel(rx, i)
    BY <2>1, TailChannel DEF SettledOnce
  <2>3. \A i \in Items : Settled(i)' => Settled(i)
    BY <2>1, <2>2 DEF Settled
  <2> QED BY <1>1, <2>1, <2>2, <2>3 DEF SettledOnce, ChannelClosed, ReportedAtMostOnce
<1>3. CASE RecvResult
  <2> DEFINE h == Head(rx)
  <2>1. /\ rx \in Seq(Messages) /\ rx # <<>> /\ coord = "recv" /\ h.kind = "result"
        /\ UNCHANGED next
        /\ reports' = IF h.item \in Items THEN [reports EXCEPT ![h.item] = Append(@, h.outcome)]
                                          ELSE reports
        /\ \/ rx' = Tail(rx) /\ coord' = "recv"
           \/ rx' = <<>>
    BY <1>0, <1>3 DEF RecvResult, CoordTypes
  <2>2. /\ \A i : InChannel(Tail(rx), i) => InChannel(rx, i)
        /\ InChannel(rx, h.item) /\ NoRepeat(Tail(rx))
        /\ h.item \in Items => ~InChannel(Tail(rx), h.item)
    BY <2>1, TailChannel DEF SettledOnce
  <2>3. /\ NoRepeat(rx') /\ \A i : InChannel(rx', i) => InChannel(rx, i)
        /\ h.item \in Items => ~InChannel(rx', h.item)
    <3>1. CASE rx' = Tail(rx)
      BY <2>2, <3>1
    <3>2. CASE rx' = <<>>
      BY <3>2 DEF NoRepeat, InChannel
    <3> QED BY <2>1, <3>1, <3>2
  <2>4. \A i \in Items : i # h.item => reports'[i] = reports[i]
    BY <1>0, <2>1 DEF CoordTypes
  <2>5. h.item \in Items => reports[h.item] = <<>> /\ Len(reports'[h.item]) <= 1
    BY <1>0, <2>1, <2>2 DEF SettledOnce, CoordTypes
  <2> HIDE DEF h
  <2>6. \A i \in Items : Settled(i)' => Settled(i)
    BY <2>2, <2>3, <2>4 DEF Settled
  <2>7. SettledOnce'
    BY <1>1, <2>1, <2>3, <2>4, <2>6 DEF SettledOnce
  <2>8. ReportedAtMostOnce'
    <3>1. ASSUME NEW i \in Items PROVE Len(reports'[i]) <= 1
      <4>1. CASE i = h.item
        BY <2>5, <4>1
      <4>2. CASE i # h.item
        BY <2>4, <4>2 DEF ReportedAtMostOnce
      <4> QED BY <4>1, <4>2
    <3> QED BY <3>1 DEF ReportedAtMostOnce
  <2> QED BY <2>1, <2>7, <2>8 DEF ChannelClosed
<1>4. CASE RecvClosed \/ JoinThreads
  <2>1. /\ UNCHANGED <<next, rx, reports>>
        /\ rx = <<>>
    BY <1>4 DEF RecvClosed, JoinThreads, ChannelClosed
  <2> QED BY <1>1, <2>1
          DEF SettledOnce, ChannelClosed, ReportedAtMostOnce, Settled, InChannel, NoRepeat
<1>5. CASE StopPhase
  <2>1. rx' = <<>> /\ rx = <<>>
    BY <1>5 DEF StopPhase, ChannelClosed
  <2>2. NoRepeat(rx') /\ \A i : ~InChannel(rx', i)
    BY <2>1 DEF NoRepeat, InChannel
  <2>3. ASSUME NEW i \in Items, i \in Leftover
        PROVE  /\ reports[i] = <<>> /\ Len(reports'[i]) <= 1
               /\ i[1] < next' /\ \A v \in Workers : ~Owed(v, i)
    <3>1. i[1] >= next /\ ~interrupted
      BY <2>3 DEF Leftover
    <3>2. i[1] \in 1..NumGroups /\ next \in 1..(NumGroups + 1)
      BY <1>0, ItemsMember DEF CoordTypes, Groups
    <3>3. reports[i] = <<>>
      BY <3>1, <3>2, PoolAssumption DEF SettledOnce, Settled
    <3>4. Len(reports'[i]) <= 1
      BY <1>5, <2>3, <3>3 DEF StopPhase
    <3>5. next' = NumGroups + 1
      BY <1>5, <3>1 DEF StopPhase
    <3>6. \A v \in Workers : ~Owed(v, i)
      BY <1>0, <3>1, <3>2, PoolAssumption DEF Owed, GroupsApart, ThreadTypes
    <3> QED BY <3>2, <3>3, <3>4, <3>5, <3>6, PoolAssumption
  <2>4. ASSUME NEW i \in Items, i \notin Leftover
        PROVE  reports'[i] = reports[i] /\ (Settled(i)' => i[1] < next')
    <3>1. reports'[i] = reports[i]
      BY <1>5, <2>4 DEF StopPhase
    <3>2. i[1] \in 1..NumGroups /\ next \in 1..(NumGroups + 1)
      BY <1>0, ItemsMember DEF CoordTypes, Groups
    <3>3. i[1] < next => i[1] < next'
      BY <1>5, <3>2, PoolAssumption DEF StopPhase
    <3>4. Settled(i)' => Settled(i)
      BY <2>1, <3>1 DEF Settled
    <3> QED BY <3>1, <3>3, <3>4 DEF SettledOnce
  <2>5. \A i \in Items : i \notin Leftover => (Settled(i)' => Settled(i))
    BY <2>1, <2>4 DEF Settled
  <2>6. SettledOnce'
    <3>1. \A i \in Items : Settled(i)' => \A v \in Workers : ~Owed(v, i)'
      BY <1>1, <2>3, <2>5 DEF SettledOnce
    <3> QED BY <2>2, <2>3, <2>4, <3>1 DEF SettledOnce
  <2>7. ReportedAtMostOnce'
    <3>1. ASSUME NEW i \in Items PROVE Len(reports'[i]) <= 1
      <4>1. CASE i \in Leftover
        BY <2>3, <4>1
      <4>2. CASE i \notin Leftover
        BY <2>4, <4>2 DEF ReportedAtMostOnce
      <4> QED BY <4>1, <4>2
    <3> QED BY <3>1 DEF ReportedAtMostOnce
  <2> QED BY <2>1, <2>6, <2>7 DEF ChannelClosed
<1> QED BY <1>2, <1>3, <1>4, <1>5 DEF Coordinator

\* The steps of a worker thread keep every item settled at most once.
LEMMA ThreadSettles ==
  ASSUME TypeInv, GroupsApart, PipeInv, SettledOnce, ChannelClosed, ReportedAtMostOnce,
         NEW w \in Workers, ThreadStep(w) \/ Watchdog(w)
  PROVE  SettledOnce' /\ ChannelClosed' /\ ReportedAtMostOnce'
<1>0. CoordTypes /\ ThreadTypes /\ ProcTypes /\ Held
  BY DEF TypeInv, TypeOK
<1>a. ASSUME HoldsGroup(w)
      PROVE  grp[w] \in Groups /\ received[w] \in 0..Size[grp[w]] /\ Size[grp[w]] \in Nat
  BY <1>0, <1>a, PoolAssumption DEF Held, ThreadTypes, Groups
<1>b. ASSUME ~HoldsGroup(w)', \A v \in Workers : v # w => pc'[v] = pc[v],
             UNCHANGED <<grp, received>>
      PROVE  /\ \A i : ~Owed(w, i)'
             /\ \A i \in Items, v \in Workers : Owed(v, i)' => Owed(v, i)
  BY <1>b DEF Owed, HoldsGroup
<1>1. CASE PopGroup(w)
  <2>1. UNCHANGED <<coord, rx, reports>> /\ next' = next + 1 /\ next \in Nat
    BY <1>0, <1>1 DEF PopGroup, CoordTypes
  <2>2. \A i \in Items, v \in Workers : Owed(v, i)' => Owed(v, i) \/ i[1] = next
    BY <1>0, <1>1 DEF PopGroup, Owed, HoldsGroup, ThreadTypes
  <2>3. \A i \in Items : i[1] \in Nat
    BY ItemsMember DEF Groups
  <2>4. \A i \in Items : Settled(i)' <=> Settled(i)
    BY <2>1 DEF Settled, InChannel
  <2>5. \A i \in Items : Settled(i) => i[1] < next' /\ \A v \in Workers : ~Owed(v, i)'
    BY <2>1, <2>2, <2>3 DEF SettledOnce
  <2> QED BY <2>1, <2>4, <2>5
          DEF SettledOnce, ChannelClosed, ReportedAtMostOnce, NoRepeat, InChannel
<1>2. CASE SendTask(w)
  <2>1. \A i \in Items, v \in Workers : Owed(v, i)' => Owed(v, i)
    BY <1>0, <1>2 DEF SendTask, Owed, HoldsGroup, ThreadTypes
  <2> QED BY <1>2, <2>1, QuietSettles DEF SendTask
<1>3. CASE SpawnWorker(w) \/ SpawnFails(w) \/ LeaveLoop(w) \/ TailTimedOut(w)
           \/ TailDisconnected(w) \/ ReapChild(w)
  <2>1. /\ UNCHANGED <<coord, next, rx, reports>>
        /\ \A i \in Items, v \in Workers : Owed(v, i)' => Owed(v, i)
    BY <1>0, <1>3
    DEF SpawnWorker, SpawnFails, LeaveLoop, TailTimedOut, TailDisconnected, ReapChild,
        coordVars, Owed, HoldsGroup, ThreadTypes
  <2> QED BY <2>1, QuietSettles
<1>4. CASE SendTaskFails(w)
  <2> DEFINE S == Sentinels(grp[w], 0, "crashed", w)
  <2>1. HoldsGroup(w) /\ received[w] = 0
    <3>1. pc[w] = "send"
      BY Zenon, <1>4 DEF SendTaskFails
    <3> QED BY <3>1 DEF HoldsGroup, PipeInv, NoneStale
  <2>2. grp[w] \in Groups /\ 0 \in 0..Size[grp[w]] /\ "crashed" \in Outcomes
    BY <1>a, <2>1 DEF Outcomes
  <2>3. /\ S \in Seq(Messages) /\ NoRepeat(S)
        /\ \A i : InChannel(S, i) => \E k \in 1..Size[grp[w]] : i = <<grp[w], k>>
    <3>1. S \in Seq(Messages)
      BY Zenon, <2>2, SentinelsAreMessages
    <3>2. /\ NoRepeat(S)
          /\ \A i : InChannel(S, i) <=> \E k \in (0 + 1)..Size[grp[w]] : i = <<grp[w], k>>
      BY Zenon, <2>2, SentinelsChannel
    <3>3. 0 + 1 = 1
      OBVIOUS
    <3> HIDE DEF S
    <3> QED BY ONLY Zenon, <3>1, <3>2, <3>3
  <2>4. Send(S) /\ UNCHANGED <<coord, next, reports, grp, received>>
    BY <1>4 DEF SendTaskFails
  <2>5. ~HoldsGroup(w)' /\ \A v \in Workers : v # w => pc'[v] = pc[v]
    BY <1>0, <1>4 DEF SendTaskFails, HoldsGroup, ThreadTypes
  <2> HIDE DEF S
  <2>6. \A i \in Items : InChannel(S, i) => Owed(w, i)
    BY <2>1, <2>3 DEF Owed
  <2> QED BY Zenon, <1>b, <2>3, <2>4, <2>5, <2>6, SendSettles
<1>5. ASSUME NEW o \in Outcomes, pc[w] = "drain", ~HoldsGroup(w)',
             \A v \in Workers : v # w => pc'[v] = pc[v],
             UNCHANGED <<coord, next, reports, grp, received>>,
             Send(SkippedTeardowns(w) \o Sentinels(grp[w], received[w], o, w))
      PROVE  SettledOnce' /\ ChannelClosed' /\ ReportedAtMostOnce'
  <2> DEFINE S == SkippedTeardowns(w) \o Sentinels(grp[w], received[w], o, w)
  <2>1. HoldsGroup(w)
    BY <1>5 DEF HoldsGroup
  <2>2. grp[w] \in Groups /\ received[w] \in 0..Size[grp[w]] /\ received[w] \in Nat
    BY <1>a, <2>1
  <2>3. /\ S \in Seq(Messages) /\ NoRepeat(S)
        /\ \A i : InChannel(S, i) => \E k \in (received[w] + 1)..Size[grp[w]] : i = <<grp[w], k>>
    BY <2>2, LossChannel
  <2>4. Send(S)
    BY <1>5
  <2> HIDE DEF S
  <2>5. \A i \in Items : InChannel(S, i) => Owed(w, i)
    <3> SUFFICES ASSUME NEW i \in Items, InChannel(S, i) PROVE Owed(w, i)
      BY Zenon
    <3>1. PICK k \in (received[w] + 1)..Size[grp[w]] : i = <<grp[w], k>>
      BY ONLY InChannel(S, i), <2>3
    <3>2. i[1] = grp[w] /\ i[2] > received[w]
      BY ONLY <2>2, <3>1
    <3> QED BY ONLY <2>1, <3>2 DEF Owed
  <2> QED BY <1>5, <1>b, <2>3, <2>4, <2>5, SendSettles
<1>6. CASE DrainTimedOut(w)
  <2>1. ~HoldsGroup(w)' /\ \A v \in Workers : v # w => pc'[v] = pc[v]
    BY <1>0, <1>6 DEF DrainTimedOut, HoldsGroup, ThreadTypes
  <2>2. "timedout" \in Outcomes
    BY DEF Outcomes
  <2> QED BY <1>5, <1>6, <2>1, <2>2 DEF DrainTimedOut
<1>7. CASE DrainDisconnected(w)
  <2>1. ~HoldsGroup(w)' /\ \A v \in Workers : v # w => pc'[v] = pc[v]
    BY <1>0, <1>7 DEF DrainDisconnected, HoldsGroup, ThreadTypes
  <2>2. "crashed" \in Outcomes
    BY DEF Outcomes
  <2> QED BY <1>5, <1>7, <2>1, <2>2 DEF DrainDisconnected
<1>8. CASE DrainAnswer(w)
  <2> DEFINE line == Head(lines[w])
             msg == IF line.kind = "result" THEN ResultMessage(line.item, line.outcome, w)
                                            ELSE ResultMessage(NoItem, "failed", w)
  <2>1. line.item = <<grp[w], received[w] + 1>>
    BY <1>8, DrainAnswerPipe DEF PipeInv
  <2>2. line \in Lines
    <3>1. lines[w] # <<>>
      BY Zenon, <1>8 DEF DrainAnswer
    <3> QED BY <1>0, <3>1 DEF ProcTypes
  <2>3. msg \in Messages
    BY <2>2 DEF Lines, Messages, ResultMessage, Outcomes
  <2>4. msg.kind = "result" /\ (msg.item = line.item \/ msg.item = NoItem)
    BY DEF ResultMessage
  <2>5. Send(<<msg>>) /\ UNCHANGED <<coord, next, reports, grp>>
    BY <1>8 DEF DrainAnswer
  <2>6. HoldsGroup(w) /\ received'[w] = received[w] + 1 /\ received[w] \in Nat
        /\ \A v \in Workers : v # w => pc'[v] = pc[v] /\ received'[v] = received[v]
    BY <1>0, <1>8 DEF DrainAnswer, HoldsGroup, ThreadTypes
  <2>7. \A i \in Items : i[2] \in Nat
    BY ItemsMember
  <2> HIDE DEF msg, line
  <2>8. <<msg>> \in Seq(Messages) /\ NoRepeat(<<msg>>)
    BY <2>3 DEF NoRepeat
  <2>9. \A i \in Items : InChannel(<<msg>>, i) => i = <<grp[w], received[w] + 1>>
    BY <2>1, <2>4, NoItemUnknown DEF InChannel
  <2>10. \A i \in Items : InChannel(<<msg>>, i) => Owed(w, i) /\ ~Owed(w, i)'
    <3>1. ASSUME NEW i \in Items, i = <<grp[w], received[w] + 1>>
          PROVE  i[1] = grp[w] /\ i[2] > received[w] /\ ~(i[2] > received'[w])
      BY <2>6, <3>1
    <3> QED BY <2>6, <2>9, <3>1 DEF Owed
  <2>11. \A i \in Items, v \in Workers : Owed(v, i)' => Owed(v, i)
    <3> SUFFICES ASSUME NEW i \in Items, NEW v \in Workers, Owed(v, i)' PROVE Owed(v, i)
      BY Zenon
    <3>1. HoldsGroup(v)' /\ i[1] = grp[v] /\ i[2] > received'[v]
      BY <2>5 DEF Owed
    <3>2. CASE v = w
      BY ONLY <2>6, <2>7, <3>1, <3>2, i \in Items DEF Owed
    <3>3. CASE v # w
      BY ONLY <2>6, <3>1, <3>3, v \in Workers DEF Owed, HoldsGroup
    <3> QED BY <3>2, <3>3
  <2> QED BY Zenon, <2>5, <2>8, <2>10, <2>11, SendSettles
<1>9. CASE DrainOther(w) \/ TailLine(w)
  <2>1. /\ UNCHANGED <<coord, next, reports, grp, received>>
        /\ \A i \in Items, v \in Workers : Owed(v, i)' => Owed(v, i)
    BY <1>0, <1>9 DEF DrainOther, TailLine, threadVars, Owed, HoldsGroup, ThreadTypes
  <2>2. \/ UNCHANGED rx
        \/ Send(<<DiagMessage(w)>>)
    <3>1. Send(<<>>) => UNCHANGED rx
      BY <1>0, ConcatProperties DEF Send, CoordTypes
    <3> QED BY <1>9, <3>1 DEF DrainOther, TailLine
  <2>3. <<DiagMessage(w)>> \in Seq(Messages)
    BY DEF DiagMessage, Messages, Outcomes
  <2>4. CASE UNCHANGED rx
    BY <2>1, <2>4, QuietSettles
  <2>5. CASE Send(<<DiagMessage(w)>>)
    BY Zenon, <2>1, <2>3, <2>5, DiagnosticsChannel, SendSettles
  <2> QED BY <2>2, <2>4, <2>5
<1> QED
  BY <1>1, <1>2, <1>3, <1>4, <1>6, <1>7, <1>8, <1>9 DEF ThreadStep, Watchdog

\* The invariant holds initially.
LEMMA InitOnce == Init => OnceInv
<1> SUFFICES ASSUME Init PROVE OnceInv
  OBVIOUS
<1>1. GroupsApart /\ PipeInv
  BY DEF Init, GroupsApart, PipeInv, HoldsGroup, Aligned, NoneStale, OldAnswered
<1>2. rx = <<>> /\ 1..Len(rx) = {} /\ \A i \in Items : reports[i] = <<>>
  BY DEF Init
<1>3. SettledOnce /\ ChannelClosed
  BY <1>2 DEF SettledOnce, ChannelClosed, Settled, InChannel, NoRepeat
<1>4. ReportedAtMostOnce
  BY DEF Init, ReportedAtMostOnce
<1> QED BY <1>1, <1>3, <1>4 DEF OnceInv

\* Every step keeps the invariant.
LEMMA NextOnce ==
  ASSUME "swallow" \notin Faults, TypeInv, OnceInv, [Next]_vars
  PROVE  OnceInv'
<1>1. GroupsApart' /\ PipeInv'
  BY GroupsApartStep, PipeStep DEF OnceInv
<1>2. SettledOnce' /\ ChannelClosed' /\ ReportedAtMostOnce'
  <2>1. CASE Coordinator
    BY <2>1, CoordinatorSettles DEF OnceInv
  <2>2. ASSUME NEW w \in Workers, ThreadStep(w) \/ Watchdog(w)
        PROVE  SettledOnce' /\ ChannelClosed' /\ ReportedAtMostOnce'
    BY <2>2, ThreadSettles DEF OnceInv
  <2>3. ASSUME UNCHANGED <<coordVars, threadVars>>
        PROVE  SettledOnce' /\ ChannelClosed' /\ ReportedAtMostOnce'
    <3>1. UNCHANGED <<coord, next, rx, reports>>
          /\ \A i \in Items, v \in Workers : Owed(v, i)' => Owed(v, i)
      BY <2>3 DEF coordVars, threadVars, Owed, HoldsGroup
    <3> QED BY <3>1, QuietSettles DEF OnceInv
  <2> QED BY <2>1, <2>2, <2>3, ProcessLeaves DEF Next, Finished, vars
<1> QED BY <1>1, <1>2 DEF OnceInv

\* No test is reported twice, for any number of workers, groups and items and
\* whatever subprocesses do short of gluing a result to unterminated output:
\* skip(received) in handle_drain_outcome names exactly the items without an
\* answer, and drain_remaining_into_crashed takes only groups nobody popped.
THEOREM NoDoubleReport ==
  ASSUME "swallow" \notin Faults
  PROVE  Spec => []ReportedAtMostOnce
<1>1. Init => TypeInv /\ OnceInv
  BY InitTyped, InitOnce
<1>2. TypeInv /\ OnceInv /\ [Next]_vars => (TypeInv /\ OnceInv)'
  BY NextTyped, NextOnce
<1>3. OnceInv => ReportedAtMostOnce
  BY DEF OnceInv
<1> QED BY <1>1, <1>2, <1>3, PTL DEF Spec
=============================================================================
