-------------------------- MODULE IssueSquashProofs --------------------------
(***************************************************************************)
(* Proofs that Path is invariant in the wirings of IssuePathProofs, and of *)
(* what follows: nothing is twice on the issue path, nothing squashed is   *)
(* left of it when dispatch goes on, the redirect is that of the recovery. *)
(* The steps of IssuePathProofs move instructions within IEW; the steps    *)
(* here bring them in and take them out: Dispatch, Commit and Advance.     *)
(***************************************************************************)
EXTENDS IssuePathProofs

-----------------------------------------------------------------------------
(* Forwarding moves nothing.                                               *)

LEMMA ForwardingPlaced ==
  ASSUME Wiring(cfg), NEW done, Sound(iew, done), Forwarding, NEW P, NEW home,
         Placed(iew, {}, P, {}, {}, {}, home)
  PROVE  /\ Placed(iew', {}, P, {}, {}, {}, home) /\ SameInsns(iew.insn, iew'.insn)
         /\ iew'.sched = iew.sched
<1> DEFINE results == {id \in DOMAIN iew.insn :
                         iew.insn[id].rd /\ \E w \in DOMAIN iew.wb : iew.wb[w].in = <<id>>}
           j == [id \in DOMAIN iew.insn |-> Woken(id, results)]
           m == [iew EXCEPT !.insn = j]
<1>1. Parts(iew) /\ iew.insn \in Seq(DynInsn)
  BY SoundParts DEF Sound, Insns
<1>2. iew' = m
  BY DEF Forwarding
<1> HIDE DEF results
<1>3. ASSUME NEW id \in DOMAIN iew.insn
      PROVE  /\ j[id].fu = iew.insn[id].fu /\ j[id].rd = iew.insn[id].rd
             /\ j[id].bad = iew.insn[id].bad /\ j[id].tag = iew.insn[id].tag
             /\ j[id].killed = iew.insn[id].killed
  <2> DEFINE y == iew.insn[id]
             r == y.ready \union {x \in results \intersect y.srcs : Hears(id, x)}
  <2>1. y \in DynInsn
    BY <1>1, <1>3
  <2>2. j[id] = [y EXCEPT !.ready = r]
    BY <1>3 DEF Woken
  <2> HIDE DEF r, y
  <2>3. LET z == [y EXCEPT !.ready = r]
        IN  z.fu = y.fu /\ z.rd = y.rd /\ z.bad = y.bad /\ z.tag = y.tag /\ z.killed = y.killed
    BY <2>1 DEF DynInsn
  <2> HIDE DEF j
  <2> QED
    BY <2>2, <2>3 DEF y
<1>4. DOMAIN j = DOMAIN iew.insn
  OBVIOUS
<1> HIDE DEF j
<1>5. SameInsns(iew.insn, j)
  BY <1>3, <1>4 DEF SameInsns
<1>6. /\ m.sched = iew.sched /\ m.port = iew.port /\ m.unit = iew.unit /\ m.wb = iew.wb
      /\ m.ldq = iew.ldq /\ m.insn = j
  BY <1>1 DEF Parts
<1> HIDE DEF m
<1>7. SamePipes(iew, m) /\ SameCaches(iew, m)
  BY <1>6 DEF SamePipes, SameCaches
<1>8. Placed(m, {}, P, {}, {}, {}, home)
  BY <1>6, <1>7, PlacedSame
<1> QED
  BY <1>2, <1>5, <1>6, <1>8


-----------------------------------------------------------------------------
(* Dispatch: what is new comes in at the end of the buffer.                *)

\* The numbers that follow base.
Numbered(queue, base, n) == queue \o [k \in 1 .. n |-> base + k]

\* The re-order buffer takes the n instructions of fresh, numbered from base on.
Entered(r, q, fresh, n, base) ==
  LET tags == {fresh[k].tag : k \in 1 .. n}
      nops == {fresh[k].tag : k \in {j \in 1 .. n : fresh[j].fu = "NOP"}}
      stops == n > 0 /\ ControlFlow(fresh[n])
  IN  /\ q.queue = Numbered(r.queue, base, n) /\ q.header = r.header
      /\ q.toCommit = r.toCommit /\ q.done = (r.done \ tags) \union nops
      /\ q.state = (IF stops THEN "Undo" ELSE r.state)
      /\ q.rollBackTag = (IF stops THEN fresh[n].tag ELSE r.rollBackTag)

LEMMA DispatchEnters ==
  ASSUME Wiring(cfg), Buffer, NEW pkg, Dispatch(pkg)
  PROVE  Entered(rob, rob', Renamed(Taken(pkg)), Len(Renamed(Taken(pkg))), Len(iew.insn))
<1> DEFINE fresh == Renamed(Taken(pkg))
           n == Len(fresh)
           tags == {fresh[k].tag : k \in 1 .. n}
           nops == {fresh[k].tag : k \in {l \in 1 .. n : fresh[l].fu = "NOP"}}
           stops == n > 0 /\ ControlFlow(fresh[n])
           queue == rob.queue \o [k \in 1 .. n |-> Len(iew.insn) + k]
           st == IF stops THEN "Undo" ELSE rob.state
           tag == IF stops THEN fresh[n].tag ELSE rob.rollBackTag
           d == (rob.done \ tags) \union nops
           b == (rob.stable \ tags) \union nops
<1>1. rob' = [rob EXCEPT !.queue = queue, !.done = d, !.stable = b,
                         !.state = st, !.rollBackTag = tag]
  BY DEF Buffer, Dispatch
<1>2. Entered(rob, rob', fresh, n, Len(iew.insn)) <=>
        /\ rob'.queue = queue /\ rob'.header = rob.header
        /\ rob'.toCommit = rob.toCommit /\ rob'.done = d
        /\ rob'.state = st /\ rob'.rollBackTag = tag
  BY DEF Entered, Numbered
<1> HIDE DEF queue, st, tag, d, b, fresh
<1>3. rob' = [queue |-> queue, header |-> rob.header, done |-> d, stable |-> b,
              state |-> st, rollBackTag |-> tag, toCommit |-> rob.toCommit]
  BY <1>1 DEF Buffer
<1> QED
  BY <1>2, <1>3 DEF fresh

\* What a package brings.
LEMMA FreshFacts ==
  ASSUME Wiring(cfg), MaxInsns \in Nat, NEW done, Sound(iew, done), Buffer,
         Len(rob.queue) <= cfg.robSize, NEW pkg \in Packages, Dispatch(pkg),
         NEW fresh, fresh = Renamed(Taken(pkg))
  PROVE  /\ iew.insn \in Seq(DynInsn) /\ fresh \in Seq(DynInsn)
         /\ Len(iew.insn) + Len(fresh) <= MaxInsns
         /\ Len(fresh) = 0 \/ rob.state = "Idle"
         /\ Len(rob.queue) + Len(fresh) <= cfg.robSize
         /\ \A k \in 1 .. Len(fresh) :
              /\ fresh[k].tag = (rob.header + Len(rob.queue) + k - 1) % cfg.robSize
              /\ ~fresh[k].killed /\ (fresh[k].bad => fresh[k].fu \in {"BRU", "LDU"})
<1> DEFINE taken == Taken(pkg)
           room == cfg.robSize - Len(rob.queue)
           x == Min({TryDispatch(pkg), room})
<1>1. pkg \in Seq(cfg.templates) /\ Len(pkg) \in Nat
  <2>1. pkg \in Seq(cfg.templates)
    BY PackageFacts
  <2> QED
    BY <2>1
<1>2. Insns(iew.insn)
  BY DEF Sound
<1>3. taken \in Seq(cfg.templates) /\ Len(taken) <= Len(pkg) /\ Len(taken) \in Nat
  <2>1. taken \in Seq(cfg.templates) /\ Len(taken) <= Len(pkg)
    BY TakenFacts
  <2> QED
    BY <2>1
<1>4. iew.insn \in Seq(DynInsn) /\ Len(iew.insn) \in Nat /\ Len(iew.insn) + Len(pkg) <= MaxInsns
  <2>1. Len(iew.insn) + Len(pkg) <= MaxInsns
    BY DEF Dispatch
  <2> QED
    BY <1>2, <2>1 DEF Insns
<1>5. Len(iew.insn) + Len(taken) <= MaxInsns
  BY <1>1, <1>3, <1>4
<1>6. fresh \in Seq(DynInsn) /\ Len(fresh) = Len(taken)
  BY <1>2, <1>3, <1>5, RenamedFacts
<1>7. room \in Nat /\ cfg.robSize \in Nat /\ Len(rob.queue) \in Nat
  BY WiringFacts, SMTT(40) DEF Buffer
<1>8. Len(taken) <= room
  <2>1. TryDispatch(pkg) \in 0 .. Len(pkg)
    BY <1>1, TryDispatchCounts
  <2>2. TryDispatch(pkg) \in Int /\ room \in Int /\ TryDispatch(pkg) >= 0
    BY <1>1, <1>7, <2>1
  <2>3. x \in {TryDispatch(pkg), room} /\ x <= room
    BY <2>2, MinOfTwo
  <2>4. x \in Nat /\ x <= room
    BY <1>7, <2>2, <2>3
  <2>5. taken = SubSeq(pkg, 1, x)
    BY DEF Taken
  <2> HIDE DEF taken, x, room
  <2>6. \A S : \A q \in Seq(S) : \A k \in Nat : Len(SubSeq(q, 1, k)) = k
    OBVIOUS
  <2> QED
    BY <1>1, <2>4, <2>5, <2>6
<1>9. Len(fresh) = 0 \/ rob.state = "Idle"
  <2>1. rob.state = "Idle" \/ pkg = <<>>
    BY DEF Dispatch
  <2>2. pkg = <<>> => Len(pkg) = 0
    OBVIOUS
  <2> QED
    BY <1>1, <1>3, <1>6, <2>1, <2>2
<1>10. ASSUME NEW k \in 1 .. Len(fresh)
       PROVE  /\ fresh[k].tag = (rob.header + Len(rob.queue) + k - 1) % cfg.robSize
              /\ ~fresh[k].killed /\ (fresh[k].bad => fresh[k].fu \in {"BRU", "LDU"})
  <2> DEFINE t == taken[k]
             src == Sources(taken, k)
             g == (rob.header + Len(rob.queue) + k - 1) % cfg.robSize
  <2>1. fresh[k] = NewInsn(t, src, g)
    BY <1>6 DEF Renamed
  <2>2. t \in cfg.templates
    BY <1>3, <1>6
  <2>3. t.bad => t.fu \in {"BRU", "LDU"}
    BY <2>2 DEF Wiring
  <2> HIDE DEF t, src, g
  <2>4. /\ fresh[k].tag = g /\ fresh[k].killed = FALSE /\ fresh[k].bad = t.bad
        /\ fresh[k].fu = t.fu
    BY <2>1 DEF NewInsn
  <2>5. fresh[k].bad => fresh[k].fu \in {"BRU", "LDU"}
    BY <2>3, <2>4, Zenon
  <2>6. ~fresh[k].killed
    BY <2>4
  <2>7. fresh[k].tag = (rob.header + Len(rob.queue) + k - 1) % cfg.robSize
    BY <2>4 DEF g
  <2> QED
    BY <2>5, <2>6, <2>7, Zenon
<1>11. Len(iew.insn) + Len(fresh) <= MaxInsns /\ Len(rob.queue) + Len(fresh) <= cfg.robSize
  BY <1>3, <1>5, <1>6, <1>7, <1>8
<1>12. iew.insn \in Seq(DynInsn) /\ fresh \in Seq(DynInsn)
  BY <1>4, <1>6
<1> HIDE DEF taken, room, x
<1> QED
  BY <1>9, <1>10, <1>11, <1>12, Zenon

LEMMA SeqJoin ==
  ASSUME NEW S, NEW a \in Seq(S), NEW b \in Seq(S), NEW n, Len(b) = n
  PROVE  /\ a \o b \in Seq(S) /\ Len(a \o b) = Len(a) + n
         /\ DOMAIN (a \o b) = 1 .. (Len(a) + n)
         /\ \A k \in 1 .. Len(a) : (a \o b)[k] = a[k]
         /\ \A k \in 1 .. n : (a \o b)[Len(a) + k] = b[k]
OBVIOUS

Lengthened(q, a, o, n, S) ==
  /\ q \in Seq(S) /\ Len(q) = Len(a) + n /\ DOMAIN q = 1 .. (Len(a) + n)
  /\ \A k \in 1 .. Len(a) : q[k] = a[k]
  /\ \A k \in 1 .. n : q[Len(a) + k] = o + k

LEMMA SeqCounted ==
  ASSUME NEW S, NEW a \in Seq(S), NEW o \in Nat, NEW n \in Nat, \A k \in 1 .. n : o + k \in S
  PROVE  Lengthened(Numbered(a, o, n), a, o, n, S)
<1> DEFINE b == [k \in 1 .. n |-> o + k]
<1>1. b \in Seq(S) /\ Len(b) = n /\ \A k \in 1 .. n : b[k] = o + k
  OBVIOUS
<1> HIDE DEF b
<1>a. b \in Seq(S) /\ Len(b) = n
  BY <1>1
<1>2. /\ a \o b \in Seq(S) /\ Len(a \o b) = Len(a) + n
      /\ DOMAIN (a \o b) = 1 .. (Len(a) + n)
      /\ \A k \in 1 .. Len(a) : (a \o b)[k] = a[k]
      /\ \A k \in 1 .. n : (a \o b)[Len(a) + k] = b[k]
  BY <1>a, SeqJoin
<1>3. /\ a \o b \in Seq(S) /\ Len(a \o b) = Len(a) + n
      /\ DOMAIN (a \o b) = 1 .. (Len(a) + n)
      /\ \A k \in 1 .. Len(a) : (a \o b)[k] = a[k]
      /\ \A k \in 1 .. n : (a \o b)[Len(a) + k] = o + k
  BY <1>1, <1>2
<1> QED
  BY <1>3 DEF b, Numbered, Lengthened

\* The n instructions of f follow the o of i, they have the next tags, and
\* they are where g says, if they need a unit.
Follow(i, j, f, n, o) ==
  /\ DOMAIN i = 1 .. o /\ DOMAIN j = 1 .. (o + n)
  /\ (\A k \in 1 .. o : j[k] = i[k]) /\ (\A k \in 1 .. n : j[o + k] = f[k])
NextTags(r, f, n) ==
  \A k \in 1 .. n : /\ f[k].tag = (r.header + Len(r.queue) + k - 1) % cfg.robSize
                    /\ ~f[k].killed
Enters(g, h, f, n, o) ==
  \A id \in Ids : g[id] # Nowhere =>
    \/ g[id] = h[id]
    \/ id \in (o + 1) .. (o + n) /\ f[id - o].fu # "NOP"

\* What enters the buffer is expected, and what it had still is.
LEMMA EnteredControl ==
  ASSUME Wiring(cfg), NEW i, NEW j, NEW f, NEW n \in Nat \ {0}, NEW o \in Nat,
         Follow(i, j, f, n, o), NEW r, NEW q, Entered(r, q, f, n, o),
         r.state = "Idle", Len(r.queue) + n <= cfg.robSize, NextTags(r, f, n),
         NEW h, NEW g, Control(i, r, h), Enters(g, h, f, n, o)
  PROVE  Control(j, q, g)
<1> DEFINE L == Len(r.queue)
           N == cfg.robSize
           tags == {f[k].tag : k \in 1 .. n}
           nops == {f[k].tag : k \in {l \in 1 .. n : f[l].fu = "NOP"}}
           stops == n > 0 /\ ControlFlow(f[n])
<1>1. /\ DOMAIN i = 1 .. o /\ DOMAIN j = 1 .. (o + n) /\ (\A k \in 1 .. o : j[k] = i[k])
      /\ \A k \in 1 .. n : j[o + k] = f[k]
  BY DEF Follow
<1>2. /\ r.header \in 0 .. (N - 1) /\ r.queue \in Seq(DOMAIN i) /\ L \in Nat
      /\ \A k \in 1 .. L : /\ i[r.queue[k]].tag = (r.header + k - 1) % N
                           /\ ~i[r.queue[k]].killed
      /\ r.toCommit \in 0 .. L /\ (\A k \in 1 .. r.toCommit : i[r.queue[k]].tag \in r.done)
  <2>1. \A S : \A a \in Seq(S) : Len(a) \in Nat
    OBVIOUS
  <2>2. r.queue \in Seq(DOMAIN i)
    BY DEF Control, Ring
  <2>3. L \in Nat
    BY <2>1, <2>2
  <2> QED
    BY <2>2, <2>3 DEF Control, Ring
<1>3. \A k \in 1 .. L : r.queue[k] \in DOMAIN i
  <2>1. \A S : \A a \in Seq(S) : \A k \in 1 .. Len(a) : a[k] \in S
    OBVIOUS
  <2> QED
    BY <1>2, <2>1
<1>4. /\ q.queue = Numbered(r.queue, o, n) /\ q.header = r.header /\ q.toCommit = r.toCommit
      /\ q.done = (r.done \ tags) \union nops
      /\ q.state = (IF stops THEN "Undo" ELSE r.state)
      /\ q.rollBackTag = (IF stops THEN f[n].tag ELSE r.rollBackTag)
  BY DEF Entered
<1>5. /\ Len(q.queue) = L + n /\ (\A k \in 1 .. L : q.queue[k] = r.queue[k])
      /\ (\A k \in 1 .. n : q.queue[L + k] = o + k)
      /\ q.queue \in Seq(DOMAIN j) /\ DOMAIN q.queue = 1 .. (L + n)
  <2>1. r.queue \in Seq(DOMAIN j)
    <3>1. DOMAIN i \subseteq DOMAIN j
      BY <1>1
    <3> QED
      BY <1>2, <3>1, SeqGrows
  <2>2. \A k \in 1 .. n : o + k \in DOMAIN j
    BY <1>1
  <2>3. n \in Nat
    OBVIOUS
  <2>4. Lengthened(Numbered(r.queue, o, n), r.queue, o, n, DOMAIN j)
    BY <2>1, <2>2, <2>3, SeqCounted
  <2> QED
    BY <1>4, <2>4 DEF Lengthened
<1>6. N \in Nat \ {0} /\ L + n <= N /\ Len(q.queue) = L + n /\ cfg.robSize = N
      /\ Len(r.queue) = L
      /\ \A k \in 1 .. n : /\ f[k].tag = (r.header + L + k - 1) % N
                           /\ ~f[k].killed
  BY <1>5, WiringFacts DEF NextTags
<1> HIDE DEF L, N
<1>7. ASSUME NEW k \in 0 .. (N - 1)
      PROVE  (r.header + k) % N \in 0 .. (N - 1) /\ Distance(r, (r.header + k) % N) = k
  <2>1. r.header \in 0 .. (N - 1)
    BY <1>2
  <2> QED
    BY <2>1, TagAt DEF N
<1>8. \A k \in 1 .. L : Distance(r, i[r.queue[k]].tag) = k - 1
  <2> TAKE k \in 1 .. L
  <2>1. k - 1 \in 0 .. (N - 1) /\ r.header + k - 1 = r.header + (k - 1)
    BY <1>2, <1>6
  <2>2. i[r.queue[k]].tag = (r.header + (k - 1)) % N
    BY <1>2, <2>1
  <2> QED
    BY <1>7, <2>1, <2>2
<1>9. \A k \in 1 .. n : Distance(r, f[k].tag) = L + k - 1 /\ f[k].tag \in 0 .. (N - 1)
  <2> TAKE k \in 1 .. n
  <2>1. L + k - 1 \in 0 .. (N - 1) /\ r.header + L + k - 1 = r.header + (L + k - 1)
    BY <1>2, <1>6
  <2>2. f[k].tag = (r.header + (L + k - 1)) % N
    BY <1>6, <2>1
  <2> QED
    BY <1>7, <2>1, <2>2
<1>10. \A k \in 1 .. L : i[r.queue[k]].tag \notin tags
  <2> SUFFICES ASSUME NEW k \in 1 .. L, NEW l \in 1 .. n, i[r.queue[k]].tag = f[l].tag
      PROVE  FALSE
    OBVIOUS
  <2>1. k - 1 = L + l - 1
    BY <1>8, <1>9
  <2> QED
    BY <1>2, <2>1
<1>11. \A k, l \in 1 .. n : f[k].tag = f[l].tag => k = l
  <2> SUFFICES ASSUME NEW k \in 1 .. n, NEW l \in 1 .. n, f[k].tag = f[l].tag
      PROVE  k = l
    OBVIOUS
  <2>1. L + k - 1 = L + l - 1
    BY <1>9
  <2> QED
    BY <1>2, <2>1
<1>12. nops \subseteq tags
  OBVIOUS
<1>13. ASSUME NEW t
       PROVE  Distance(q, t) = Distance(r, t)
  BY <1>4 DEF Distance
<1> HIDE DEF tags
<1>14. Ring(j, q)
  <2>1. ASSUME NEW k \in 1 .. Len(q.queue)
        PROVE  /\ j[q.queue[k]].tag = (q.header + k - 1) % cfg.robSize
               /\ ~j[q.queue[k]].killed
    <3>1. CASE k \in 1 .. L
      <4>1. q.queue[k] = r.queue[k] /\ r.queue[k] \in 1 .. o
        BY <1>1, <1>3, <1>5, <3>1
      <4>2. j[q.queue[k]] = i[r.queue[k]]
        BY <1>1, <4>1
      <4> QED
        BY <1>2, <1>4, <1>6, <3>1, <4>2
    <3>2. CASE k \notin 1 .. L
      <4> DEFINE l == k - L
      <4>1. l \in 1 .. n /\ k = L + l
        BY <1>2, <1>5, <3>2
      <4> HIDE DEF l
      <4>2. q.queue[k] = o + l
        BY <1>5, <4>1
      <4>3. j[q.queue[k]] = f[l]
        BY <1>1, <4>1, <4>2
      <4>4. r.header + L + l - 1 = q.header + k - 1
        BY <1>2, <1>4, <4>1
      <4> QED
        BY <1>6, <4>1, <4>3, <4>4
    <3> QED
      BY <3>1, <3>2
  <2>2. q.header \in 0 .. (N - 1) /\ Len(q.queue) <= N
    BY <1>2, <1>4, <1>5, <1>6
  <2>3. q.toCommit \in 0 .. Len(q.queue)
    BY <1>2, <1>4, <1>5
  <2>4. ASSUME NEW k \in 1 .. q.toCommit
        PROVE  j[q.queue[k]].tag \in q.done
    <3>1. k \in 1 .. L /\ k \in 1 .. r.toCommit
      BY <1>2, <1>4
    <3>2. q.queue[k] = r.queue[k] /\ r.queue[k] \in 1 .. o
      BY <1>1, <1>3, <1>5, <3>1
    <3>3. j[q.queue[k]] = i[r.queue[k]]
      BY <1>1, <3>2
    <3> QED
      BY <1>2, <1>4, <1>10, <3>1, <3>3
  <2> QED
    BY <1>5, <1>6, <2>1, <2>2, <2>3, <2>4 DEF Ring
<1>15. Recovery(j, q)
  <2>1. CASE ~stops
    <3>1. q.state = "Idle"
      BY <1>4, <2>1
    <3> QED
      BY <3>1 DEF Recovery
  <2>2. CASE stops
    <3>1. q.state = "Undo" /\ q.rollBackTag = f[n].tag
      BY <1>4, <2>2
    <3>2. q.rollBackTag \in 0 .. (N - 1) /\ Distance(q, q.rollBackTag) = L + n - 1
      <4>1. n \in 1 .. n
        OBVIOUS
      <4> QED
        BY <1>9, <1>13, <3>1, <4>1
    <3>3. InRob(q, q.rollBackTag) /\ q.toCommit <= Distance(q, q.rollBackTag)
      <4>1. q.toCommit \in 0 .. L
        BY <1>2, <1>4
      <4>2. L + n - 1 < Len(q.queue) /\ \A k \in 0 .. L : k <= L + n - 1
        BY <1>2, <1>6
      <4> QED
        BY <3>2, <4>1, <4>2 DEF InRob
    <3> QED
      BY <1>6, <3>1, <3>2, <3>3 DEF Recovery
  <2> QED
    BY <2>1, <2>2
<1>16. ToSet(q.queue) = {q.queue[k] : k \in 1 .. (L + n)}
  BY <1>5 DEF ToSet
<1>17. ToSet(r.queue) = {r.queue[k] : k \in 1 .. L}
  <2>1. \A S : \A a \in Seq(S) : DOMAIN a = 1 .. Len(a)
    OBVIOUS
  <2> QED
    BY <1>2, <2>1 DEF ToSet, L
<1>18. ASSUME NEW id \in Ids, g[id] # Nowhere, g[id] = h[id]
       PROVE  /\ id \in DOMAIN i /\ j[id] = i[id]
              /\ \/ Expected(i, r, id)
                 \/ i[id].killed /\ h[id][1] = "dCache"
  <2>1. /\ id \in DOMAIN i
        /\ \/ Expected(i, r, id)
           \/ Lingers(i, r, id) /\ h[id] # AtLdq
           \/ i[id].killed /\ h[id][1] = "dCache"
    BY <1>18 DEF Control, Owned
  <2>2. ~Lingers(i, r, id)
    BY DEF Lingers
  <2> QED
    BY <1>1, <2>1, <2>2
<1>19. ASSUME NEW id \in Ids, g[id] # Nowhere, g[id] # h[id]
       PROVE  id \in DOMAIN j /\ Expected(j, q, id) /\ ~j[id].killed
  <2> DEFINE k == id - o
  <2>1. id \in (o + 1) .. (o + n) /\ f[k].fu # "NOP"
    BY <1>19 DEF Enters
  <2>2. k \in 1 .. n /\ id = o + k
    BY <2>1
  <2> HIDE DEF k
  <2>3. j[id] = f[k] /\ id \in DOMAIN j
    BY <1>1, <2>2
  <2>4. id \in ToSet(q.queue)
    <3>1. L + k \in 1 .. (L + n)
      BY <1>2, <2>2
    <3>2. q.queue[L + k] = id
      BY <1>5, <2>2
    <3> QED
      BY <1>16, <3>1, <3>2
  <2>5. f[k].tag \in tags /\ f[k].tag \notin nops
    BY <1>11, <2>1, <2>2 DEF tags
  <2> QED
    BY <1>4, <1>6, <2>2, <2>3, <2>4, <2>5 DEF Expected
<1>20. Owned(j, q, g)
  <2> SUFFICES ASSUME NEW id \in Ids, g[id] # Nowhere
      PROVE  /\ id \in DOMAIN j
             /\ \/ Expected(j, q, id)
                \/ j[id].killed /\ g[id][1] = "dCache"
    BY DEF Owned
  <2>1. CASE g[id] = h[id]
    <3>1. /\ id \in DOMAIN i /\ j[id] = i[id]
          /\ \/ Expected(i, r, id)
             \/ i[id].killed /\ h[id][1] = "dCache"
      BY <1>18, <2>1
    <3>2. id \in DOMAIN j
      BY <1>1, <3>1
    <3>3. ASSUME Expected(i, r, id)
          PROVE  Expected(j, q, id)
      <4>1. PICK k \in 1 .. L : id = r.queue[k]
        BY <1>17, <3>3 DEF Expected
      <4>2. k \in 1 .. (L + n) /\ q.queue[k] = id
        BY <1>2, <1>5, <4>1
      <4>3. i[id].tag \notin r.done /\ i[id].tag \notin nops
        BY <1>10, <1>12, <3>3, <4>1 DEF Expected
      <4> QED
        BY <1>4, <1>16, <3>1, <4>2, <4>3 DEF Expected
    <3> QED
      BY <2>1, <3>1, <3>2, <3>3
  <2>2. CASE g[id] # h[id]
    BY <1>19, <2>2
  <2> QED
    BY <2>1, <2>2
<1>21. Resumable(j, q, g)
  <2> SUFFICES ASSUME q.state # "Idle"
      PROVE  /\ Distance(q, q.rollBackTag) = Len(q.queue) - 1
             /\ \A id \in Ids : g[id] # Nowhere /\ g[id][1] # "dCache" => ~j[id].killed
    BY DEF Resumable
  <2>1. Distance(q, q.rollBackTag) = Len(q.queue) - 1
    BY <1>2, <1>4, <1>5, <1>9, <1>13
  <2>2. ASSUME NEW id \in Ids, g[id] # Nowhere, g[id][1] # "dCache"
        PROVE  ~j[id].killed
    <3>1. CASE g[id] = h[id]
      <4>1. j[id] = i[id] /\ Expected(i, r, id)
        BY <1>18, <2>2, <3>1
      <4>2. PICK k \in 1 .. L : id = r.queue[k]
        BY <1>17, <4>1 DEF Expected
      <4> QED
        BY <1>2, <4>1, <4>2
    <3>2. CASE g[id] # h[id]
      BY <1>19, <2>2, <3>2
    <3> QED
      BY <3>1, <3>2
  <2> QED
    BY <2>1, <2>2
<1> QED
  BY <1>14, <1>15, <1>20, <1>21 DEF Control

LEMMA DispatchInsnPlaced ==
  ASSUME Wiring(cfg), Orderly, NEW m, NEW done, Sound(m, done), NEW id \in DOMAIN m.insn,
         id \in Ids, NEW home, Placed(m, {}, {}, {}, {}, {}, home), home[id] = Nowhere
  PROVE  \E g : /\ Placed(DispatchInsn(m, id), {}, {}, {}, {}, {}, g)
                /\ \A x \in Ids : x # id => g[x] = home[x]
                /\ m.insn[id].fu = "NOP" => g[id] = Nowhere
<1> DEFINE room == [s \in ToSet(cfg.top) |-> 1]
           c == Entrances(m, room, m.insn[id].fu)
           s == cfg.top[Min(c)]
           d == DispatchInsn(m, id)
           Fine(g) == /\ Placed(d, {}, {}, {}, {}, {}, g)
                      /\ \A x \in Ids : x # id => g[x] = home[x]
                      /\ m.insn[id].fu = "NOP" => g[id] = Nowhere
<1>1. CASE m.insn[id].fu = "NOP"
  <2>1. d = m
    BY <1>1 DEF DispatchInsn
  <2> HIDE DEF d
  <2> QED
    BY <2>1 DEF d
<1>2. CASE m.insn[id].fu # "NOP" /\ c = {}
  <2>1. d = Fires(m, TRUE, "Unexpected Dispatch Fail!")
    BY <1>2 DEF DispatchInsn
  <2>2. \A failed, name : LET f == Fires(m, failed, name)
                          IN  /\ f.sched = m.sched /\ f.unit = m.unit /\ f.port = m.port
                              /\ f.wb = m.wb /\ f.ldq = m.ldq
    BY SoundFires
  <2>3. d.sched = m.sched /\ d.unit = m.unit /\ d.port = m.port /\ d.wb = m.wb /\ d.ldq = m.ldq
    BY <2>1, <2>2
  <2> HIDE DEF d
  <2>4. Placed(d, {}, {}, {}, {}, {}, home)
    BY <2>3, PlacedSame DEF SamePipes, SameCaches
  <2> QED
    BY <1>2, <2>4 DEF d
<1>3. CASE m.insn[id].fu # "NOP" /\ c # {}
  <2>1. d = Claim(m, s, id)
    BY <1>3 DEF DispatchInsn, Claim, Q
  <2>2. s \in DOMAIN cfg.sched /\ ~SchedBusy(m, s)
    <3>1. c \subseteq DOMAIN cfg.top
      BY DEF Entrances
    <3>2. c \subseteq Nat
      BY <3>1, WiringFacts, SMTT(40)
    <3>3. Min(c) \in c
      BY <1>3, <3>2, MinOfNats
    <3>4. ~SchedBusy(m, s)
      BY <3>3 DEF Entrances
    <3> QED
      BY <3>1, <3>3, <3>4, WiringFacts
  <2> HIDE DEF s, d
  <2>3. cfg.sched[s].order \in {"In-Order", "In-Age-Order"}
    BY <2>2 DEF Orderly
  <2>4. Placed(d, {}, {}, {}, {}, {}, Moved(home, id, AtSched(s)))
    BY <2>1, <2>2, <2>3, ClaimPlaced
  <2>5. \A x \in Ids : x # id => Moved(home, id, AtSched(s))[x] = home[x]
    <3>1. DOMAIN home = Ids
      BY DEF Placed
    <3> QED
      BY <3>1, MoveFacts
  <2> QED
    BY <1>3, <2>4, <2>5 DEF d
<1> QED
  BY <1>1, <1>2, <1>3

LEMMA DispatchControl ==
  ASSUME Wiring(cfg), MaxInsns \in Nat, Orderly, NEW done, Sound(iew, done), Buffer,
         MayGoWrong(iew.insn), NEW pkg \in Packages, Dispatch(pkg), NEW home,
         Placed(iew, {}, {}, {}, {}, {}, home), Control(iew.insn, rob, home)
  PROVE  /\ MayGoWrong(iew'.insn)
         /\ \E g : Placed(iew', {}, {}, {}, {}, {}, g) /\ Control(iew'.insn, rob', g)
<1> DEFINE f == Renamed(Taken(pkg))
           n == Len(f)
           i == iew.insn
           o == Len(i)
           j == i \o f
           base == [iew EXCEPT !.insn = j]
           Fine(m, k, g) ==
             /\ Placed(m, {}, {}, {}, {}, {}, g)
             /\ \A x \in Ids : x \notin (o + 1) .. (o + k) => g[x] = home[x]
             /\ \A x \in (o + 1) .. (o + k) : g[x] # Nowhere => j[x].fu # "NOP"
           Good(m, k) == Sound(m, done) /\ m.insn = j /\ \E g : Fine(m, k, g)
<1>1. /\ i \in Seq(DynInsn) /\ f \in Seq(DynInsn) /\ o + n <= MaxInsns
      /\ n = 0 \/ rob.state = "Idle"
      /\ Len(rob.queue) + n <= cfg.robSize
      /\ \A k \in 1 .. n :
           /\ f[k].tag = (rob.header + Len(rob.queue) + k - 1) % cfg.robSize
           /\ ~f[k].killed /\ (f[k].bad => f[k].fu \in {"BRU", "LDU"})
  <2>1. Len(rob.queue) <= cfg.robSize
    BY DEF Control, Ring
  <2> QED
    BY <2>1, FreshFacts
<1>2. n \in Nat /\ o \in Nat
  BY <1>1
<1>3. /\ DOMAIN i = 1 .. o /\ DOMAIN j = 1 .. (o + n)
      /\ (\A k \in 1 .. o : j[k] = i[k]) /\ (\A k \in 1 .. n : j[o + k] = f[k])
  <2>1. i \in Seq(DynInsn) /\ f \in Seq(DynInsn)
    BY <1>1
  <2> HIDE DEF i, f
  <2> QED
    BY <2>1
<1>4. Entered(rob, rob', f, n, o)
  BY DispatchEnters
<1>5. MayGoWrong(j)
  <2> HIDE DEF i, f, n, o
  <2> SUFFICES ASSUME NEW x \in DOMAIN j, j[x].bad
      PROVE  j[x].fu \in {"BRU", "LDU"}
    BY DEF MayGoWrong
  <2>1. CASE x <= o
    <3>1. j[x] = i[x] /\ x \in DOMAIN i
      BY <1>2, <1>3, <2>1
    <3>2. MayGoWrong(i)
      BY DEF i
    <3> QED
      BY <3>1, <3>2 DEF MayGoWrong
  <2>2. CASE ~(x <= o)
    <3> DEFINE k == x - o
    <3>1. k \in 1 .. n /\ x = o + k
      BY <1>2, <1>3, <2>2
    <3> HIDE DEF k
    <3>2. j[x] = f[k]
      BY <1>3, <3>1
    <3>3. f[k].bad => f[k].fu \in {"BRU", "LDU"}
      BY <1>1, <3>1
    <3> QED
      BY <3>2, <3>3
  <2> QED
    BY <2>1, <2>2
<1>6. Sound(base, done) /\ base.insn = j
  BY PackageSound
<1>7. Placed(base, {}, {}, {}, {}, {}, home)
  <2>1. Parts(iew)
    BY DEF Sound
  <2> HIDE DEF j
  <2>2. base.sched = iew.sched /\ base.unit = iew.unit /\ base.port = iew.port
        /\ base.wb = iew.wb /\ base.ldq = iew.ldq
    BY <2>1 DEF Parts
  <2> HIDE DEF base
  <2> QED
    BY <2>2, PlacedSame DEF SamePipes, SameCaches
<1>8. PICK h : /\ iew' = h[n]
               /\ h[0] = [iew EXCEPT !.insn = @ \o f]
               /\ \A k \in 1 .. n : h[k] = DispatchInsn(h[k - 1], o + k)
  BY <1>2, DispatchRuns
<1>9. h[0] = base
  BY <1>8
<1> HIDE DEF base, j
<1>10. \A x \in Ids : x > o => home[x] = Nowhere
  <2> SUFFICES ASSUME NEW x \in Ids, x > o, home[x] # Nowhere
      PROVE  FALSE
    OBVIOUS
  <2>1. x \in DOMAIN i
    BY DEF Control, Owned
  <2> QED
    BY <1>2, <1>3, <2>1
<1> HIDE DEF i, f, n, o
<1> DEFINE T == {k \in 0 .. n : Good(h[k], k)}
<1>11. 0 \in T
  <2>1. Fine(base, 0, home)
    BY <1>2, <1>7
  <2> HIDE DEF Fine
  <2>2. Good(base, 0)
    BY <1>6, <2>1
  <2> HIDE DEF Good
  <2> QED
    BY <1>2, <1>9, <2>2
<1>12. ASSUME NEW k \in 1 .. n, k - 1 \in T
       PROVE  k \in T
  <2> DEFINE m == h[k - 1]
             id == o + k
             d == DispatchInsn(m, id)
  <2>1. Good(m, k - 1) /\ h[k] = d
    BY <1>8, <1>12
  <2> HIDE DEF m
  <2>2. PICK g : Fine(m, k - 1, g)
    BY <2>1
  <2>3. Sound(m, done) /\ m.insn = j
    BY <2>1
  <2>4. id \in DOMAIN m.insn /\ id \in Ids /\ id > o
    BY <1>1, <1>2, <1>3, <2>3 DEF Ids
  <2>5. id \notin (o + 1) .. (o + (k - 1))
    BY <1>2
  <2>6. g[id] = Nowhere
    BY <1>10, <2>2, <2>4, <2>5
  <2>7. Sound(d, done) /\ d.insn = j
    BY <2>3, <2>4, DispatchInsnSound
  <2>8. PICK e : /\ Placed(d, {}, {}, {}, {}, {}, e)
                 /\ \A x \in Ids : x # id => e[x] = g[x]
                 /\ m.insn[id].fu = "NOP" => e[id] = Nowhere
    <3>1. Placed(m, {}, {}, {}, {}, {}, g)
      BY <2>2
    <3> QED
      BY <2>3, <2>4, <2>6, <3>1, DispatchInsnPlaced
  <2> HIDE DEF d
  <2>9. \A x \in Ids : x \notin (o + 1) .. (o + k) => e[x] = home[x]
    <3> TAKE x \in Ids
    <3> HAVE x \notin (o + 1) .. (o + k)
    <3>1. x # id /\ x \notin (o + 1) .. (o + (k - 1))
      BY <1>2, <2>4
    <3> QED
      BY <2>2, <2>8, <3>1
  <2>10. \A x \in (o + 1) .. (o + k) : e[x] # Nowhere => j[x].fu # "NOP"
    <3> TAKE x \in (o + 1) .. (o + k)
    <3> HAVE e[x] # Nowhere
    <3>1. CASE x = id
      BY <2>3, <2>8, <3>1
    <3>2. CASE x # id
      <4>1. x \in Ids /\ x \in (o + 1) .. (o + (k - 1))
        BY <1>1, <1>2, <3>2 DEF Ids
      <4>2. g[x] # Nowhere
        BY <2>8, <3>2, <4>1
      <4> QED
        BY <2>2, <4>1, <4>2
    <3> QED
      BY <3>1, <3>2
  <2>11. Fine(d, k, e)
    BY <2>8, <2>9, <2>10
  <2> HIDE DEF Fine, id
  <2>12. Good(d, k)
    BY <2>7, <2>11
  <2> HIDE DEF Good
  <2> QED
    BY <2>1, <2>12
<1>13. n \in T
  <2> HIDE DEF T
  <2> QED
    BY <1>2, <1>11, <1>12, LastRound
<1>14. Good(iew', n)
  BY <1>8, <1>13
<1>15. PICK g : Fine(iew', n, g)
  BY <1>14
<1>16. iew'.insn = j
  BY <1>14
<1>17. Control(i, rob, home)
  BY DEF i
<1>18. Control(j, rob', g)
  <2>1. CASE n = 0
    <3>1. \A x \in Ids : g[x] = home[x]
      BY <1>2, <1>15, <2>1
    <3>2. rob'.queue = rob.queue /\ rob'.header = rob.header /\ rob'.toCommit = rob.toCommit
          /\ rob'.done = rob.done /\ rob'.state = rob.state /\ rob'.rollBackTag = rob.rollBackTag
      <4>1. /\ rob'.queue = Numbered(rob.queue, o, 0) /\ rob'.header = rob.header
            /\ rob'.toCommit = rob.toCommit
            /\ rob'.done = (rob.done \ {f[k].tag : k \in 1 .. 0})
                           \union {f[k].tag : k \in {l \in 1 .. 0 : f[l].fu = "NOP"}}
            /\ rob'.state = rob.state /\ rob'.rollBackTag = rob.rollBackTag
        BY <1>4, <2>1 DEF Entered
      <4>2. 1 .. 0 = {}
        OBVIOUS
      <4>3. rob'.done = rob.done
        BY <4>1, <4>2
      <4>4. Numbered(rob.queue, o, 0) = rob.queue
        <5>1. rob.queue \in Seq(DOMAIN i)
          BY <1>17 DEF Control, Ring
        <5>2. \A k \in 1 .. 0 : o + k \in DOMAIN i
          OBVIOUS
        <5>3. Lengthened(Numbered(rob.queue, o, 0), rob.queue, o, 0, DOMAIN i)
          BY <1>2, <5>1, <5>2, SeqCounted
        <5>4. \A S : \A a, b \in Seq(S) :
                Len(a) = Len(b) /\ (\A k \in 1 .. Len(a) : a[k] = b[k]) => a = b
          OBVIOUS
        <5> DEFINE p == Numbered(rob.queue, o, 0)
        <5> HIDE DEF p
        <5>5. p \in Seq(DOMAIN i) /\ Len(p) = Len(rob.queue) + 0
              /\ \A k \in 1 .. Len(rob.queue) : p[k] = rob.queue[k]
          BY <5>3 DEF Lengthened, p
        <5>6. Len(rob.queue) + 0 = Len(rob.queue)
          BY <5>1
        <5> QED
          BY <5>1, <5>4, <5>5, <5>6 DEF p
      <4> QED
        BY <4>1, <4>3, <4>4
    <3>3. j = i
      <4>1. \A S : \A a \in Seq(S) : \A b \in Seq(S) : Len(b) = 0 => a \o b = a
        OBVIOUS
      <4> QED
        BY <1>1, <2>1, <4>1 DEF j, n
    <3>4. Ring(i, rob') /\ Recovery(i, rob') /\ Resumable(i, rob', g)
      <4>1. Ring(i, rob')
        BY <1>17, <3>2 DEF Control, Ring
      <4>2. Recovery(i, rob')
        BY <1>17, <3>2 DEF Control, Recovery, InRob, Distance
      <4>3. Resumable(i, rob', g)
        BY <1>17, <3>1, <3>2 DEF Control, Resumable, TargetOf, Distance
      <4> QED
        BY <4>1, <4>2, <4>3
    <3>5. Owned(i, rob', g)
      BY <1>17, <3>1, <3>2 DEF Control, Owned, Expected, Lingers, InRob, Distance
    <3> QED
      BY <3>3, <3>4, <3>5 DEF Control
  <2>2. CASE n # 0
    <3>1. n \in Nat \ {0} /\ rob.state = "Idle"
      BY <1>1, <1>2, <2>2
    <3>2. ASSUME NEW x \in Ids, g[x] # Nowhere, g[x] # home[x]
          PROVE  x \in (o + 1) .. (o + n) /\ f[x - o].fu # "NOP"
      <4>1. x \in (o + 1) .. (o + n)
        BY <1>15, <3>2
      <4>2. j[x].fu # "NOP"
        BY <1>15, <3>2, <4>1
      <4> DEFINE k == x - o
      <4>3. k \in 1 .. n /\ x = o + k
        BY <1>2, <4>1
      <4> HIDE DEF k
      <4>4. j[x] = f[k]
        BY <1>3, <4>3
      <4> QED
        BY <4>1, <4>2, <4>4 DEF k
    <3> QED
      <4>1. Enters(g, home, f, n, o)
        BY <3>2 DEF Enters
      <4>2. NextTags(rob, f, n) /\ Follow(i, j, f, n, o)
        BY <1>1, <1>3 DEF NextTags, Follow
      <4>3. o \in Nat /\ Len(rob.queue) + n <= cfg.robSize
        BY <1>1, <1>2
      <4> QED
        BY <1>4, <1>17, <3>1, <4>1, <4>2, <4>3, EnteredControl
  <2> QED
    BY <2>1, <2>2
<1> QED
  BY <1>5, <1>15, <1>16, <1>18

-----------------------------------------------------------------------------
(* Commit.                                                                 *)

\* c is r without its first k instructions.
Popped(r, c, k) ==
  /\ c.queue = SubSeq(r.queue, k + 1, Len(r.queue))
  /\ c.header = (r.header + k) % cfg.robSize

PopLeaves(insn, r, c, k) ==
  /\ c.header \in 0 .. (cfg.robSize - 1)
  /\ c.queue \in Seq(DOMAIN insn) /\ Len(c.queue) = Len(r.queue) - k
  /\ \A j \in 1 .. (Len(r.queue) - k) :
       /\ c.queue[j] = r.queue[k + j]
       /\ insn[c.queue[j]].tag = (c.header + j - 1) % cfg.robSize
       /\ ~insn[c.queue[j]].killed
  /\ \A tag \in 0 .. (cfg.robSize - 1) :
       Distance(c, tag) = IF Distance(r, tag) >= k THEN Distance(r, tag) - k
                          ELSE Distance(r, tag) - k + cfg.robSize

LEMMA RingPops ==
  ASSUME Wiring(cfg), NEW insn, NEW r, Ring(insn, r), NEW k \in 0 .. Len(r.queue), NEW c,
         Popped(r, c, k)
  PROVE  PopLeaves(insn, r, c, k)
<1> DEFINE n == cfg.robSize
           h == r.header
           g == (h + k) % n
           L == Len(r.queue)
<1>1. /\ h \in 0 .. (n - 1) /\ L <= n /\ r.queue \in Seq(DOMAIN insn)
      /\ \A j \in 1 .. L : /\ insn[r.queue[j]].tag = (h + j - 1) % n
                           /\ ~insn[r.queue[j]].killed
  BY DEF Ring
<1>2. n \in Nat \ {0} /\ n \in Nat /\ L \in Nat
  BY <1>1, WiringFacts
<1>3. h + k \in Nat /\ h + k < 2 * n
  BY <1>1, <1>2
<1>4. g = IF h + k < n THEN h + k ELSE h + k - n
  <2> DEFINE x == h + k
  <2>1. x \in Nat /\ x < 2 * n
    BY <1>3
  <2> HIDE DEF x, n
  <2>2. x < n => x % n = x
    BY <1>2, <2>1, ModSmall
  <2>3. n <= x => x % n = x - n
    BY <1>2, <2>1, ModOnce
  <2>4. x % n = IF x < n THEN x ELSE x - n
    BY <1>2, <2>1, <2>2, <2>3
  <2>5. h \in Int /\ k \in Int /\ n \in Int
    BY <1>1, <1>2 DEF n
  <2> QED
    BY <1>2, <2>4, <2>5 DEF x
<1>5. g \in 0 .. (n - 1)
  BY <1>1, <1>2, <1>3, <1>4, SMTT(40)
<1>6. c.header = g
  BY DEF Popped
<1>7. /\ c.queue \in Seq(DOMAIN insn) /\ Len(c.queue) = L - k
      /\ \A j \in 1 .. (L - k) : c.queue[j] = r.queue[k + j]
  <2>1. \A S : \A q \in Seq(S) : \A x \in 0 .. Len(q) :
          /\ SubSeq(q, x + 1, Len(q)) \in Seq(S) /\ Len(SubSeq(q, x + 1, Len(q))) = Len(q) - x
          /\ \A j \in 1 .. (Len(q) - x) : SubSeq(q, x + 1, Len(q))[j] = q[x + j]
    OBVIOUS
  <2> QED
    BY <1>1, <2>1 DEF Popped
<1>8. ASSUME NEW j \in 1 .. (L - k)
      PROVE  /\ insn[c.queue[j]].tag = (g + j - 1) % n
             /\ ~insn[c.queue[j]].killed
  <2> DEFINE x == h + k + j - 1
             y == g + j - 1
  <2>1. k + j \in 1 .. L
    BY <1>2
  <2>2. insn[c.queue[j]].tag = (h + (k + j) - 1) % n /\ ~insn[c.queue[j]].killed
    BY <1>1, <1>7, <2>1
  <2>3. h + (k + j) - 1 = x /\ x \in Nat /\ x < 2 * n /\ (y = x \/ (y = x - n /\ n <= x)) /\ y \in Nat
    <3> HIDE DEF g, n, h, L
    <3>1. h + (k + j) - 1 = x /\ x \in Nat /\ x < 2 * n
      BY <1>1, <1>2
    <3>2. g \in Nat /\ h \in Nat
      BY <1>1, <1>2, <1>5
    <3>4. g = h + k \/ (g = h + k - n /\ n <= h + k)
      BY <1>2, <1>3, <1>4, <3>2
    <3>3. y = x \/ (y = x - n /\ n <= x)
      BY <1>2, <3>2, <3>4
    <3>5. y \in Nat
      BY <1>2, <3>2
    <3> QED
      BY <3>1, <3>3, <3>5
  <2>4. insn[c.queue[j]].tag = x % n
    BY <2>2, <2>3
  <2> HIDE DEF x, y, n
  <2>5. CASE y = x
    BY <2>2, <2>4, <2>5 DEF y
  <2>6. CASE y = x - n /\ n <= x
    <3>1. x % n = x - n
      BY <1>2, <2>3, <2>6, ModOnce
    <3>2. y < n
      BY <1>2, <2>3, <2>6
    <3>3. y % n = y
      BY <1>2, <2>3, <3>2, ModSmall
    <3> QED
      BY <2>2, <2>4, <2>6, <3>1, <3>3 DEF y
  <2> QED
    BY <2>3, <2>5, <2>6
<1>9. ASSUME NEW tag \in 0 .. (n - 1)
      PROVE  Distance(c, tag) = IF Distance(r, tag) >= k THEN Distance(r, tag) - k
                                ELSE Distance(r, tag) - k + n
  <2>1. /\ Distance(r, tag) = IF tag >= h THEN tag - h ELSE tag - h + n
        /\ Distance(r, tag) \in 0 .. (n - 1)
    BY <1>1, DistanceIs
  <2>2. c.header \in 0 .. (cfg.robSize - 1)
    BY <1>5, <1>6
  <2>3. /\ Distance(c, tag) = IF tag >= g THEN tag - g ELSE tag - g + n
        /\ Distance(c, tag) \in 0 .. (n - 1)
    BY <1>6, <2>2, DistanceIs
  <2> HIDE DEF g, h, n
  <2> QED
    BY <1>1, <1>2, <1>4, <1>5, <2>1, <2>3
<1> HIDE DEF g, n, L, h
<1>10. \A j \in 1 .. (L - k) :
              /\ c.queue[j] = r.queue[k + j]
              /\ insn[c.queue[j]].tag = (c.header + j - 1) % n
              /\ ~insn[c.queue[j]].killed
  BY <1>6, <1>7, <1>8
<1> QED
  BY <1>5, <1>6, <1>7, <1>9, <1>10 DEF n, L, PopLeaves

\* The commit requests of the package for the next tick.
Committable(insn, c) ==
  /\ c.toCommit \in 0 .. Len(c.queue)
  /\ \A j \in 1 .. c.toCommit : insn[c.queue[j]].tag \in c.done
  /\ c.state = "Undo" => \A j \in 1 .. c.toCommit : IsOlder(c, insn[c.queue[j]].tag, c.rollBackTag)

\* What was asked to retire does.
LEMMA PopControl ==
  ASSUME Wiring(cfg), NEW insn, \A id \in DOMAIN insn : insn[id].tag \in 0 .. (cfg.robSize - 1),
         NEW r, NEW home, Control(insn, r, home), NEW c, Popped(r, c, r.toCommit),
         c.done = r.done, c.state = r.state, c.rollBackTag = r.rollBackTag, Committable(insn, c),
         r.state = "WaitForResume" => Distance(r, r.rollBackTag) >= r.toCommit
  PROVE  Control(insn, c, home)
<1> DEFINE k == r.toCommit
           n == cfg.robSize
           L == Len(r.queue)
           t == r.rollBackTag
           d == Distance(r, t)
           e == Distance(c, t)
<1>1. Ring(insn, r) /\ Recovery(insn, r) /\ Owned(insn, r, home) /\ Resumable(insn, r, home)
  BY DEF Control
<1>2. /\ n \in Nat \ {0} /\ n \in Nat /\ L \in Nat /\ k \in 0 .. L
      /\ \A j \in 1 .. k : insn[r.queue[j]].tag \in r.done
      /\ r.queue \in Seq(DOMAIN insn)
  BY <1>1, WiringFacts DEF Ring
<1>3. k \in 0 .. Len(r.queue)
  BY <1>2
<1> HIDE DEF k
<1>4. /\ c.header \in 0 .. (cfg.robSize - 1)
      /\ c.queue \in Seq(DOMAIN insn) /\ Len(c.queue) = Len(r.queue) - k
      /\ \A j \in 1 .. (Len(r.queue) - k) :
           /\ c.queue[j] = r.queue[k + j]
           /\ insn[c.queue[j]].tag = (c.header + j - 1) % cfg.robSize
           /\ ~insn[c.queue[j]].killed
      /\ \A tag \in 0 .. (cfg.robSize - 1) :
           Distance(c, tag) = IF Distance(r, tag) >= k THEN Distance(r, tag) - k
                              ELSE Distance(r, tag) - k + cfg.robSize
  <2>1. Popped(r, c, k)
    BY DEF k
  <2>2. PopLeaves(insn, r, c, k)
    BY <1>1, <1>3, <2>1, RingPops
  <2> QED
    BY <2>2 DEF PopLeaves
<1>5. Len(r.queue) <= cfg.robSize /\ r.header \in 0 .. (cfg.robSize - 1)
  BY <1>1 DEF Ring
<1>6. /\ Len(c.queue) = L - k /\ L <= n
      /\ \A j \in 1 .. (L - k) : c.queue[j] = r.queue[k + j]
      /\ \A tag \in 0 .. (n - 1) :
           Distance(c, tag) = IF Distance(r, tag) >= k THEN Distance(r, tag) - k
                              ELSE Distance(r, tag) - k + n
  BY <1>4, <1>5
<1>7. \A tag \in 0 .. (n - 1) : Distance(r, tag) \in 0 .. (n - 1)
  BY <1>5, DistanceIs
<1>8. c.toCommit \in 0 .. Len(c.queue) /\ \A j \in 1 .. c.toCommit : insn[c.queue[j]].tag \in c.done
  BY DEF Committable
<1>9. Ring(insn, c)
  <2>1. Len(c.queue) <= cfg.robSize
    BY <1>2, <1>6
  <2>2. \A j \in 1 .. Len(c.queue) :
           /\ insn[c.queue[j]].tag = (c.header + j - 1) % cfg.robSize
           /\ ~insn[c.queue[j]].killed
    BY <1>4
  <2> QED
    BY <1>4, <1>8, <2>1, <2>2 DEF Ring
<1>10. ASSUME r.state # "Idle"
       PROVE  /\ t \in 0 .. (n - 1) /\ d \in 0 .. (n - 1) /\ d < L /\ k <= d /\ e = d - k
              /\ r.state = "WaitForResume" => d = L - 1
  <2>1. /\ t \in 0 .. (n - 1) /\ InRob(r, t) /\ r.state \in {"Undo", "WaitForResume"}
        /\ r.state = "Undo" => k <= d
        /\ r.state = "WaitForResume" => d = L - 1
    BY <1>1, <1>10 DEF Recovery, k
  <2>2. d \in 0 .. (n - 1)
    BY <1>7, <2>1
  <2>3. d < L
    BY <2>1 DEF InRob
  <2>4. k <= d
    <3>1. r.state = "WaitForResume" => d >= k
      BY DEF k
    <3> HIDE DEF d
    <3>2. d \in Int /\ k \in Int
      BY <1>2, <2>2
    <3> QED
      BY <2>1, <3>1, <3>2
  <2>5. e = IF d >= k THEN d - k ELSE d - k + n
    BY <1>6, <2>1
  <2> HIDE DEF d, e
  <2>6. e = d - k
    BY <1>2, <2>2, <2>4, <2>5
  <2> QED
    BY <2>1, <2>2, <2>3, <2>4, <2>6
<1> HIDE DEF d, e, t, n, L
<1>11. e = Distance(c, c.rollBackTag) /\ d = Distance(r, r.rollBackTag) /\ t = r.rollBackTag
       /\ n = cfg.robSize /\ L = Len(r.queue)
  BY DEF d, e, t, n, L
<1>12. Recovery(insn, c)
  <2>1. ASSUME c.state # "Idle"
        PROVE  c.rollBackTag \in 0 .. (cfg.robSize - 1) /\ InRob(c, c.rollBackTag)
    <3>1. e < Len(c.queue)
      BY <1>2, <1>6, <1>10, <2>1
    <3> QED
      BY <1>10, <1>11, <2>1, <3>1 DEF InRob
  <2>2. ASSUME c.state = "Undo"
        PROVE  c.toCommit <= Distance(c, c.rollBackTag)
    <3>1. c.toCommit \in Nat /\ c.toCommit <= Len(c.queue)
      BY <1>2, <1>6, <1>8
    <3>2. CASE c.toCommit = 0
      BY <1>2, <1>10, <1>11, <2>2, <3>2
    <3>3. CASE c.toCommit # 0
      <4> DEFINE j == c.toCommit
                 i == j - 1
      <4>1. j \in 1 .. c.toCommit /\ j \in 1 .. Len(c.queue) /\ j \in 1 .. (Len(r.queue) - k)
        BY <1>4, <3>1, <3>3
      <4>2. IsOlder(c, insn[c.queue[j]].tag, c.rollBackTag)
        BY <2>2, <4>1 DEF Committable
      <4>3. insn[c.queue[j]].tag = (c.header + j - 1) % cfg.robSize
        BY <1>4, <4>1
      <4>4. i \in 0 .. (cfg.robSize - 1) /\ c.header + j - 1 = c.header + i
        <5>1. c.header \in Int /\ j \in Nat /\ 1 <= j /\ j <= L /\ L <= n /\ cfg.robSize = n
          BY <1>2, <1>4, <1>6, <1>11, <3>1, <3>3
        <5> HIDE DEF j
        <5> QED
          BY <1>2, <5>1
      <4> HIDE DEF i, j
      <4>5. Distance(c, (c.header + i) % cfg.robSize) = i
        BY <1>4, <4>4, TagAt
      <4>6. i < e
        BY <1>11, <4>2, <4>3, <4>4, <4>5 DEF IsOlder
      <4>7. j <= e
        BY <1>2, <1>10, <2>2, <3>1, <4>6 DEF i, j
      <4> QED
        BY <1>11, <4>7 DEF j
    <3> QED
      BY <3>2, <3>3
  <2>3. ASSUME c.state = "WaitForResume"
        PROVE  Distance(c, c.rollBackTag) = Len(c.queue) - 1
    BY <1>2, <1>6, <1>10, <1>11, <2>3
  <2>4. c.state \in {"Idle", "Undo", "WaitForResume"}
    BY <1>1 DEF Recovery
  <2> QED
    BY <2>1, <2>2, <2>3, <2>4 DEF Recovery
<1>13. Owned(insn, c, home)
  <2> SUFFICES ASSUME NEW id \in Ids, home[id] # Nowhere
      PROVE  /\ id \in DOMAIN insn
             /\ \/ Expected(insn, c, id)
                \/ Lingers(insn, c, id) /\ home[id] # AtLdq
                \/ insn[id].killed /\ home[id][1] = "dCache"
    BY DEF Owned
  <2>1. /\ id \in DOMAIN insn
        /\ \/ Expected(insn, r, id)
           \/ Lingers(insn, r, id) /\ home[id] # AtLdq
           \/ insn[id].killed /\ home[id][1] = "dCache"
    BY <1>1 DEF Owned
  <2>2. ASSUME Expected(insn, r, id)
        PROVE  Expected(insn, c, id)
    <3>1. PICK j \in DOMAIN r.queue : id = r.queue[j]
      BY <2>2 DEF Expected, ToSet
    <3>2. j \in 1 .. L /\ DOMAIN c.queue = 1 .. (L - k)
      <4>1. DOMAIN r.queue = 1 .. Len(r.queue) /\ DOMAIN c.queue = 1 .. Len(c.queue)
        BY <1>2, <1>4
      <4> QED
        BY <1>6, <1>11, <3>1, <4>1
    <3>3. ~(j <= k)
      BY <1>2, <2>2, <3>1, <3>2 DEF Expected
    <3>4. j - k \in 1 .. (L - k) /\ k + (j - k) = j
      BY <1>2, <3>2, <3>3
    <3>5. c.queue[j - k] = id
      BY <1>6, <3>1, <3>4
    <3>6. id \in ToSet(c.queue)
      BY <3>2, <3>4, <3>5 DEF ToSet
    <3> QED
      BY <2>2, <3>6 DEF Expected
  <2>3. ASSUME Lingers(insn, r, id)
        PROVE  Lingers(insn, c, id)
    <3> DEFINE tag == insn[id].tag
    <3>1. tag \in 0 .. (n - 1)
      BY <1>11, <2>1
    <3>2. ~(Distance(r, tag) < L)
      BY <1>11, <2>3 DEF Lingers, InRob
    <3>3. ~(Distance(c, tag) < L - k)
      <4> HIDE DEF tag
      <4>1. Distance(r, tag) \in 0 .. (n - 1)
        BY <1>7, <1>11, <3>1
      <4>2. Distance(c, tag) = IF Distance(r, tag) >= k THEN Distance(r, tag) - k
                               ELSE Distance(r, tag) - k + n
        BY <1>6, <3>1
      <4> QED
        BY <1>2, <3>2, <4>1, <4>2
    <3> QED
      BY <1>6, <2>3, <3>3 DEF Lingers, InRob
  <2> QED
    BY <2>1, <2>2, <2>3
<1>14. Resumable(insn, c, home)
  <2> SUFFICES ASSUME c.state # "Idle", ~TargetOf(insn, c).bad
      PROVE  /\ Distance(c, c.rollBackTag) = Len(c.queue) - 1
             /\ \A id \in Ids : home[id] # Nowhere /\ home[id][1] # "dCache" => ~insn[id].killed
    BY DEF Resumable
  <2>1. c.queue[e + 1] = r.queue[d + 1]
    <3>1. e + 1 \in 1 .. (L - k) /\ k + (e + 1) = d + 1
      BY <1>2, <1>10
    <3> QED
      BY <1>6, <3>1
  <2>2. TargetOf(insn, c) = TargetOf(insn, r)
    BY <1>11, <2>1 DEF TargetOf
  <2>3. d = L - 1
    BY <1>1, <1>11, <2>2 DEF Resumable
  <2>4. e = Len(c.queue) - 1
    BY <1>2, <1>6, <1>10, <2>3
  <2> QED
    BY <1>1, <1>11, <2>2, <2>4 DEF Resumable
<1> QED
  BY <1>9, <1>12, <1>13, <1>14 DEF Control

\* The re-order buffer as Commit leaves it, with its requests.
Sent == [Committed EXCEPT !.toCommit = CommitReq(Committed)]

LEMMA SentFields ==
  ASSUME Wiring(cfg), Buffer
  PROVE  /\ Shape(Sent) /\ Popped(rob, Sent, rob.toCommit)
         /\ Sent.done = rob.done /\ Sent.rollBackTag = rob.rollBackTag
         /\ Sent.state = IF rob.state = "WaitForResume" /\ Distance(rob, rob.rollBackTag) < rob.toCommit
                         THEN "FlushBackend" ELSE rob.state
         /\ Committable(iew.insn, Sent)
<1> DEFINE k == rob.toCommit
           resumes == rob.state = "WaitForResume" /\ Distance(rob, rob.rollBackTag) < k
           q == SubSeq(rob.queue, k + 1, Len(rob.queue))
           h == (rob.header + k) % cfg.robSize
           st == IF resumes THEN "FlushBackend" ELSE rob.state
           r == Committed
           n == CommitReq(r)
<1>1. r = [rob EXCEPT !.queue = q, !.header = h, !.state = st]
  BY DEF Committed, Buffer
<1>2. Shape(r)
  BY CommittedShape
<1> HIDE DEF r
<1>3. /\ n \in Nat /\ n <= Len(r.queue)
      /\ \A j \in 1 .. n :
           LET tag == iew.insn[r.queue[j]].tag IN tag \in r.done /\ ReadyForCommit(r, tag)
  BY <1>2, CommitReqInt
<1> HIDE DEF n, q, h, st
<1>4. /\ r.queue = q /\ r.header = h /\ r.state = st /\ r.done = rob.done
      /\ r.rollBackTag = rob.rollBackTag
  BY <1>1 DEF Buffer
<1>5. Sent = [r EXCEPT !.toCommit = n]
  BY DEF Sent, r, n
<1>6. /\ Sent.queue = q /\ Sent.header = h /\ Sent.state = st /\ Sent.done = rob.done
      /\ Sent.rollBackTag = rob.rollBackTag /\ Sent.toCommit = n
      /\ Shape(Sent)
  BY <1>2, <1>3, <1>4, <1>5 DEF Shape
<1>7. Popped(rob, Sent, rob.toCommit)
  BY <1>6 DEF Popped, q, h
<1>8. Committable(iew.insn, Sent)
  <2>1. Sent.toCommit \in 0 .. Len(Sent.queue)
    <3>1. Len(Sent.queue) \in Nat
      BY <1>6 DEF Shape
    <3> QED
      BY <1>3, <1>4, <1>6, <3>1
  <2>2. \A j \in 1 .. Sent.toCommit : iew.insn[Sent.queue[j]].tag \in Sent.done
    BY <1>3, <1>4, <1>6
  <2>3. ASSUME Sent.state = "Undo", NEW j \in 1 .. Sent.toCommit
        PROVE  IsOlder(Sent, iew.insn[Sent.queue[j]].tag, Sent.rollBackTag)
    <3> DEFINE tag == iew.insn[r.queue[j]].tag
    <3>1. ReadyForCommit(r, tag) /\ r.state = "Undo"
      BY <1>3, <1>4, <1>6, <2>3
    <3>2. IsOlder(r, tag, r.rollBackTag)
      BY <3>1 DEF ReadyForCommit
    <3> QED
      BY <1>4, <1>6, <3>2 DEF IsOlder, Distance
  <2> QED
    BY <2>1, <2>2, <2>3 DEF Committable
<1> QED
  BY <1>6, <1>7, <1>8 DEF st

\* The instructions once those gone are marked, and where they still are.
Marked(insn, gone) ==
  [id \in DOMAIN insn |-> IF id \in gone THEN [insn[id] EXCEPT !.killed = TRUE] ELSE insn[id]]
Rehomed(home, gone) ==
  [id \in Ids |-> IF id \in gone /\ home[id] = AtLdq THEN Nowhere ELSE home[id]]

LEMMA MarkedFacts ==
  ASSUME NEW insn, Insns(insn), NEW gone
  PROVE  /\ DOMAIN Marked(insn, gone) = DOMAIN insn
         /\ \A id \in DOMAIN insn :
              /\ Marked(insn, gone)[id].tag = insn[id].tag
              /\ Marked(insn, gone)[id].bad = insn[id].bad
              /\ Marked(insn, gone)[id].fu = insn[id].fu
              /\ id \in gone => Marked(insn, gone)[id].killed
              /\ id \notin gone => Marked(insn, gone)[id] = insn[id]
              /\ insn[id].killed => Marked(insn, gone)[id].killed
<1>1. \A id \in DOMAIN insn : insn[id] \in DynInsn
  <2>1. insn \in Seq(DynInsn)
    BY DEF Insns
  <2> QED
    BY <2>1
<1>2. ASSUME NEW id \in DOMAIN insn
      PROVE  /\ Marked(insn, gone)[id].tag = insn[id].tag
             /\ Marked(insn, gone)[id].bad = insn[id].bad
             /\ Marked(insn, gone)[id].fu = insn[id].fu
             /\ id \in gone => Marked(insn, gone)[id].killed = TRUE
             /\ id \notin gone => Marked(insn, gone)[id] = insn[id]
  <2> DEFINE y == insn[id]
             t == TRUE
  <2>1. y \in DynInsn
    BY <1>1
  <2>2. Marked(insn, gone)[id] = IF id \in gone THEN [y EXCEPT !.killed = t] ELSE y
    BY DEF Marked
  <2> HIDE DEF y
  <2>3. \A v : LET z == [y EXCEPT !.killed = v]
               IN  z.tag = y.tag /\ z.bad = y.bad /\ z.fu = y.fu /\ z.killed = v
    BY <2>1 DEF DynInsn
  <2> HIDE DEF t
  <2>4. /\ Marked(insn, gone)[id].tag = y.tag /\ Marked(insn, gone)[id].bad = y.bad
        /\ Marked(insn, gone)[id].fu = y.fu /\ (id \in gone => Marked(insn, gone)[id].killed = t)
        /\ id \notin gone => Marked(insn, gone)[id] = y
    BY <2>2, <2>3
  <2> QED
    BY <2>4 DEF t, y
<1>3. DOMAIN Marked(insn, gone) = DOMAIN insn
  BY DEF Marked
<1>4. \A id \in DOMAIN insn : id \in gone => Marked(insn, gone)[id].killed
  BY <1>2
<1>5. \A id \in DOMAIN insn : insn[id].killed => Marked(insn, gone)[id].killed
  BY <1>2, <1>4
<1> QED
  BY <1>2, <1>3, <1>4, <1>5

\* What a removal leaves was there, once if it was there once.
LEMMA WithoutOnce ==
  ASSUME NEW S, NEW seq \in Seq(S), NEW gone,
         \A j, k \in DOMAIN seq : seq[j] = seq[k] => j = k
  PROVE  LET w == Without(seq, gone) IN \A j, k \in DOMAIN w : w[j] = w[k] => j = k
<1> DEFINE w == Without(seq, gone)
           L == Len(seq)
<1>1. PICK h : /\ w = h[L]
               /\ h[0] = <<>>
               /\ \A k \in 1 .. L : h[k] = IF seq[k] \in gone THEN h[k - 1] ELSE Append(h[k - 1], seq[k])
  BY RemovalRuns
<1>2. L \in Nat /\ DOMAIN seq = 1 .. L /\ \A k \in 1 .. L : seq[k] \in S
  OBVIOUS
<1> DEFINE T == {k \in 0 .. L : /\ h[k] \in Seq(S)
                                /\ \A i \in 1 .. Len(h[k]) : \E j \in 1 .. k : h[k][i] = seq[j]
                                /\ \A i, j \in 1 .. Len(h[k]) : h[k][i] = h[k][j] => i = j}
<1> HIDE DEF w, L
<1>3. 0 \in T
  <2>1. 0 \in 0 .. L /\ <<>> \in Seq(S) /\ 1 .. Len(<<>>) = {}
    BY <1>2
  <2> QED
    BY <1>1, <2>1
<1>4. ASSUME NEW k \in 1 .. L, k - 1 \in T
      PROVE  k \in T
  <2> DEFINE a == h[k - 1]
             x == seq[k]
  <2>1. /\ a \in Seq(S)
        /\ \A i \in 1 .. Len(a) : \E j \in 1 .. (k - 1) : a[i] = seq[j]
        /\ \A i, j \in 1 .. Len(a) : a[i] = a[j] => i = j
    BY <1>4
  <2>2. h[k] = a \/ h[k] = Append(a, x)
    BY <1>1
  <2>3. x \in S /\ k \in 0 .. L /\ \A j \in 1 .. (k - 1) : j \in 1 .. k /\ j \in DOMAIN seq /\ j # k
    BY <1>2
  <2>4. CASE h[k] = a
    <3> HIDE DEF a
    <3> QED
      BY <2>1, <2>3, <2>4
  <2>5. CASE h[k] = Append(a, x)
    <3> DEFINE b == Append(a, x)
    <3>1. \A i \in 1 .. Len(a) : a[i] # x
      BY <1>2, <2>1, <2>3
    <3> HIDE DEF a, x
    <3>2. /\ b \in Seq(S) /\ Len(a) \in Nat /\ Len(b) = Len(a) + 1 /\ b[Len(a) + 1] = x
          /\ \A i \in 1 .. Len(a) : b[i] = a[i]
      BY <2>1, <2>3
    <3> HIDE DEF b
    <3>3. \A i \in 1 .. Len(b) : \E j \in 1 .. k : b[i] = seq[j]
      <4> SUFFICES ASSUME NEW i \in 1 .. Len(b)
          PROVE  \E j \in 1 .. k : b[i] = seq[j]
        OBVIOUS
      <4>1. CASE i = Len(a) + 1
        BY <1>2, <3>2, <4>1 DEF x
      <4>2. CASE i \in 1 .. Len(a)
        BY <2>1, <2>3, <3>2, <4>2
      <4> QED
        BY <3>2, <4>1, <4>2
    <3>4. ASSUME NEW i \in 1 .. Len(b), NEW j \in 1 .. Len(b), b[i] = b[j]
          PROVE  i = j
      <4>1. i \in 1 .. Len(a) \/ i = Len(a) + 1
        BY <3>2
      <4>2. j \in 1 .. Len(a) \/ j = Len(a) + 1
        BY <3>2
      <4>3. /\ i \in 1 .. Len(a) => b[i] = a[i] /\ a[i] # x
            /\ j \in 1 .. Len(a) => b[j] = a[j] /\ a[j] # x
        BY <3>1, <3>2
      <4> QED
        BY <2>1, <3>2, <3>4, <4>1, <4>2, <4>3
    <3>5. h[k] = b
      BY <2>5 DEF b, a, x
    <3> QED
      BY <2>3, <3>2, <3>3, <3>4, <3>5
  <2> QED
    BY <2>2, <2>4, <2>5
<1>5. L \in T
  <2> HIDE DEF T
  <2> QED
    BY <1>2, <1>3, <1>4, LastRound
<1>6. w \in Seq(S) /\ \A i, j \in 1 .. Len(w) : w[i] = w[j] => i = j
  BY <1>1, <1>5
<1> QED
  BY <1>6 DEF w

\* What only changes in the load queue.
LEMMA PlacedRehomed ==
  ASSUME NEW m, NEW home, NEW h, DOMAIN h = Ids,
         Placed(m, {}, {}, {}, {}, {}, home),
         \A id \in Ids : home[id] # AtLdq => h[id] = home[id],
         NEW n, n.sched = m.sched, n.port = m.port, n.unit = m.unit, n.wb = m.wb, LdqAt(n, h)
  PROVE  Placed(n, {}, {}, {}, {}, {}, h)
<1>1. \A id, place : place # AtLdq /\ IsAt(home, id, place) => IsAt(h, id, place)
  BY DEF IsAt
<1>2. \A b, front, back, name, place :
        place # AtLdq /\ LatchHolds(b, front, back, name, home, place)
          => LatchHolds(b, front, back, name, h, place)
  BY <1>1 DEF LatchHolds
<1>3. \A c, x, e, place : place # AtLdq /\ SchedHolds(c, x, e, home, place)
                            => SchedHolds(c, x, e, h, place)
  BY <1>1 DEF SchedHolds
<1>4. \A x : /\ AtSched(x) # AtLdq /\ AtPort(x) # AtLdq /\ AtPipe(x) # AtLdq
             /\ AtCache(x) # AtLdq /\ AtWb(x) # AtLdq
  BY PlacesDiffer
<1>5. \A s \in DOMAIN cfg.sched : SchedAt(n, s, {}, h)
  BY <1>3, <1>4 DEF Placed, SchedAt
<1>6. \A p \in 1 .. cfg.ports : PortAt(n, p, {}, h)
  BY <1>2, <1>4 DEF Placed, PortAt
<1>7. \A u \in DOMAIN cfg.unit : PipeAt(n, u, {}, h)
  BY <1>2, <1>4 DEF Placed, PipeAt
<1>8. \A w \in DOMAIN cfg.wb : WbAt(n, w, {}, h)
  BY <1>2, <1>4 DEF Placed, WbAt
<1>9. \A u \in DOMAIN cfg.unit : CacheAt(n, u, {}, h)
  BY <1>2, <1>4 DEF Placed, MemoryHolds, CacheAt
<1> QED
  BY <1>5, <1>6, <1>7, <1>8, <1>9 DEF Placed, MemoryHolds

LEMMA KilledFields ==
  ASSUME NEW m, Parts(m), NEW gone
  PROVE  LET n == Killed(m, gone)
         IN  /\ n.sched = m.sched /\ n.unit = m.unit /\ n.port = m.port /\ n.wb = m.wb
             /\ n.ldq = Without(m.ldq, gone) /\ n.redirect = m.redirect
             /\ n.insn = Marked(m.insn, gone)
<1> DEFINE l == Without(m.ldq, gone)
           j == [id \in DOMAIN m.insn |->
                   IF id \in gone THEN [m.insn[id] EXCEPT !.killed = TRUE] ELSE m.insn[id]]
<1>1. Killed(m, gone) = [m EXCEPT !.ldq = l, !.insn = j]
  BY DEF Killed
<1>2. j = Marked(m.insn, gone)
  BY DEF Marked
<1> HIDE DEF l, j
<1> QED
  BY <1>1, <1>2 DEF Parts, l

LEMMA KilledPlaced ==
  ASSUME NEW m, Parts(m), NEW S, m.ldq \in Seq(S), NEW home, NEW gone,
         Placed(m, {}, {}, {}, {}, {}, home), NEW h, DOMAIN h = Ids,
         \A id \in Ids : home[id] # AtLdq \/ id \notin gone => h[id] = home[id]
  PROVE  Placed(Killed(m, gone), {}, {}, {}, {}, {}, h)
<1> DEFINE n == Killed(m, gone)
           l == Without(m.ldq, gone)
<1>1. /\ n.sched = m.sched /\ n.unit = m.unit /\ n.port = m.port /\ n.wb = m.wb
      /\ n.ldq = l
  BY KilledFields
<1>2. /\ DOMAIN h = Ids /\ \A id \in Ids : home[id] # AtLdq => h[id] = home[id]
      /\ \A id \in Ids : id \notin gone => h[id] = home[id]
  OBVIOUS
<1>3. LdqAt(m, home)
  BY DEF Placed, MemoryHolds
<1>4. LdqAt(n, h)
  <2>1. \A j, k \in DOMAIN m.ldq : m.ldq[j] = m.ldq[k] => j = k
    BY <1>3 DEF LdqAt
  <2>2. \A j, k \in DOMAIN l : l[j] = l[k] => j = k
    BY <2>1, WithoutOnce
  <2>3. ToSet(l) \subseteq ToSet(m.ldq) /\ \A k \in DOMAIN l : l[k] \notin gone
    BY WithoutLess, WithoutType
  <2>4. ASSUME NEW k \in DOMAIN l
        PROVE  IsAt(h, l[k], AtLdq)
    <3>1. PICK i \in DOMAIN m.ldq : l[k] = m.ldq[i]
      BY <2>3 DEF ToSet
    <3>2. IsAt(home, l[k], AtLdq)
      BY <1>3, <3>1 DEF LdqAt
    <3> QED
      BY <1>2, <2>3, <3>2 DEF IsAt
  <2> HIDE DEF n, l
  <2> QED
    BY <1>1, <2>2, <2>4 DEF LdqAt
<1> HIDE DEF n
<1>5. Placed(n, {}, {}, {}, {}, {}, h)
  BY <1>1, <1>2, <1>4, PlacedRehomed
<1> QED
  BY <1>5 DEF n

\* A recovery takes the youngest instructions of the buffer away.
Undone(c, d, k) ==
  /\ d.queue = SubSeq(c.queue, 1, Len(c.queue) - k) /\ d.header = c.header
  /\ d.done = c.done /\ d.toCommit = c.toCommit /\ d.rollBackTag = c.rollBackTag
  /\ d.state = IF k = Newer(c) THEN "WaitForResume" ELSE c.state

LEMMA UndoneFields ==
  ASSUME Wiring(cfg), NEW c, Shape(c), c.state = "Undo", c.header \in 0 .. (cfg.robSize - 1),
         c.rollBackTag \in 0 .. (cfg.robSize - 1), InRob(c, c.rollBackTag)
  PROVE  \E k \in 0 .. Newer(c) :
            Undone(c, Recovered(c), k) /\ Newer(c) = Len(c.queue) - 1 - Distance(c, c.rollBackTag)
<1> DEFINE k == Min({Newer(c), cfg.allocWidth})
           q == SubSeq(c.queue, 1, Len(c.queue) - k)
           st == IF k = Newer(c) THEN "WaitForResume" ELSE c.state
           d == Distance(c, c.rollBackTag)
<1>1. d \in 0 .. (cfg.robSize - 1) /\ d < Len(c.queue) /\ Len(c.queue) \in Nat
      /\ cfg.robSize \in Nat
  BY DistanceIs, WiringFacts DEF InRob, Shape
<1>2. Newer(c) = (Len(c.queue) - 1) - d
  BY DEF Newer
<1> HIDE DEF d
<1>3. Newer(c) \in Nat /\ Newer(c) = Len(c.queue) - 1 - d
  BY <1>1, <1>2
<1>4. k \in 0 .. Newer(c)
  <2>1. cfg.allocWidth \in Nat /\ cfg.allocWidth \in Int /\ Newer(c) \in Int
    BY <1>3, WiringFacts
  <2>2. k \in {Newer(c), cfg.allocWidth} /\ k <= Newer(c)
    BY <2>1, MinOfTwo
  <2> QED
    BY <1>3, <2>1, <2>2
<1>5. Recovered(c) = [c EXCEPT !.queue = q, !.state = st]
  BY DEF Recovered, Shape
<1> HIDE DEF q, st, k
<1>6. Recovered(c).queue = q /\ Recovered(c).state = st /\ Recovered(c).header = c.header
      /\ Recovered(c).done = c.done /\ Recovered(c).toCommit = c.toCommit
      /\ Recovered(c).rollBackTag = c.rollBackTag
  BY <1>5 DEF Shape
<1>7. Undone(c, Recovered(c), k)
  BY <1>6 DEF Undone, q, st
<1> QED
  BY <1>3, <1>4, <1>7 DEF d

LEMMA UndoControl ==
  ASSUME Wiring(cfg), NEW insn, Insns(insn), NEW c, NEW home, Control(insn, c, home),
         c.state = "Undo", NEW k \in Nat, k <= Newer(c), NEW d, Undone(c, d, k), NEW gone,
         gone = ToSet(c.queue) \ ToSet(d.queue)
  PROVE  Control(Marked(insn, gone), d, Rehomed(home, gone))
<1> DEFINE L == Len(c.queue)
           t == c.rollBackTag
           e == Distance(c, t)
           j == Marked(insn, gone)
           h == Rehomed(home, gone)
<1>1. Ring(insn, c) /\ Recovery(insn, c) /\ Owned(insn, c, home) /\ Resumable(insn, c, home)
  BY DEF Control
<1>2. /\ c.queue \in Seq(DOMAIN insn) /\ L \in Nat /\ L <= cfg.robSize /\ cfg.robSize \in Nat
      /\ c.header \in 0 .. (cfg.robSize - 1) /\ c.toCommit \in 0 .. L
  BY <1>1, WiringFacts DEF Ring
<1>3. t \in 0 .. (cfg.robSize - 1) /\ InRob(c, t) /\ c.toCommit <= e
  BY <1>1 DEF Recovery
<1>4. e \in Nat /\ e < L /\ \A tag : Distance(d, tag) = Distance(c, tag)
  <2>1. e \in 0 .. (cfg.robSize - 1)
    BY <1>2, <1>3, DistanceIs
  <2> QED
    BY <1>2, <1>3, <2>1 DEF InRob, Undone, Distance
<1>5. Newer(c) = (L - 1) - e
  BY DEF Newer
<1> HIDE DEF e, L
<1>6. k <= L - 1 - e /\ L - k \in Nat /\ L - k <= L /\ e < L - k /\ (k = L - 1 - e <=> k = Newer(c))
  BY <1>2, <1>4, <1>5
<1>7. /\ d.queue \in Seq(DOMAIN insn) /\ Len(d.queue) = L - k
      /\ \A i \in 1 .. (L - k) : d.queue[i] = c.queue[i]
  <2>1. \A S : \A q \in Seq(S) : \A n \in Nat : n <= Len(q) =>
          /\ SubSeq(q, 1, n) \in Seq(S) /\ Len(SubSeq(q, 1, n)) = n
          /\ \A i \in 1 .. n : SubSeq(q, 1, n)[i] = q[i]
    OBVIOUS
  <2>2. d.queue = SubSeq(c.queue, 1, L - k) /\ L - k <= Len(c.queue)
    BY <1>6 DEF Undone, L
  <2> DEFINE n == L - k
  <2>3. n \in Nat /\ n <= Len(c.queue) /\ d.queue = SubSeq(c.queue, 1, n)
    BY <1>6, <2>2
  <2> HIDE DEF n
  <2>4. d.queue \in Seq(DOMAIN insn) /\ Len(d.queue) = n
        /\ \A i \in 1 .. n : d.queue[i] = c.queue[i]
    BY <1>2, <2>1, <2>3
  <2> QED
    BY <2>4 DEF n
<1>8. /\ DOMAIN j = DOMAIN insn
      /\ \A id \in DOMAIN insn :
           /\ j[id].tag = insn[id].tag /\ j[id].bad = insn[id].bad
           /\ id \in gone => j[id].killed
           /\ id \notin gone => j[id] = insn[id]
           /\ insn[id].killed => j[id].killed
  BY MarkedFacts
<1>9. \A i \in 1 .. (L - k) : d.queue[i] \notin gone /\ d.queue[i] \in DOMAIN insn
  <2>1. DOMAIN d.queue = 1 .. (L - k)
    BY <1>7
  <2>2. \A i \in 1 .. (L - k) : d.queue[i] \in ToSet(d.queue)
    BY <2>1 DEF ToSet
  <2>3. \A i \in 1 .. (L - k) : d.queue[i] \in DOMAIN insn
    BY <1>7
  <2> QED
    BY <2>2, <2>3
<1>10. /\ d.header = c.header /\ d.done = c.done /\ d.toCommit = c.toCommit
       /\ d.rollBackTag = t /\ d.state = IF k = Newer(c) THEN "WaitForResume" ELSE "Undo"
  BY DEF Undone
<1> HIDE DEF j, h
<1>11. Ring(j, d)
  <2>1. d.queue \in Seq(DOMAIN j) /\ Len(d.queue) <= cfg.robSize
    BY <1>2, <1>6, <1>7, <1>8
  <2>2. ASSUME NEW i \in 1 .. Len(d.queue)
        PROVE  /\ j[d.queue[i]].tag = (d.header + i - 1) % cfg.robSize
               /\ ~j[d.queue[i]].killed
    <3>1. i \in 1 .. (L - k) /\ i \in 1 .. L
      BY <1>2, <1>6, <1>7
    <3>2. j[d.queue[i]] = insn[c.queue[i]]
      BY <1>7, <1>8, <1>9, <3>1
    <3>3. insn[c.queue[i]].tag = (c.header + i - 1) % cfg.robSize /\ ~insn[c.queue[i]].killed
      BY <1>1, <3>1 DEF Ring, L
    <3> QED
      BY <1>10, <3>2, <3>3
  <2>3. d.toCommit \in 0 .. Len(d.queue)
    BY <1>2, <1>3, <1>4, <1>6, <1>7, <1>10
  <2>4. ASSUME NEW i \in 1 .. d.toCommit
        PROVE  j[d.queue[i]].tag \in d.done
    <3>1. i \in 1 .. (L - k) /\ i \in 1 .. c.toCommit
      BY <1>2, <1>3, <1>4, <1>6, <1>10
    <3>2. insn[c.queue[i]].tag \in c.done
      BY <1>1, <3>1 DEF Ring
    <3> QED
      BY <1>7, <1>8, <1>9, <1>10, <3>1, <3>2
  <2> QED
    BY <1>2, <1>10, <2>1, <2>2, <2>3, <2>4 DEF Ring
<1>12. Recovery(j, d)
  <2>1. Distance(d, d.rollBackTag) = e
    BY <1>4, <1>10 DEF e
  <2>2. InRob(d, d.rollBackTag)
    BY <1>6, <1>7, <2>1 DEF InRob
  <2>3. d.state = "WaitForResume" => e = Len(d.queue) - 1
    BY <1>2, <1>4, <1>6, <1>7, <1>10
  <2>4. d.toCommit <= e /\ d.state \in {"Undo", "WaitForResume"}
    BY <1>3, <1>10
  <2> QED
    BY <1>3, <1>10, <2>1, <2>2, <2>3, <2>4 DEF Recovery
<1>13. /\ \A id \in Ids : home[id] = Nowhere => h[id] = Nowhere
       /\ \A id \in Ids : h[id] # Nowhere => h[id] = home[id]
       /\ \A id \in Ids : id \in gone => h[id] # AtLdq
  BY PlacesDiffer DEF h, Rehomed
<1>14. Owned(j, d, h)
  <2> SUFFICES ASSUME NEW id \in Ids, h[id] # Nowhere
      PROVE  /\ id \in DOMAIN j
             /\ \/ Expected(j, d, id)
                \/ Lingers(j, d, id) /\ h[id] # AtLdq
                \/ j[id].killed /\ h[id][1] = "dCache"
    BY DEF Owned
  <2>1. h[id] = home[id] /\ home[id] # Nowhere
    BY <1>13
  <2>2. /\ id \in DOMAIN insn
        /\ \/ Expected(insn, c, id)
           \/ Lingers(insn, c, id) /\ home[id] # AtLdq
           \/ insn[id].killed /\ home[id][1] = "dCache"
    BY <1>1, <2>1 DEF Owned
  <2>3. j[id].tag = insn[id].tag /\ (insn[id].killed => j[id].killed) /\ d.state # "Idle"
    BY <1>8, <1>10, <2>2
  <2>4. CASE id \in gone
    <3>1. id \in ToSet(c.queue) /\ id \notin ToSet(d.queue)
      BY <2>4
    <3>2. /\ InRob(c, insn[id].tag) /\ insn[id].tag \in 0 .. (cfg.robSize - 1)
          /\ id = c.queue[Distance(c, insn[id].tag) + 1]
      BY <1>1, <3>1, TagInRob
    <3> DEFINE x == Distance(c, insn[id].tag)
    <3>3. x \in Nat
      BY <1>2, <3>2, DistanceIs, SMTT(40)
    <3>4. ~(x < L - k)
      <4> SUFFICES ASSUME x < L - k
          PROVE  FALSE
        OBVIOUS
      <4> HIDE DEF x
      <4>1. x + 1 \in 1 .. (L - k) /\ id = c.queue[x + 1]
        BY <1>6, <3>2, <3>3 DEF x
      <4>2. x + 1 \in DOMAIN d.queue /\ d.queue[x + 1] = id
        BY <1>7, <4>1
      <4>3. id \in ToSet(d.queue)
        BY <4>2 DEF ToSet
      <4> QED
        BY <3>1, <4>3
    <3>5. ~InRob(d, j[id].tag)
      BY <1>4, <1>7, <2>3, <3>4 DEF InRob
    <3>6. j[id].killed
      BY <1>8, <2>2, <2>4
    <3>7. Lingers(j, d, id) /\ h[id] # AtLdq
      BY <1>13, <2>3, <2>4, <3>5, <3>6 DEF Lingers
    <3> QED
      BY <1>8, <2>2, <3>7
  <2>5. CASE id \notin gone
    <3>1. j[id] = insn[id]
      BY <1>8, <2>2, <2>5
    <3>2. Expected(insn, c, id) => Expected(j, d, id)
      BY <1>10, <2>5, <3>1 DEF Expected
    <3>3. Lingers(insn, c, id) => Lingers(j, d, id)
      <4>1. ~InRob(c, insn[id].tag) => ~InRob(d, insn[id].tag)
        <5>1. insn[id].tag \in 0 .. (cfg.robSize - 1)
          <6>1. insn \in Seq(DynInsn)
            BY DEF Insns
          <6>2. insn[id] \in DynInsn
            BY <2>2, <6>1
          <6> QED
            BY <6>2 DEF DynInsn
        <5> DEFINE x == Distance(c, insn[id].tag)
        <5>2. x \in Nat
          BY <1>2, <5>1, DistanceIs, SMTT(40)
        <5> HIDE DEF x
        <5>3. ~(x < L) => ~(x < L - k)
          BY <1>2, <1>6, <5>2
        <5> QED
          BY <1>4, <1>7, <5>3 DEF InRob, x, L
      <4> QED
        BY <2>3, <3>1, <4>1 DEF Lingers
    <3> QED
      BY <1>8, <2>1, <2>2, <2>3, <3>2, <3>3
  <2> QED
    BY <2>4, <2>5
<1>15. Resumable(j, d, h)
  <2> SUFFICES ASSUME ~TargetOf(j, d).bad
      PROVE  /\ Distance(d, d.rollBackTag) = Len(d.queue) - 1
             /\ \A id \in Ids : h[id] # Nowhere /\ h[id][1] # "dCache" => ~j[id].killed
    BY DEF Resumable
  <2>1. Distance(d, d.rollBackTag) = e
    BY <1>4, <1>10 DEF e
  <2>2. e + 1 \in 1 .. (L - k)
    BY <1>4, <1>6
  <2>3. TargetOf(j, d) = j[d.queue[e + 1]] /\ TargetOf(insn, c) = insn[c.queue[e + 1]]
    BY <2>1 DEF TargetOf, e
  <2>4. TargetOf(j, d) = TargetOf(insn, c)
    BY <1>7, <1>8, <1>9, <2>2, <2>3
  <2>5. /\ e = L - 1
        /\ \A id \in Ids : home[id] # Nowhere /\ home[id][1] # "dCache" => ~insn[id].killed
    BY <1>1, <2>4 DEF Resumable, e, L
  <2>6. k = 0
    BY <1>2, <1>4, <1>6, <2>5
  <2>7. d.queue = c.queue
    <3>1. Len(d.queue) = Len(c.queue) /\ \A i \in 1 .. Len(c.queue) : d.queue[i] = c.queue[i]
      BY <1>2, <1>7, <2>6 DEF L
    <3>2. \A S : \A p \in Seq(S), q \in Seq(S) : Len(p) = Len(q) /\ (\A i \in 1 .. Len(q) : p[i] = q[i]) => p = q
      OBVIOUS
    <3> QED
      BY <1>2, <1>7, <3>1, <3>2
  <2>8. gone = {}
    BY <2>7
  <2>9. ASSUME NEW id \in Ids, h[id] # Nowhere, h[id][1] # "dCache"
        PROVE  ~j[id].killed
    <3>1. home[id] # Nowhere /\ home[id][1] # "dCache"
      BY <1>13, <2>9
    <3>2. id \in DOMAIN insn
      BY <1>1, <3>1 DEF Owned
    <3> QED
      BY <1>8, <2>5, <2>8, <3>1, <3>2
  <2> QED
    BY <1>2, <1>7, <2>1, <2>5, <2>6, <2>9
<1> QED
  BY <1>11, <1>12, <1>14, <1>15 DEF Control, j, h

LEMMA FlushedFields ==
  ASSUME Wiring(cfg), NEW m, NEW done, Sound(m, done)
  PROVE  LET n == Flushed(m)
         IN  /\ FlushSet(n) /\ Parts(n) /\ n.ldq = m.ldq /\ n.insn = m.insn
             /\ SameCaches(m, n)
<1> DEFINE n == Flushed(m)
           a == [s \in DOMAIN m.sched |-> FlushSched(m.sched[s])]
           b == [u \in DOMAIN m.unit |-> FlushUnit(m.unit[u])]
           c == [p \in DOMAIN m.port |-> TB!Flush(m.port[p])]
           d == [w \in DOMAIN m.wb |-> TB!Flush(m.wb[w])]
<1>1. /\ n.sched = a /\ n.unit = b /\ n.port = c /\ n.wb = d
      /\ n.ldq = m.ldq /\ n.insn = m.insn /\ Parts(n)
  <2>1. n = Four(m, a, b, c, d)
    BY DEF Flushed, Four
  <2>2. Parts(m)
    BY SoundParts
  <2> HIDE DEF n, a, b, c, d
  <2> QED
    BY <2>1, <2>2, PartsSet
<1> HIDE DEF n
<1>2. ASSUME NEW s \in DOMAIN cfg.sched
      PROVE  n.sched[s].flush
  <2>1. m.sched[s] \in SchedState(cfg.sched[s], DOMAIN m.insn) /\ s \in DOMAIN m.sched
    BY SchedFields
  <2> DEFINE x == m.sched[s]
             t == TRUE
             y == [x EXCEPT !.enq = <<>>, !.flush = t]
  <2>2. n.sched[s] = y
    BY <1>1, <2>1 DEF FlushSched
  <2> HIDE DEF x, t
  <2>3. y.flush = t
    BY <2>1 DEF SchedState, x
  <2> HIDE DEF y
  <2>4. n.sched[s].flush = t
    BY <2>2, <2>3
  <2> QED
    BY <2>4 DEF t
<1>3. ASSUME NEW S, NEW x \in Latch(S)
      PROVE  TB!Flush(x).flush
  <2> DEFINE t == TRUE
             y == [x EXCEPT !.flush = t]
  <2>1. TB!Flush(x) = y
    BY DEF TB!Flush
  <2> HIDE DEF t
  <2>2. y.flush = t
    BY DEF Latch
  <2> HIDE DEF y
  <2>3. TB!Flush(x).flush = t
    BY <2>1, <2>2
  <2> QED
    BY <2>3 DEF t
<1>4. ASSUME NEW u \in DOMAIN cfg.unit
      PROVE  n.unit[u].pipe.flush /\ n.unit[u].dCache = m.unit[u].dCache
  <2>1. m.unit[u] \in UnitState(Complete(m.insn)) /\ u \in DOMAIN m.unit
    BY DEF Sound
  <2> DEFINE x == m.unit[u]
             f == TB!Flush(x.pipe)
             t == TRUE
  <2>2. n.unit[u] = [x EXCEPT !.pipe = f, !.flush = t]
    BY <1>1, <2>1 DEF FlushUnit
  <2>3. f.flush
    BY <1>3, <2>1 DEF UnitState
  <2> HIDE DEF x, t, f
  <2>4. [x EXCEPT !.pipe = f, !.flush = t].pipe = f
        /\ [x EXCEPT !.pipe = f, !.flush = t].dCache = x.dCache
    BY <2>1 DEF UnitState, x
  <2> QED
    BY <2>2, <2>3, <2>4 DEF x
<1>5. ASSUME NEW p \in 1 .. cfg.ports
      PROVE  n.port[p].flush
  <2>1. m.port \in [1 .. cfg.ports -> Latch(Entry(m.insn, done))]
    BY DEF Sound
  <2>2. m.port[p] \in Latch(Entry(m.insn, done)) /\ DOMAIN m.port = 1 .. cfg.ports
    BY <2>1
  <2>3. n.port[p] = TB!Flush(m.port[p])
    BY <1>1, <2>2
  <2> QED
    BY <1>3, <2>2, <2>3
<1>6. ASSUME NEW w \in DOMAIN cfg.wb
      PROVE  n.wb[w].flush
  <2>1. m.wb \in [DOMAIN cfg.wb -> Latch(Complete(m.insn))]
    BY DEF Sound
  <2> QED
    BY <1>1, <1>3, <2>1
<1>7. FlushSet(n)
  BY <1>2, <1>4, <1>5, <1>6 DEF FlushSet
<1>8. SameCaches(m, n)
  BY <1>4 DEF SameCaches
<1> QED
  BY <1>1, <1>7, <1>8 DEF n

\* Once the last instruction of a recovery retires nothing is expected.
LEMMA ResumeControl ==
  ASSUME Wiring(cfg), NEW insn, NEW r, NEW home, Control(insn, r, home), NEW c,
         Popped(r, c, r.toCommit), r.state = "WaitForResume",
         Distance(r, r.rollBackTag) < r.toCommit, NEW d, d.queue = c.queue,
         d.header = c.header, d.state = "Idle", d.toCommit \in 0 .. Len(c.queue),
         NEW h, \A id \in Ids : h[id] = IF home[id][1] = "dCache" THEN home[id] ELSE Nowhere
  PROVE  /\ Control(insn, d, h) /\ c.queue = <<>>
         /\ \A id \in Ids : home[id] # AtLdq
<1> DEFINE k == r.toCommit
           L == Len(r.queue)
           e == Distance(r, r.rollBackTag)
<1>1. Ring(insn, r) /\ Recovery(insn, r) /\ Owned(insn, r, home)
  BY DEF Control
<1>2. /\ L \in Nat /\ L <= cfg.robSize /\ k \in 0 .. Len(r.queue) /\ r.queue \in Seq(DOMAIN insn)
      /\ cfg.robSize \in Nat
  BY <1>1, WiringFacts DEF Ring
<1>3. e = L - 1 /\ e < k
  BY <1>1 DEF Recovery
<1>4. PopLeaves(insn, r, c, k)
  <2> HIDE DEF k, L, e
  <2>1. Popped(r, c, k)
    BY DEF k
  <2> QED
    BY <1>1, <1>2, <2>1, RingPops
<1>5. k = L
  <2> HIDE DEF k, L, e
  <2>1. k \in 0 .. L
    BY <1>2 DEF L
  <2> QED
    BY <1>2, <1>3, <2>1
<1>6. c.queue = <<>> /\ c.header \in 0 .. (cfg.robSize - 1)
  <2>1. c.queue \in Seq(DOMAIN insn) /\ Len(c.queue) = L - k /\ c.header \in 0 .. (cfg.robSize - 1)
    BY <1>4 DEF PopLeaves
  <2> HIDE DEF k, L
  <2>2. Len(c.queue) = 0
    BY <1>2, <1>5, <2>1
  <2> QED
    BY <2>1, <2>2
<1>7. Ring(insn, d)
  <2>1. <<>> \in Seq(DOMAIN insn) /\ Len(<<>>) = 0 /\ 1 .. 0 = {}
    OBVIOUS
  <2> QED
    BY <1>2, <1>6, <2>1 DEF Ring
<1>8. \A id : ~Expected(insn, r, id)
  <2> SUFFICES ASSUME NEW id, id \in ToSet(r.queue)
      PROVE  insn[id].tag \in r.done
    BY DEF Expected
  <2>1. PICK j \in DOMAIN r.queue : id = r.queue[j]
    BY DEF ToSet
  <2>2. j \in 1 .. r.toCommit
    BY <1>2, <1>5, <2>1
  <2> QED
    BY <1>1, <2>1, <2>2 DEF Ring
<1>9. \A id \in Ids : home[id] # AtLdq
  BY <1>1, <1>8, PlacesDiffer, PartOfPlace DEF Owned
<1>10. Owned(insn, d, h)
  BY <1>1, <1>8, PartOfPlace DEF Owned, Lingers
<1>11. Recovery(insn, d) /\ Resumable(insn, d, h)
  BY DEF Recovery, Resumable
<1> QED
  BY <1>6, <1>7, <1>9, <1>10, <1>11 DEF Control

LEMMA MarkedNone ==
  ASSUME NEW insn, Insns(insn)
  PROVE  Marked(insn, {}) = insn
<1>1. insn \in Seq(DynInsn)
  BY DEF Insns
<1>2. insn = [id \in DOMAIN insn |-> insn[id]]
  BY <1>1
<1>3. \A id : Marked(insn, {}) = [x \in DOMAIN insn |-> insn[x]]
  BY DEF Marked
<1> QED
  BY <1>2, <1>3

LEMMA RecoveredIdle ==
  ASSUME NEW r, r.state \notin {"Undo", "FlushBackend"}
  PROVE  Recovered(r) = r
BY DEF Recovered

LEMMA RecoveredResumes ==
  ASSUME NEW r, r.state = "FlushBackend", Shape(r)
  PROVE  /\ Recovered(r).queue = r.queue /\ Recovered(r).header = r.header
         /\ Recovered(r).state = "Idle" /\ Recovered(r).toCommit = r.toCommit
<1>1. Recovered(r) = [r EXCEPT !.state = "Idle"]
  BY DEF Recovered
<1> QED
  BY <1>1 DEF Shape

\* What Commit leaves: everything where it was, or only what the memory has.
HandedOver(m, h) == Placed(m, {}, {}, {}, {}, {}, h) \/ Emptied(m, h)

LEMMA CommitControl ==
  ASSUME Wiring(cfg), Buffer, NEW done, Sound(iew, done), MayGoWrong(iew.insn), NEW home,
         Placed(iew, {}, {}, {}, {}, {}, home), Control(iew.insn, rob, home), Commit
  PROVE  /\ MayGoWrong(iew'.insn)
         /\ \E h : HandedOver(iew', h) /\ Control(iew'.insn, rob', h)
<1> DEFINE c == Sent
           d == Recovered(c)
           gone == ToSet(c.queue) \ ToSet(d.queue)
           m == FlushForward(iew, c.state)
           resumes == rob.state = "WaitForResume" /\ Distance(rob, rob.rollBackTag) < rob.toCommit
<1>1. rob' = d /\ iew' = Killed(m, gone)
  BY DEF Commit, Sent
<1>2. /\ Shape(c) /\ Popped(rob, c, rob.toCommit)
      /\ c.done = rob.done /\ c.rollBackTag = rob.rollBackTag
      /\ c.state = IF resumes THEN "FlushBackend" ELSE rob.state
      /\ Committable(iew.insn, c)
  BY SentFields
<1>3. \A id \in DOMAIN iew.insn : iew.insn[id].tag \in 0 .. (cfg.robSize - 1)
  BY InsnTags
<1>4. Parts(iew) /\ Insns(iew.insn) /\ iew.ldq \in Seq(Complete(iew.insn)) /\ DOMAIN home = Ids
  BY DEF Sound, Placed
<1>5. Ring(iew.insn, rob) /\ Recovery(iew.insn, rob) /\ rob.state \in {"Idle", "Undo", "WaitForResume"}
  BY DEF Control, Recovery
<1> HIDE DEF c
<1>6. CASE resumes
  <2>1. c.state = "FlushBackend" /\ m = Flushed(iew)
    BY <1>2, <1>6 DEF FlushForward
  <2>2. d.queue = c.queue /\ d.header = c.header /\ d.state = "Idle" /\ d.toCommit = c.toCommit
    BY <1>2, <2>1, RecoveredResumes
  <2>3. gone = {}
    BY <2>2
  <2>4. /\ FlushSet(m) /\ Parts(m) /\ m.ldq = iew.ldq /\ m.insn = iew.insn /\ SameCaches(iew, m)
    BY <2>1, FlushedFields
  <2> DEFINE n == Killed(m, {})
             h == [id \in Ids |-> IF home[id][1] = "dCache" THEN home[id] ELSE Nowhere]
  <2> HIDE DEF m
  <2>5. /\ n.sched = m.sched /\ n.unit = m.unit /\ n.port = m.port /\ n.wb = m.wb
        /\ n.ldq = Without(iew.ldq, {}) /\ n.insn = iew.insn
    BY <1>4, <2>4, KilledFields, MarkedNone
  <2> HIDE DEF n
  <2>6. \A id \in Ids : h[id] = IF home[id][1] = "dCache" THEN home[id] ELSE Nowhere
    OBVIOUS
  <2>7. DOMAIN h = Ids
    OBVIOUS
  <2> HIDE DEF h, d
  <2>8. d.toCommit \in 0 .. Len(c.queue)
    BY <1>2, <2>2 DEF Committable
  <2>9. Control(iew.insn, d, h) /\ \A id \in Ids : home[id] # AtLdq
    BY <1>2, <1>6, <2>2, <2>6, <2>8, ResumeControl
  <2>10. FlushSet(n)
    BY <2>4, <2>5 DEF FlushSet
  <2>11. \A u \in DOMAIN cfg.unit : CacheAt(n, u, {}, h)
    <3>1. \A u \in DOMAIN cfg.unit : n.unit[u].dCache = iew.unit[u].dCache
      BY <2>4, <2>5 DEF SameCaches
    <3>2. \A u : \A id : IsAt(home, id, AtCache(u)) => IsAt(h, id, AtCache(u))
      BY <2>6, PartOfPlace DEF IsAt
    <3>3. \A u : \A b, front, back, name :
            LatchHolds(b, front, back, name, home, AtCache(u))
              => LatchHolds(b, front, back, name, h, AtCache(u))
      BY <3>2 DEF LatchHolds
    <3> QED
      BY <3>1, <3>3 DEF Placed, MemoryHolds, CacheAt
  <2>12. LdqAt(n, h)
    <3>1. ToSet(n.ldq) \subseteq ToSet(iew.ldq)
      BY <1>4, <2>5, WithoutLess
    <3>2. \A k \in DOMAIN iew.ldq : IsAt(home, iew.ldq[k], AtLdq)
      BY DEF Placed, MemoryHolds, LdqAt
    <3>3. DOMAIN iew.ldq = {}
      BY <2>9, <3>2 DEF IsAt
    <3>4. DOMAIN n.ldq = {}
      BY <3>1, <3>3 DEF ToSet
    <3> QED
      BY <3>4 DEF LdqAt
  <2>13. \A id \in Ids : h[id] # Nowhere => h[id] = AtLdq \/ h[id][1] = "dCache"
    BY <2>6
  <2>14. Emptied(n, h)
    BY <2>7, <2>10, <2>11, <2>12, <2>13 DEF Emptied, MemoryHolds
  <2>15. iew' = n /\ rob' = d
    BY <1>1, <2>3 DEF n
  <2>16. MayGoWrong(iew'.insn)
    BY <2>5, <2>15
  <2>17. HandedOver(iew', h) /\ Control(iew'.insn, rob', h)
    BY <2>5, <2>9, <2>14, <2>15 DEF HandedOver
  <2> QED
    BY <2>16, <2>17
<1>7. CASE ~resumes
  <2>1. c.state = rob.state /\ m = iew
    BY <1>2, <1>5, <1>7 DEF FlushForward
  <2>2. Control(iew.insn, c, home)
    <3>1. rob.state = "WaitForResume" => Distance(rob, rob.rollBackTag) >= rob.toCommit
      <4> SUFFICES ASSUME rob.state = "WaitForResume"
          PROVE  Distance(rob, rob.rollBackTag) >= rob.toCommit
        OBVIOUS
      <4>1. Distance(rob, rob.rollBackTag) \in Int /\ rob.toCommit \in Int
        <5>1. rob.header \in 0 .. (cfg.robSize - 1) /\ rob.rollBackTag \in 0 .. (cfg.robSize - 1)
              /\ rob.toCommit \in Int /\ cfg.robSize \in Nat
          BY <1>5, WiringFacts DEF Ring, Recovery, Buffer
        <5>2. Distance(rob, rob.rollBackTag) \in 0 .. (cfg.robSize - 1)
          BY <5>1, DistanceIs
        <5> QED
          BY <5>1, <5>2
      <4>2. ~(Distance(rob, rob.rollBackTag) < rob.toCommit)
        BY <1>7
      <4> QED
        BY <4>1, <4>2
    <3> QED
      BY <1>2, <1>3, <2>1, <3>1, PopControl
  <2>3. ASSUME NEW h, DOMAIN h = Ids, Control(Marked(iew.insn, gone), d, h),
               \A id \in Ids : home[id] # AtLdq \/ id \notin gone => h[id] = home[id]
        PROVE  \E x : HandedOver(iew', x) /\ Control(iew'.insn, rob', x)
    <3> HIDE DEF gone, d
    <3>1. Placed(Killed(iew, gone), {}, {}, {}, {}, {}, h)
      BY <1>4, <2>3, KilledPlaced
    <3>2. Killed(iew, gone).insn = Marked(iew.insn, gone)
      BY <1>4, KilledFields
    <3>3. iew' = Killed(iew, gone)
      BY <1>1, <2>1
    <3> QED
      BY <1>1, <2>3, <3>1, <3>2, <3>3 DEF HandedOver
  <2>4. MayGoWrong(iew'.insn)
    <3> HIDE DEF gone, d
    <3>1. iew'.insn = Marked(iew.insn, gone)
      BY <1>1, <1>4, <2>1, KilledFields
    <3> QED
      BY <1>4, <3>1, MarkedFacts DEF MayGoWrong
  <2>5. CASE rob.state = "Undo"
    <3> DEFINE h == Rehomed(home, gone)
    <3>1. c.header \in 0 .. (cfg.robSize - 1) /\ c.rollBackTag \in 0 .. (cfg.robSize - 1)
          /\ InRob(c, c.rollBackTag)
      BY <2>1, <2>2, <2>5 DEF Control, Ring, Recovery
    <3>2. PICK k \in 0 .. Newer(c) :
            Undone(c, d, k) /\ Newer(c) = Len(c.queue) - 1 - Distance(c, c.rollBackTag)
      BY <1>2, <2>1, <2>5, <3>1, UndoneFields
    <3>3. k \in Nat /\ k <= Newer(c)
      <4>1. Distance(c, c.rollBackTag) \in 0 .. (cfg.robSize - 1) /\ Len(c.queue) \in Nat
            /\ cfg.robSize \in Nat
        BY <1>2, <3>1, DistanceIs, WiringFacts DEF Shape
      <4>2. Newer(c) \in Int
        BY <3>2, <4>1
      <4> QED
        BY <3>2, <4>2
    <3> HIDE DEF d
    <3>4. \A x : x = gone => Control(Marked(iew.insn, x), d, Rehomed(home, x))
      BY <1>4, <2>1, <2>2, <2>5, <3>2, <3>3, UndoControl
    <3> HIDE DEF gone
    <3>5. Control(Marked(iew.insn, gone), d, h)
      BY <3>4
    <3>6. DOMAIN h = Ids /\ \A id \in Ids : home[id] # AtLdq \/ id \notin gone => h[id] = home[id]
      BY DEF Rehomed
    <3> HIDE DEF h
    <3> QED
      BY <2>3, <2>4, <3>5, <3>6
  <2>6. CASE rob.state # "Undo"
    <3>1. d = c
      BY <1>5, <2>1, <2>6, RecoveredIdle
    <3>2. gone = {}
      BY <3>1
    <3>3. Control(Marked(iew.insn, gone), d, home)
      BY <1>4, <2>2, <3>1, <3>2, MarkedNone
    <3> QED
      BY <1>4, <2>3, <2>4, <3>3
  <2> QED
    BY <2>5, <2>6
<1> QED
  BY <1>6, <1>7

-----------------------------------------------------------------------------
(* Advance.                                                                *)

LEMMA AdvanceFields ==
  ASSUME Wiring(cfg), NEW done, Sound(iew, done), Advance
  PROVE  /\ \A s \in DOMAIN cfg.sched : iew'.sched[s] = AdvanceSched(cfg.sched[s], iew.sched[s])
         /\ \A u \in DOMAIN cfg.unit :
              /\ iew'.unit[u].pipe = TB!Advance(iew.unit[u].pipe, cfg.unit[u].latency)
              /\ IsMemoryUnit(u) =>
                   iew'.unit[u].dCache = TB!Advance(iew.unit[u].dCache, cfg.dCacheLatency)
         /\ \A p \in 1 .. cfg.ports : iew'.port[p] = TB!Advance(iew.port[p], cfg.rfLatency)
         /\ \A w \in DOMAIN cfg.wb : iew'.wb[w] = TB!Advance(iew.wb[w], 1)
         /\ iew'.ldq = iew.ldq /\ iew'.insn = iew.insn
<1> DEFINE n == iew'
           sa == [s \in DOMAIN iew.sched |-> AdvanceSched(cfg.sched[s], iew.sched[s])]
           sb == [u \in DOMAIN iew.unit |->
                   IF IsMemoryUnit(u) THEN AdvanceLsu(cfg.unit[u], iew.unit[u])
                   ELSE AdvanceUnit(cfg.unit[u], iew.unit[u])]
           sc == [p \in DOMAIN iew.port |-> TB!Advance(iew.port[p], cfg.rfLatency)]
           sd == [w \in DOMAIN iew.wb |-> TB!Advance(iew.wb[w], 1)]
<1>1. /\ n.sched = sa /\ n.unit = sb /\ n.port = sc /\ n.wb = sd
      /\ n.ldq = iew.ldq /\ n.insn = iew.insn
  <2>1. n = Four(iew, sa, sb, sc, sd)
    BY DEF Advance, Four
  <2>2. Parts(iew)
    BY SoundParts
  <2> HIDE DEF n, sa, sb, sc, sd
  <2> QED
    BY <2>1, <2>2, PartsSet
<1> HIDE DEF n
<1>2. /\ DOMAIN iew.sched = DOMAIN cfg.sched /\ DOMAIN iew.unit = DOMAIN cfg.unit
      /\ DOMAIN iew.port = 1 .. cfg.ports /\ DOMAIN iew.wb = DOMAIN cfg.wb
  BY DEF Sound
<1>3. ASSUME NEW u \in DOMAIN cfg.unit
      PROVE  /\ n.unit[u].pipe = TB!Advance(iew.unit[u].pipe, cfg.unit[u].latency)
             /\ IsMemoryUnit(u) =>
                  n.unit[u].dCache = TB!Advance(iew.unit[u].dCache, cfg.dCacheLatency)
  <2> DEFINE S == Complete(iew.insn)
             f == iew.unit[u]
             c == cfg.unit[u]
             v == f.taken /\ ~c.pipelined /\ ~f.flush
             b == TB!Advance(f.pipe, c.latency)
             d == TB!Advance(f.dCache, cfg.dCacheLatency)
             x == AdvanceUnit(c, f)
  <2>1. f \in UnitState(S) /\ u \in DOMAIN iew.unit
    BY UnitFields DEF Sound
  <2> HIDE DEF S, f, c
  <2>2. x = [f EXCEPT !.pipe = b, !.taken = v, !.flush = FALSE]
    BY <2>1 DEF AdvanceUnit, UnitState
  <2> HIDE DEF v, b, d, x
  <2>3. x.pipe = b /\ x.dCache = f.dCache /\ x = [pipe |-> x.pipe, dCache |-> x.dCache, taken |-> x.taken, flush |-> x.flush]
    BY <2>1, <2>2 DEF UnitState
  <2>4. AdvanceLsu(c, f) = [x EXCEPT !.dCache = d]
    BY <2>3 DEF AdvanceLsu, x, d
  <2>5. AdvanceLsu(c, f).pipe = b /\ AdvanceLsu(c, f).dCache = d
    BY <2>3, <2>4
  <2>6. n.unit[u] = IF IsMemoryUnit(u) THEN AdvanceLsu(c, f) ELSE x
    BY <1>1, <2>1 DEF x, c, f
  <2> QED
    BY <2>3, <2>5, <2>6 DEF b, d, c, f
<1>4. \A s \in DOMAIN cfg.sched : n.sched[s] = AdvanceSched(cfg.sched[s], iew.sched[s])
  BY <1>1, <1>2
<1>5. \A p \in 1 .. cfg.ports : n.port[p] = TB!Advance(iew.port[p], cfg.rfLatency)
  BY <1>1, <1>2
<1>6. \A w \in DOMAIN cfg.wb : n.wb[w] = TB!Advance(iew.wb[w], 1)
  BY <1>1, <1>2
<1> QED
  BY <1>1, <1>3, <1>4, <1>5, <1>6 DEF n

LEMMA AdvancePlaced ==
  ASSUME Wiring(cfg), MaxInsns \in Nat, Orderly, NEW done, Sound(iew, done), NEW home,
         HandedOver(iew, home), Advance
  PROVE  /\ Placed(iew', {}, 1 .. cfg.ports, DOMAIN cfg.unit, DOMAIN cfg.unit, DOMAIN cfg.wb, home)
         /\ Gathered(iew') /\ iew'.insn = iew.insn
<1> DEFINE n == iew'
<1>1. /\ \A s \in DOMAIN cfg.sched : n.sched[s] = AdvanceSched(cfg.sched[s], iew.sched[s])
      /\ \A u \in DOMAIN cfg.unit :
           /\ n.unit[u].pipe = TB!Advance(iew.unit[u].pipe, cfg.unit[u].latency)
           /\ IsMemoryUnit(u) =>
                n.unit[u].dCache = TB!Advance(iew.unit[u].dCache, cfg.dCacheLatency)
      /\ \A p \in 1 .. cfg.ports : n.port[p] = TB!Advance(iew.port[p], cfg.rfLatency)
      /\ \A w \in DOMAIN cfg.wb : n.wb[w] = TB!Advance(iew.wb[w], 1)
      /\ n.ldq = iew.ldq /\ n.insn = iew.insn
  BY AdvanceFields
<1> HIDE DEF n
<1>2. DOMAIN home = Ids /\ MemoryHolds(iew, {}, home)
  BY DEF HandedOver, Placed, Emptied
<1>3. /\ iew.port \in [1 .. cfg.ports -> Latch(Entry(iew.insn, done))]
      /\ iew.wb \in [DOMAIN cfg.wb -> Latch(Complete(iew.insn))]
  BY DEF Sound
<1>4. ASSUME NEW s \in DOMAIN cfg.sched
      PROVE  SchedAt(n, s, {}, home) /\ n.sched[s].enq = <<>>
  <2> DEFINE c == cfg.sched[s]
             x == iew.sched[s]
             S == DOMAIN iew.insn
  <2>1. c.order \in {"In-Order", "In-Age-Order"} /\ c.entries \in Nat \ {0}
    BY SchedFacts DEF Orderly
  <2>2. x \in SchedState(c, S) /\ S \subseteq Ids
    BY SchedFields, InsnIds
  <2>3. n.sched[s] = AdvanceSched(c, x)
    BY <1>1
  <2>4. {i \in Indices(c) : <<s, i>> \in {}} = {}
    OBVIOUS
  <2>5. (~x.flush /\ SchedHolds(c, x, {}, home, AtSched(s))) \/ x.flush
    BY <2>4 DEF HandedOver, Placed, SchedAt, Emptied, FlushSet
  <2> HIDE DEF c, x, S
  <2>6. /\ SchedHolds(c, AdvanceSched(c, x), {}, home, AtSched(s)) /\ ~AdvanceSched(c, x).flush
        /\ AdvanceSched(c, x).enq = <<>>
    BY <2>1, <2>2, <2>5, SchedAdvances, SchedResets
  <2> QED
    BY <2>3, <2>4, <2>6 DEF SchedAt, c
<1>5. ASSUME NEW p \in 1 .. cfg.ports
      PROVE  PortAt(n, p, 1 .. cfg.ports, home)
  <2> DEFINE b == iew.port[p]
             l == cfg.rfLatency
             a == TB!Advance(b, l)
  <2>1. b \in Latch(Entry(iew.insn, done)) /\ l \in Nat
    BY <1>3, WiringFacts
  <2>2. /\ LatchHolds(a, TRUE, TRUE, InfoName, home, AtPort(p)) /\ Steady(a)
        /\ l = 0 => a.out = <<>>
    <3>1. CASE b.flush
      <4>1. a = TB!Empty
        BY <3>1 DEF TB!Advance
      <4>2. TB!Empty.out = <<>>
        BY DEF TB!Empty
      <4> QED
        BY <4>1, <4>2, LatchEmptyHolds
    <3>2. CASE ~b.flush
      <4>1. PortAt(iew, p, {}, home)
        BY <3>2 DEF HandedOver, Placed, Emptied, FlushSet
      <4> DEFINE front == p \in {} \/ l # 0
                 back == p \in {}
      <4>2. /\ ~b.stall /\ l = 0 => b.out = <<>>
            /\ LatchHolds(b, front, back, InfoName, home, AtPort(p))
        BY <4>1 DEF PortAt, Steady
      <4>3. ~b.stall
        BY <4>1 DEF PortAt, Steady
      <4>4. (l # 0 \/ b.stall => front) /\ (b.stall => back) /\ (l = 0 => b.out = <<>>)
            /\ LatchHolds(b, front, back, InfoName, home, AtPort(p))
        BY <4>1, <4>3 DEF PortAt
      <4> HIDE DEF a, b, l, front, back
      <4>5. \A x : x = a => /\ LatchHolds(x, TRUE, TRUE, InfoName, home, AtPort(p)) /\ Steady(x)
                            /\ l = 0 => x.out = <<>>
        BY <2>1, <3>2, <4>4, LatchAdvances, ZenonT(40) DEF a
      <4> QED
        BY <4>5
    <3> QED
      BY <3>1, <3>2
  <2>3. n.port[p] = a
    BY <1>1
  <2> HIDE DEF a
  <2> QED
    BY <2>2, <2>3 DEF PortAt
<1>6. ASSUME NEW u \in DOMAIN cfg.unit
      PROVE  PipeAt(n, u, DOMAIN cfg.unit, home) /\ CacheAt(n, u, DOMAIN cfg.unit, home)
  <2> DEFINE f == iew.unit[u]
             b == f.pipe
             l == cfg.unit[u].latency
             a == TB!Advance(b, l)
             e == f.dCache
             k == cfg.dCacheLatency
             g == TB!Advance(e, k)
  <2>1. f \in UnitState(Complete(iew.insn))
    BY UnitFields
  <2>2. b \in Latch(Complete(iew.insn)) /\ e \in Latch(Complete(iew.insn))
        /\ l \in Nat /\ l # 0 /\ k \in Nat /\ k # 0
    <3>1. l \in Nat \ {0} /\ k \in Nat \ {0}
      BY UnitFacts, WiringFacts
    <3> QED
      BY <2>1, <3>1 DEF UnitState
  <2>3. LatchHolds(a, TRUE, TRUE, InsnName, home, AtPipe(u)) /\ Steady(a)
    <3>1. CASE b.flush
      <4>1. a = TB!Empty
        BY <3>1 DEF TB!Advance
      <4> QED
        BY <4>1, LatchEmptyHolds
    <3>2. CASE ~b.flush
      <4>1. PipeAt(iew, u, {}, home)
        BY <3>2 DEF HandedOver, Placed, Emptied, FlushSet
      <4>2. LatchHolds(b, TRUE, b.stall, InsnName, home, AtPipe(u))
        BY <4>1, LatchWeaker DEF PipeAt
      <4> HIDE DEF a, b, l
      <4> QED
        BY <2>2, <3>2, <4>2, LatchAdvances DEF a
    <3> QED
      BY <3>1, <3>2
  <2>4. n.unit[u].pipe = a
    BY <1>1
  <2>5. PipeAt(n, u, DOMAIN cfg.unit, home)
    <3> HIDE DEF a
    <3> QED
      BY <2>3, <2>4, LatchWeaker DEF PipeAt, Steady
  <2>6. CacheAt(n, u, DOMAIN cfg.unit, home)
    <3> SUFFICES ASSUME IsMemoryUnit(u)
        PROVE  Steady(n.unit[u].dCache)
               /\ LatchHolds(n.unit[u].dCache, TRUE, u \in DOMAIN cfg.unit, InsnName, home, AtCache(u))
      BY DEF CacheAt
    <3>1. Steady(e) /\ LatchHolds(e, TRUE, u \in {}, InsnName, home, AtCache(u))
      BY <1>2 DEF MemoryHolds, CacheAt
    <3>2. ~e.stall /\ ~e.flush
      BY <3>1 DEF Steady
    <3>3. n.unit[u].dCache = g
      BY <1>1
    <3> HIDE DEF e, g, k
    <3>4. LatchHolds(g, TRUE, TRUE, InsnName, home, AtCache(u)) /\ Steady(g)
      BY <2>2, <3>1, <3>2, LatchAdvances DEF g
    <3> QED
      BY <3>3, <3>4, LatchWeaker
  <2> QED
    BY <2>5, <2>6
<1>7. ASSUME NEW w \in DOMAIN cfg.wb
      PROVE  WbAt(n, w, DOMAIN cfg.wb, home)
  <2> DEFINE b == iew.wb[w]
             a == TB!Advance(b, 1)
  <2>1. b \in Latch(Complete(iew.insn)) /\ 1 \in Nat /\ 1 # 0
    BY <1>3
  <2>2. LatchHolds(a, TRUE, TRUE, InsnName, home, AtWb(w)) /\ Steady(a)
    <3>1. CASE b.flush
      <4>1. a = TB!Empty
        BY <3>1 DEF TB!Advance
      <4> QED
        BY <4>1, LatchEmptyHolds
    <3>2. CASE ~b.flush
      <4>1. WbAt(iew, w, {}, home)
        BY <3>2 DEF HandedOver, Placed, Emptied, FlushSet
      <4>2. ~b.stall /\ LatchHolds(b, TRUE, w \in {}, InsnName, home, AtWb(w))
        BY <4>1 DEF WbAt, Steady
      <4> HIDE DEF a, b
      <4> QED
        BY <2>1, <3>2, <4>2, LatchAdvances DEF a
    <3> QED
      BY <3>1, <3>2
  <2>3. n.wb[w] = a
    BY <1>1
  <2> HIDE DEF a
  <2> QED
    BY <2>2, <2>3, LatchWeaker DEF WbAt
<1>8. LdqAt(n, home)
  BY <1>1, <1>2 DEF MemoryHolds, LdqAt
<1>9. Placed(n, {}, 1 .. cfg.ports, DOMAIN cfg.unit, DOMAIN cfg.unit, DOMAIN cfg.wb, home)
  BY <1>2, <1>4, <1>5, <1>6, <1>7, <1>8 DEF Placed, MemoryHolds
<1>10. Gathered(n)
  BY <1>4 DEF Gathered
<1> QED
  BY <1>1, <1>9, <1>10 DEF n

-----------------------------------------------------------------------------
(* Nothing but Issue, ReadOperand, Dispatch and Advance is about the queues. *)

LEMMA EvaluateUnitSched ==
  ASSUME Wiring(cfg), NEW m, NEW done, Sound(m, done), NEW u \in DOMAIN cfg.unit
  PROVE  EvaluateUnit(m, u).sched = m.sched /\ Sound(EvaluateUnit(m, u), done)
<1>1. ASSUME NEW n, Parts(n), NEW id
      PROVE  ToWbPort(n, u, id).sched = n.sched
  BY <1>1 DEF ToWbPort, Parts
<1>2. Compute(m, u).sched = m.sched
  <2> DEFINE out == TB!OutPort(m.unit[u].pipe, cfg.unit[u].latency)
  <2>1. Parts(m)
    BY SoundParts
  <2>2. CASE out = <<>>
    BY <2>2 DEF Compute
  <2>3. CASE out # <<>> /\ FreeWbPorts(m, u) = {}
    <3>1. Compute(m, u) = [m EXCEPT !.unit[u].pipe = TB!Stall(@)]
      BY <2>3 DEF Compute
    <3> QED
      BY <2>1, <3>1 DEF Parts
  <2>4. CASE out # <<>> /\ FreeWbPorts(m, u) # {}
    <3> DEFINE n == ToWbPort(m, u, out[1])
    <3>1. Compute(m, u) = Taking(n, u, FALSE)
      BY <2>4 DEF Compute, Taking
    <3>2. n.sched = m.sched
      BY <1>1, <2>1
    <3>3. Parts(n)
      <4>1. m.unit[u].pipe \in Latch(Complete(m.insn))
        BY UnitFields DEF UnitState
      <4>2. out[1] \in Complete(m.insn)
        BY <2>4, <4>1, LatchOut
      <4> HIDE DEF out
      <4> QED
        BY <2>4, <4>2, ToWbPortSound, SoundParts
    <3> HIDE DEF n
    <3>4. Taking(n, u, FALSE).sched = n.sched
      BY <3>3 DEF Taking, Parts
    <3> QED
      BY <3>1, <3>2, <3>4
  <2> QED
    BY <2>2, <2>3, <2>4
<1> DEFINE a == AddrGen(m, u)
           b == SendLoadReq(a, u)
           c == ReceiveResponse(b, u)
<1>3. Sound(a, done) /\ a.sched = m.sched
  <2>1. Sound(a, done)
    BY AddrGenSound
  <2>2. a.sched = m.sched
    BY SoundParts DEF AddrGen, Parts
  <2> QED
    BY <2>1, <2>2
<1> HIDE DEF a
<1>4. Sound(b, done) /\ b.sched = a.sched
  <2>1. Sound(b, done)
    BY <1>3, SendLoadReqSound
  <2>2. Parts(a)
    BY <1>3, SoundParts
  <2>3. b = a \/ b = [a EXCEPT !.unit[u].dCache = TB!Set(@, Head(a.ldq)), !.ldq = Tail(@)]
    BY DEF SendLoadReq
  <2> QED
    BY <2>1, <2>2, <2>3 DEF Parts
<1> HIDE DEF b
<1>5. Sound(c, done) /\ c.sched = b.sched
  <2>1. Sound(c, done)
    BY <1>4, ReceiveResponseSound
  <2>2. Parts(b)
    BY <1>4, SoundParts
  <2> DEFINE out == TB!OutPort(b.unit[u].dCache, cfg.dCacheLatency)
             f == Fires(b, TRUE, "UnAllowed WriteBack Failed")
             w == ToWbPort(b, u, out[1])
  <2>3. c = b \/ c = f \/ c = w
    BY DEF ReceiveResponse
  <2>4. f.sched = b.sched
    <3>1. \A failed, name : LET g == Fires(b, failed, name) IN g.sched = b.sched
      BY <1>4, SoundFires
    <3> QED
      BY <3>1
  <2>5. w.sched = b.sched
    BY <1>1, <2>2
  <2> HIDE DEF c, f, w
  <2> QED
    BY <2>1, <2>3, <2>4, <2>5
<1> HIDE DEF c
<1>6. EvaluateUnit(m, u) = IF IsMemoryUnit(u) THEN c ELSE Compute(m, u)
  BY DEF EvaluateUnit, a, b, c
<1>7. Sound(Compute(m, u), done)
  BY ComputeSound
<1> QED
  BY <1>2, <1>3, <1>4, <1>5, <1>6, <1>7

LEMMA ExecuteSched ==
  ASSUME Wiring(cfg), NEW done, Sound(iew, done), Execute
  PROVE  iew'.sched = iew.sched
<1> DEFINE n == Len(cfg.unit)
<1>1. PICK h : /\ iew' = h[n]
               /\ h[0] = iew
               /\ \A k \in 1 .. n : h[k] = EvaluateUnit(h[k - 1], k)
  BY UnitsRun
<1> DEFINE T == {k \in 0 .. n : Sound(h[k], done) /\ h[k].sched = iew.sched}
<1>2. n \in Nat /\ DOMAIN cfg.unit = 1 .. n
  BY WiringFacts
<1>3. 0 \in T
  BY <1>1, <1>2
<1>4. ASSUME NEW k \in 1 .. n, k - 1 \in T
      PROVE  k \in T
  <2> DEFINE m == h[k - 1]
  <2>1. Sound(m, done) /\ m.sched = iew.sched /\ h[k] = EvaluateUnit(m, k) /\ k \in DOMAIN cfg.unit
        /\ k \in 0 .. n
    BY <1>1, <1>2, <1>4
  <2> HIDE DEF m
  <2>2. EvaluateUnit(m, k).sched = m.sched /\ Sound(EvaluateUnit(m, k), done)
    BY <2>1, EvaluateUnitSched
  <2> QED
    BY <2>1, <2>2
<1> HIDE DEF n
<1>5. n \in T
  <2> HIDE DEF T
  <2> QED
    BY <1>2, <1>3, <1>4, LastRound
<1> QED
  BY <1>1, <1>5

-----------------------------------------------------------------------------
(* The steps.                                                              *)

\* In the wirings of this module: one place for an instruction, expected by
\* the buffer or on its way out.
OnPath(m, r, p) ==
  /\ \E home : Housed(m, r, p, home)
  /\ p \in Selecting => Gathered(m)

Path ==
  /\ Flow
  /\ Orderly => /\ MayGoWrong(iew.insn) /\ OnPath(iew, rob, phase)
                /\ phase = "Execute" => RedirectOk(iew.redirect, rob)

\* The predicates are about the same wiring before and after a step.
LEMMA SamePlaces ==
  ASSUME cfg' = cfg, NEW home
  PROVE  \A gaps, ports, pipes, caches, wbs :
           Placed(iew, gaps, ports, pipes, caches, wbs, home)'
             <=> Placed(iew', gaps, ports, pipes, caches, wbs, home)
<1> SUFFICES ASSUME NEW gaps, NEW ports, NEW pipes, NEW caches, NEW wbs
    PROVE  Placed(iew, gaps, ports, pipes, caches, wbs, home)'
             <=> Placed(iew', gaps, ports, pipes, caches, wbs, home)
  OBVIOUS
<1>1. \A s : SchedAt(iew, s, gaps, home)' <=> SchedAt(iew', s, gaps, home)
  BY DEF SchedAt
<1>2. \A p : PortAt(iew, p, ports, home)' <=> PortAt(iew', p, ports, home)
  BY DEF PortAt
<1>3. \A u : PipeAt(iew, u, pipes, home)' <=> PipeAt(iew', u, pipes, home)
  BY DEF PipeAt
<1>4. \A u : CacheAt(iew, u, caches, home)' <=> CacheAt(iew', u, caches, home)
  BY DEF CacheAt, IsMemoryUnit, Kinds
<1>5. \A w : WbAt(iew, w, wbs, home)' <=> WbAt(iew', w, wbs, home)
  BY DEF WbAt
<1>6. LdqAt(iew, home)' <=> LdqAt(iew', home)
  BY DEF LdqAt
<1> QED
  BY <1>1, <1>2, <1>3, <1>4, <1>5, <1>6 DEF Placed, MemoryHolds

LEMMA SameControl ==
  ASSUME cfg' = cfg, NEW home
  PROVE  Control(iew.insn, rob, home)' <=> Control(iew'.insn, rob', home)
<1>1. \A t : Distance(rob, t)' = Distance(rob', t)
  BY DEF Distance
<1>2. \A t : InRob(rob, t)' <=> InRob(rob', t)
  BY <1>1 DEF InRob
<1>3. Ring(iew.insn, rob)' <=> Ring(iew'.insn, rob')
  BY DEF Ring
<1>4. Recovery(iew.insn, rob)' <=> Recovery(iew'.insn, rob')
  BY DEF Recovery, InRob, Distance
<1>5. Owned(iew.insn, rob, home)' <=> Owned(iew'.insn, rob', home)
  BY DEF Owned, Expected, Lingers, InRob, Distance
<1>6. Resumable(iew.insn, rob, home)' <=> Resumable(iew'.insn, rob', home)
  BY DEF Resumable, TargetOf, Distance
<1> QED
  BY <1>3, <1>4, <1>5, <1>6 DEF Control

LEMMA SameEmptied ==
  ASSUME cfg' = cfg, NEW home
  PROVE  Emptied(iew, home)' <=> Emptied(iew', home)
<1>1. \A u : CacheAt(iew, u, {}, home)' <=> CacheAt(iew', u, {}, home)
  BY DEF CacheAt, IsMemoryUnit, Kinds
<1>2. LdqAt(iew, home)' <=> LdqAt(iew', home)
  BY DEF LdqAt
<1>3. FlushSet(iew)' <=> FlushSet(iew')
  BY DEF FlushSet
<1> QED
  BY <1>1, <1>2, <1>3 DEF Emptied, MemoryHolds

LEMMA SamePath ==
  ASSUME cfg' = cfg, OnPath(iew', rob', phase')
  PROVE  OnPath(iew, rob, phase)'
<1>1. PICK home : Housed(iew', rob', phase', home)
  BY DEF OnPath
<1>2. /\ LivePorts(phase)' = LivePorts(phase') /\ LiveUnits(phase)' = LiveUnits(phase')
      /\ LiveWbs(phase)' = LiveWbs(phase')
  BY DEF LivePorts, LiveUnits, LiveWbs
<1>3. Control(iew.insn, rob, home)'
  BY <1>1, SameControl DEF Housed
<1>4. ASSUME Placed(iew', {}, LivePorts(phase'), LiveUnits(phase'), LiveUnits(phase'), LiveWbs(phase'), home)
      PROVE  Placed(iew, {}, LivePorts(phase), LiveUnits(phase), LiveUnits(phase), LiveWbs(phase), home)'
  BY <1>2, <1>4, SamePlaces
<1>5. Emptied(iew', home) => Emptied(iew, home)'
  BY SameEmptied
<1>6. Housed(iew, rob, phase, home)'
  BY <1>1, <1>3, <1>4, <1>5 DEF Housed
<1>7. phase' \in Selecting => Gathered(iew)'
  BY DEF OnPath, Gathered
<1> QED
  BY <1>6, <1>7 DEF OnPath, Selecting

LEMMA PhaseNames ==
  /\ Tick(1) => phase = "WriteBack" /\ phase' = "Execute"
  /\ Tick(2) => phase = "Execute" /\ phase' = "Forwarding"
  /\ Tick(3) => phase = "Forwarding" /\ phase' = "Issue"
  /\ Tick(4) => phase = "Issue" /\ phase' = "ReadOperand"
  /\ Tick(5) => phase = "ReadOperand" /\ phase' = "Dispatch"
  /\ Tick(6) => phase = "Dispatch" /\ phase' = "Commit"
  /\ Tick(7) => phase = "Commit" /\ phase' = "Advance"
  /\ Tick(8) => phase = "Advance" /\ phase' = "WriteBack"
<1>1. /\ Len(Phases) = 8 /\ Phases[1] = "WriteBack" /\ Phases[2] = "Execute"
      /\ Phases[3] = "Forwarding" /\ Phases[4] = "Issue" /\ Phases[5] = "ReadOperand"
      /\ Phases[6] = "Dispatch" /\ Phases[7] = "Commit" /\ Phases[8] = "Advance"
  BY DEF Phases, IewPhases
<1>2. /\ (1 % 8) + 1 = 2 /\ (2 % 8) + 1 = 3 /\ (3 % 8) + 1 = 4 /\ (4 % 8) + 1 = 5
      /\ (5 % 8) + 1 = 6 /\ (6 % 8) + 1 = 7 /\ (7 % 8) + 1 = 8 /\ (8 % 8) + 1 = 1
  OBVIOUS
<1> QED
  BY <1>1, <1>2 DEF Tick

LEMMA LiveSets ==
  /\ LivePorts("WriteBack") = 1 .. cfg.ports /\ LivePorts("Execute") = 1 .. cfg.ports
  /\ LivePorts("Forwarding") = 1 .. cfg.ports /\ LivePorts("Issue") = 1 .. cfg.ports
  /\ LivePorts("ReadOperand") = 1 .. cfg.ports /\ LivePorts("Dispatch") = {}
  /\ LivePorts("Commit") = {} /\ LivePorts("Advance") = {}
  /\ LiveUnits("WriteBack") = DOMAIN cfg.unit /\ LiveUnits("Execute") = DOMAIN cfg.unit
  /\ LiveUnits("Forwarding") = {} /\ LiveUnits("Issue") = {} /\ LiveUnits("ReadOperand") = {}
  /\ LiveUnits("Dispatch") = {} /\ LiveUnits("Commit") = {} /\ LiveUnits("Advance") = {}
  /\ LiveWbs("WriteBack") = DOMAIN cfg.wb /\ LiveWbs("Execute") = {}
  /\ LiveWbs("Forwarding") = {} /\ LiveWbs("Issue") = {} /\ LiveWbs("ReadOperand") = {}
  /\ LiveWbs("Dispatch") = {} /\ LiveWbs("Commit") = {} /\ LiveWbs("Advance") = {}
<1>1. ToSet(IewPhases) = {"WriteBack", "Execute", "Forwarding", "Issue", "ReadOperand"}
  BY DEF IewPhases, ToSet
<1>2. /\ LivePorts("WriteBack") = 1 .. cfg.ports /\ LivePorts("Execute") = 1 .. cfg.ports
      /\ LivePorts("Forwarding") = 1 .. cfg.ports /\ LivePorts("Issue") = 1 .. cfg.ports
      /\ LivePorts("ReadOperand") = 1 .. cfg.ports /\ LivePorts("Dispatch") = {}
      /\ LivePorts("Commit") = {} /\ LivePorts("Advance") = {}
  BY <1>1 DEF LivePorts
<1> QED
  BY <1>2 DEF LiveUnits, LiveWbs

LEMMA PathInit ==
  ASSUME Init
  PROVE  Path
<1>1. Flow
  BY FlowInit
<1>2. Wiring(cfg)
  BY WiringOfConfig DEF Init
<1>3. /\ iew.insn = <<>> /\ iew.ldq = <<>>
      /\ iew.sched = [s \in DOMAIN cfg.sched |-> Blank(cfg.sched[s])]
      /\ iew.unit = [u \in DOMAIN cfg.unit |->
                       [pipe |-> TB!Empty, taken |-> FALSE, flush |-> FALSE,
                        dCache |-> TB!Empty]]
      /\ iew.port = [p \in 1 .. cfg.ports |-> TB!Empty]
      /\ iew.wb = [w \in DOMAIN cfg.wb |-> TB!Empty]
      /\ phase = "WriteBack"
  BY DEF Init, Phases, IewPhases
<1>4. MayGoWrong(iew.insn)
  BY <1>3 DEF MayGoWrong
<1> DEFINE home == [id \in Ids |-> Nowhere]
<1>5. ASSUME Orderly, NEW s \in DOMAIN cfg.sched
      PROVE  SchedAt(iew, s, {}, home) /\ iew.sched[s].enq = <<>>
  <2> DEFINE c == cfg.sched[s]
             x == iew.sched[s]
  <2>1. c.order \in {"In-Order", "In-Age-Order"}
    BY <1>5 DEF Orderly
  <2>2. x.q = Vacant(c) /\ x.enq = <<>> /\ ~x.flush
    BY <1>3 DEF Blank
  <2> HIDE DEF c, x
  <2>3. Listening(c, x.q) = {}
    <3>1. CASE c.order = "In-Order"
      <4>1. x.q.usage = 0
        BY <2>2, <3>1 DEF Vacant
      <4> QED
        BY <3>1, <4>1 DEF Listening
    <3>2. CASE c.order = "In-Age-Order"
      <4>1. x.q.bust = <<>>
        BY <2>2, <3>2 DEF Vacant
      <4> QED
        BY <3>2, <4>1 DEF Listening, ToSet
    <3> QED
      BY <2>1, <3>1, <3>2
  <2>4. \A e : Filled(c, x, e) = {} /\ DOMAIN x.enq = {}
    BY <2>2, <2>3 DEF Filled
  <2>5. \A e, place : SchedHolds(c, x, e, home, place)
    BY <2>4 DEF SchedHolds
  <2> QED
    BY <2>2, <2>5 DEF SchedAt, c, x
<1>6. ASSUME NEW p \in 1 .. cfg.ports, NEW ports
      PROVE  PortAt(iew, p, ports, home)
  <2>1. iew.port[p] = TB!Empty
    BY <1>3
  <2>2. TB!Empty.out = <<>>
    BY DEF TB!Empty
  <2> HIDE DEF home
  <2> QED
    BY <2>1, <2>2, LatchEmptyHolds DEF PortAt
<1>7. ASSUME NEW u \in DOMAIN cfg.unit, NEW pipes
      PROVE  PipeAt(iew, u, pipes, home) /\ CacheAt(iew, u, pipes, home)
  <2>1. iew.unit[u].pipe = TB!Empty /\ iew.unit[u].dCache = TB!Empty
    BY <1>3
  <2> HIDE DEF home
  <2> QED
    BY <2>1, LatchEmptyHolds DEF PipeAt, CacheAt, Steady
<1>8. ASSUME NEW w \in DOMAIN cfg.wb, NEW wbs
      PROVE  WbAt(iew, w, wbs, home)
  <2>1. iew.wb[w] = TB!Empty
    BY <1>3
  <2> HIDE DEF home
  <2> QED
    BY <2>1, LatchEmptyHolds DEF WbAt
<1>9. LdqAt(iew, home)
  BY <1>3 DEF LdqAt
<1>10. Control(iew.insn, rob, home)
  <2>1. /\ rob.queue = <<>> /\ rob.header = 0 /\ rob.state = "Idle" /\ rob.toCommit = 0
    BY DEF Init
  <2>2. 0 \in 0 .. (cfg.robSize - 1) /\ cfg.robSize \in Nat
    BY <1>2, WiringFacts
  <2>3. Ring(iew.insn, rob)
    BY <2>1, <2>2 DEF Ring
  <2>4. Recovery(iew.insn, rob) /\ Resumable(iew.insn, rob, home)
    BY <2>1 DEF Recovery, Resumable
  <2>5. Owned(iew.insn, rob, home)
    BY DEF Owned
  <2> QED
    BY <2>3, <2>4, <2>5 DEF Control
<1>11. ASSUME Orderly
       PROVE  OnPath(iew, rob, phase)
  <2>1. DOMAIN home = Ids
    OBVIOUS
  <2> HIDE DEF home
  <2>2. \A P, U, D, W : Placed(iew, {}, P, U, D, W, home)
    BY <1>5, <1>6, <1>7, <1>8, <1>9, <1>11, <2>1 DEF Placed, MemoryHolds
  <2>3. Housed(iew, rob, phase, home)
    BY <1>10, <2>2 DEF Housed
  <2>4. Gathered(iew)
    BY <1>5, <1>11 DEF Gathered
  <2> QED
    BY <2>3, <2>4 DEF OnPath
<1> QED
  BY <1>1, <1>3, <1>4, <1>11 DEF Path

\* What a phase leaves: the invariant of the next phase, but for Flow.
Leaves(q) ==
  /\ cfg' = cfg /\ phase' = q /\ MayGoWrong(iew'.insn) /\ OnPath(iew', rob', phase')
  /\ q = "Execute" => RedirectOk(iew.redirect, rob)'

LEMMA OnPathFrom ==
  ASSUME NEW m, NEW r, NEW p, NEW home, Control(m.insn, r, home),
         Placed(m, {}, LivePorts(p), LiveUnits(p), LiveUnits(p), LiveWbs(p), home),
         p \in Selecting => Gathered(m)
  PROVE  OnPath(m, r, p)
BY DEF OnPath, Housed

LEMMA FromPath ==
  ASSUME Path, Orderly
  PROVE  /\ Wiring(cfg) /\ MaxInsns \in Nat /\ Sound(iew, regs.done) /\ Registers /\ Buffer
         /\ MayGoWrong(iew.insn) /\ Parts(iew)
         /\ phase \in Selecting => Gathered(iew)
         /\ \E home : /\ Control(iew.insn, rob, home)
                      /\ phase # "Advance" =>
                           Placed(iew, {}, LivePorts(phase), LiveUnits(phase), LiveUnits(phase),
                                  LiveWbs(phase), home)
                      /\ phase = "Advance" => HandedOver(iew, home)
<1>1. Flow /\ MayGoWrong(iew.insn) /\ OnPath(iew, rob, phase)
  BY DEF Path
<1>2. Wiring(cfg) /\ MaxInsns \in Nat /\ Sound(iew, regs.done) /\ Registers /\ Buffer
  BY <1>1, WiringOfConfig DEF Flow
<1>3. Parts(iew)
  BY <1>2, SoundParts
<1>4. PICK home : Housed(iew, rob, phase, home)
  BY <1>1 DEF OnPath
<1>5. phase = "Advance" => LivePorts(phase) = {} /\ LiveUnits(phase) = {} /\ LiveWbs(phase) = {}
  BY LiveSets
<1>6. phase = "Advance" => HandedOver(iew, home)
  BY <1>4, <1>5 DEF Housed, HandedOver
<1> QED
  BY <1>1, <1>2, <1>3, <1>4, <1>6 DEF Housed, OnPath

LEMMA RedirectKept ==
  ASSUME cfg' = cfg, iew'.insn = iew.insn, RedirectOk(iew'.redirect, rob')
  PROVE  RedirectOk(iew.redirect, rob)'
<1>1. \A t : Distance(rob, t)' = Distance(rob', t)
  BY DEF Distance
<1>2. \A a, b : IsOlder(rob, a, b)' <=> IsOlder(rob', a, b)
  BY <1>1 DEF IsOlder
<1>3. TargetOf(iew.insn, rob)' = TargetOf(iew.insn, rob')
  BY <1>1 DEF TargetOf
<1>4. Faults(TargetOf(iew.insn, rob))' <=> Faults(TargetOf(iew.insn, rob'))
  BY <1>3 DEF Faults
<1> QED
  BY <1>2, <1>4 DEF RedirectOk

LEMMA WriteBackPath ==
  ASSUME Path, Orderly, WriteBack
  PROVE  Leaves("Execute")
<1>1. /\ Wiring(cfg) /\ MaxInsns \in Nat /\ Sound(iew, regs.done) /\ Registers /\ Buffer
      /\ MayGoWrong(iew.insn) /\ Parts(iew)
      /\ phase \in Selecting => Gathered(iew)
  BY FromPath
<1>2. phase = "WriteBack" /\ phase' = "Execute" /\ cfg' = cfg
  BY PhaseNames DEF WriteBack
<1>3. PICK home : /\ Control(iew.insn, rob, home)
                  /\ Placed(iew, {}, LivePorts(phase), LiveUnits(phase), LiveUnits(phase),
                            LiveWbs(phase), home)
  BY <1>2, FromPath
<1>4. Placed(iew, {}, 1 .. cfg.ports, DOMAIN cfg.unit, DOMAIN cfg.unit, DOMAIN cfg.wb, home)
  BY <1>2, <1>3, LiveSets
<1>5. /\ iew' = [iew EXCEPT !.redirect = iew'.redirect] /\ RedirectOk(iew'.redirect, rob')
      /\ \E h : /\ Placed(iew', {}, 1 .. cfg.ports, DOMAIN cfg.unit, DOMAIN cfg.unit, {}, h)
                /\ Control(iew.insn, rob', h)
  BY <1>1, <1>3, <1>4, WriteBackControl
<1>6. iew'.insn = iew.insn /\ iew'.sched = iew.sched
  BY <1>1, <1>5 DEF Parts
<1>7. Gathered(iew')
  BY <1>1, <1>2, <1>6 DEF Gathered, Selecting
<1>8. OnPath(iew', rob', phase')
  <2>1. PICK h : /\ Placed(iew', {}, 1 .. cfg.ports, DOMAIN cfg.unit, DOMAIN cfg.unit, {}, h)
                 /\ Control(iew.insn, rob', h)
    BY <1>5
  <2>2. Placed(iew', {}, LivePorts(phase'), LiveUnits(phase'), LiveUnits(phase'),
               LiveWbs(phase'), h)
    BY <1>2, <2>1, LiveSets
  <2>3. Control(iew'.insn, rob', h)
    BY <1>6, <2>1
  <2> QED
    BY <1>7, <2>2, <2>3, OnPathFrom
<1>9. RedirectOk(iew.redirect, rob)'
  BY <1>2, <1>5, <1>6, RedirectKept
<1> QED
  BY <1>1, <1>2, <1>6, <1>8, <1>9 DEF Leaves

LEMMA ExecutePath ==
  ASSUME Path, Orderly, Execute
  PROVE  Leaves("Forwarding")
<1>1. /\ Wiring(cfg) /\ MaxInsns \in Nat /\ Sound(iew, regs.done) /\ Registers /\ Buffer
      /\ MayGoWrong(iew.insn) /\ Parts(iew)
      /\ phase \in Selecting => Gathered(iew)
  BY FromPath
<1>2. phase = "Execute" /\ phase' = "Forwarding" /\ cfg' = cfg
  BY PhaseNames DEF Execute
<1>3. PICK home : /\ Control(iew.insn, rob, home)
                  /\ Placed(iew, {}, LivePorts(phase), LiveUnits(phase), LiveUnits(phase),
                            LiveWbs(phase), home)
  BY <1>2, FromPath
<1>4. Placed(iew, {}, 1 .. cfg.ports, DOMAIN cfg.unit, DOMAIN cfg.unit, {}, home)
  BY <1>2, <1>3, LiveSets
<1>5. /\ iew'.insn = iew.insn
      /\ \E h : /\ Placed(iew', {}, 1 .. cfg.ports, {}, {}, {}, h)
                /\ Control(iew.insn, rob', h)
  BY <1>1, <1>3, <1>4, ExecuteControl
<1>6. iew'.sched = iew.sched
  BY <1>1, ExecuteSched
<1>7. Gathered(iew')
  BY <1>1, <1>2, <1>6 DEF Gathered, Selecting
<1>8. OnPath(iew', rob', phase')
  <2>1. PICK h : /\ Placed(iew', {}, 1 .. cfg.ports, {}, {}, {}, h)
                 /\ Control(iew.insn, rob', h)
    BY <1>5
  <2>2. Placed(iew', {}, LivePorts(phase'), LiveUnits(phase'), LiveUnits(phase'),
               LiveWbs(phase'), h)
    BY <1>2, <2>1, LiveSets
  <2>3. Control(iew'.insn, rob', h)
    BY <1>5, <2>1
  <2> QED
    BY <1>7, <2>2, <2>3, OnPathFrom
<1> QED
  BY <1>1, <1>2, <1>5, <1>8 DEF Leaves

\* Forwarding and the read ports change the operands only.
LEMMA SameInsnsGoWrong ==
  ASSUME NEW i, NEW j, SameInsns(i, j), MayGoWrong(i)
  PROVE  MayGoWrong(j)
BY DEF SameInsns, MayGoWrong

LEMMA ForwardingPath ==
  ASSUME Path, Orderly, Forwarding
  PROVE  Leaves("Issue")
<1>1. /\ Wiring(cfg) /\ MaxInsns \in Nat /\ Sound(iew, regs.done) /\ Registers /\ Buffer
      /\ MayGoWrong(iew.insn) /\ Parts(iew)
      /\ phase \in Selecting => Gathered(iew)
  BY FromPath
<1>2. phase = "Forwarding" /\ phase' = "Issue" /\ cfg' = cfg /\ rob' = rob
  BY PhaseNames DEF Forwarding
<1>3. PICK home : /\ Control(iew.insn, rob, home)
                  /\ Placed(iew, {}, LivePorts(phase), LiveUnits(phase), LiveUnits(phase),
                            LiveWbs(phase), home)
  BY <1>2, FromPath
<1>4. Placed(iew, {}, 1 .. cfg.ports, {}, {}, {}, home)
  BY <1>2, <1>3, LiveSets
<1>5. /\ Placed(iew', {}, 1 .. cfg.ports, {}, {}, {}, home) /\ SameInsns(iew.insn, iew'.insn)
      /\ iew'.sched = iew.sched
  BY <1>1, <1>4, ForwardingPlaced
<1>6. Control(iew'.insn, rob', home)
  BY <1>1, <1>2, <1>3, <1>5, ControlSame
<1>7. Gathered(iew')
  BY <1>1, <1>2, <1>5 DEF Gathered, Selecting
<1>8. OnPath(iew', rob', phase')
  <2>1. Placed(iew', {}, LivePorts(phase'), LiveUnits(phase'), LiveUnits(phase'),
               LiveWbs(phase'), home)
    BY <1>2, <1>5, LiveSets
  <2> QED
    BY <1>6, <1>7, <2>1, OnPathFrom
<1>9. MayGoWrong(iew'.insn)
  BY <1>1, <1>5, SameInsnsGoWrong
<1> QED
  BY <1>2, <1>8, <1>9 DEF Leaves

LEMMA IssuePath ==
  ASSUME Path, Orderly, Issue
  PROVE  Leaves("ReadOperand")
<1>1. /\ Wiring(cfg) /\ MaxInsns \in Nat /\ Sound(iew, regs.done) /\ Registers /\ Buffer
      /\ MayGoWrong(iew.insn) /\ Parts(iew)
      /\ phase \in Selecting => Gathered(iew)
  BY FromPath
<1>2. phase = "Issue" /\ phase' = "ReadOperand" /\ cfg' = cfg /\ rob' = rob
  BY PhaseNames DEF Issue
<1>3. PICK home : /\ Control(iew.insn, rob, home)
                  /\ Placed(iew, {}, LivePorts(phase), LiveUnits(phase), LiveUnits(phase),
                            LiveWbs(phase), home)
  BY <1>2, FromPath
<1>4. Placed(iew, {}, 1 .. cfg.ports, {}, {}, {}, home) /\ Gathered(iew)
  BY <1>1, <1>2, <1>3, LiveSets DEF Selecting
<1>5. PICK h : /\ Placed(iew', {}, 1 .. cfg.ports, {}, {}, {}, h)
               /\ Follows(iew.insn, rob, h, home)
  BY <1>1, <1>4, IssuePlaced
<1>6. iew'.insn = iew.insn
  BY <1>1, <1>4, IssuePlaced
<1>7. Control(iew'.insn, rob', h)
  BY <1>2, <1>3, <1>5, <1>6, ControlFollows
<1>8. OnPath(iew', rob', phase')
  <2>1. Placed(iew', {}, LivePorts(phase'), LiveUnits(phase'), LiveUnits(phase'),
               LiveWbs(phase'), h)
    BY <1>2, <1>5, LiveSets
  <2>2. phase' \notin Selecting
    BY <1>2 DEF Selecting
  <2> QED
    BY <1>7, <2>1, <2>2, OnPathFrom
<1> QED
  BY <1>1, <1>2, <1>6, <1>8 DEF Leaves

LEMMA ReadOperandPath ==
  ASSUME Path, Orderly, ReadOperand
  PROVE  Leaves("Dispatch")
<1>1. /\ Wiring(cfg) /\ MaxInsns \in Nat /\ Sound(iew, regs.done) /\ Registers /\ Buffer
      /\ MayGoWrong(iew.insn) /\ Parts(iew)
  BY FromPath
<1>2. phase = "ReadOperand" /\ phase' = "Dispatch" /\ cfg' = cfg /\ rob' = rob
  BY PhaseNames DEF ReadOperand
<1>3. PICK home : /\ Control(iew.insn, rob, home)
                  /\ Placed(iew, {}, LivePorts(phase), LiveUnits(phase), LiveUnits(phase),
                            LiveWbs(phase), home)
  BY <1>2, FromPath
<1>4. Placed(iew, {}, 1 .. cfg.ports, {}, {}, {}, home)
  BY <1>2, <1>3, LiveSets
<1>5. /\ \E h : /\ Placed(iew', {}, {}, {}, {}, {}, h)
                /\ Follows(iew.insn, rob, h, home)
      /\ SameInsns(iew.insn, iew'.insn)
  BY <1>1, <1>4, ReadOperandPlaced
<1>6. OnPath(iew', rob', phase')
  <2>1. PICK h : Placed(iew', {}, {}, {}, {}, {}, h) /\ Follows(iew.insn, rob, h, home)
    BY <1>5
  <2>2. Placed(iew', {}, LivePorts(phase'), LiveUnits(phase'), LiveUnits(phase'),
               LiveWbs(phase'), h)
    BY <1>2, <2>1, LiveSets
  <2>3. Control(iew.insn, rob', h)
    BY <1>2, <1>3, <2>1, ControlFollows
  <2>4. Control(iew'.insn, rob', h)
    BY <1>1, <1>5, <2>3, ControlSame
  <2>5. phase' \notin Selecting
    BY <1>2 DEF Selecting
  <2> QED
    BY <2>2, <2>4, <2>5, OnPathFrom
<1>7. MayGoWrong(iew'.insn)
  BY <1>1, <1>5, SameInsnsGoWrong
<1> QED
  BY <1>2, <1>6, <1>7 DEF Leaves

LEMMA DispatchPath ==
  ASSUME Path, Orderly, NEW pkg \in Packages, Dispatch(pkg)
  PROVE  Leaves("Commit")
<1>1. /\ Wiring(cfg) /\ MaxInsns \in Nat /\ Sound(iew, regs.done) /\ Registers /\ Buffer
      /\ MayGoWrong(iew.insn) /\ Parts(iew)
  BY FromPath
<1>2. phase = "Dispatch" /\ phase' = "Commit" /\ cfg' = cfg
  <2>1. Tick(6) /\ UNCHANGED <<cfg, regs>>
    BY Zenon DEF Dispatch
  <2> QED
    BY <2>1, PhaseNames
<1>3. PICK home : /\ Control(iew.insn, rob, home)
                  /\ Placed(iew, {}, LivePorts(phase), LiveUnits(phase), LiveUnits(phase),
                            LiveWbs(phase), home)
  BY <1>2, FromPath
<1>4. Placed(iew, {}, {}, {}, {}, {}, home)
  BY <1>2, <1>3, LiveSets
<1>5. /\ MayGoWrong(iew'.insn)
      /\ \E g : Placed(iew', {}, {}, {}, {}, {}, g) /\ Control(iew'.insn, rob', g)
  BY <1>1, <1>3, <1>4, DispatchControl
<1>6. OnPath(iew', rob', phase')
  <2>1. PICK h : Placed(iew', {}, {}, {}, {}, {}, h) /\ Control(iew'.insn, rob', h)
    BY <1>5
  <2>2. Placed(iew', {}, LivePorts(phase'), LiveUnits(phase'), LiveUnits(phase'),
               LiveWbs(phase'), h)
    BY <1>2, <2>1, LiveSets
  <2>3. phase' \notin Selecting
    BY <1>2 DEF Selecting
  <2> QED
    BY <2>1, <2>2, <2>3, OnPathFrom
<1> QED
  BY <1>2, <1>5, <1>6 DEF Leaves

LEMMA CommitPath ==
  ASSUME Path, Orderly, Commit
  PROVE  Leaves("Advance")
<1>1. /\ Wiring(cfg) /\ MaxInsns \in Nat /\ Sound(iew, regs.done) /\ Registers /\ Buffer
      /\ MayGoWrong(iew.insn) /\ Parts(iew)
  BY FromPath
<1>2. phase = "Commit" /\ phase' = "Advance" /\ cfg' = cfg
  BY PhaseNames DEF Commit
<1>3. PICK home : /\ Control(iew.insn, rob, home)
                  /\ Placed(iew, {}, LivePorts(phase), LiveUnits(phase), LiveUnits(phase),
                            LiveWbs(phase), home)
  BY <1>2, FromPath
<1>4. Placed(iew, {}, {}, {}, {}, {}, home)
  BY <1>2, <1>3, LiveSets
<1>5. /\ MayGoWrong(iew'.insn)
      /\ \E h : HandedOver(iew', h) /\ Control(iew'.insn, rob', h)
  BY <1>1, <1>3, <1>4, CommitControl
<1>6. OnPath(iew', rob', phase')
  <2>1. PICK h : HandedOver(iew', h) /\ Control(iew'.insn, rob', h)
    BY <1>5
  <2>2. LivePorts(phase') = {} /\ LiveUnits(phase') = {} /\ LiveWbs(phase') = {}
    BY <1>2, LiveSets
  <2>3. Housed(iew', rob', phase', h)
    BY <1>2, <2>1, <2>2 DEF Housed, HandedOver
  <2>4. phase' \notin Selecting
    BY <1>2 DEF Selecting
  <2> QED
    BY <2>3, <2>4 DEF OnPath
<1> QED
  BY <1>2, <1>5, <1>6 DEF Leaves

LEMMA AdvancePath ==
  ASSUME Path, Orderly, Advance
  PROVE  Leaves("WriteBack")
<1>1. /\ Wiring(cfg) /\ MaxInsns \in Nat /\ Sound(iew, regs.done) /\ Registers /\ Buffer
      /\ MayGoWrong(iew.insn) /\ Parts(iew)
  BY FromPath
<1>2. phase = "Advance" /\ phase' = "WriteBack" /\ cfg' = cfg /\ rob' = rob
  BY PhaseNames DEF Advance
<1>3. PICK home : Control(iew.insn, rob, home) /\ HandedOver(iew, home)
  BY <1>2, FromPath
<1>4. /\ Placed(iew', {}, 1 .. cfg.ports, DOMAIN cfg.unit, DOMAIN cfg.unit, DOMAIN cfg.wb, home)
      /\ Gathered(iew') /\ iew'.insn = iew.insn
  BY <1>1, <1>3, AdvancePlaced
<1>5. OnPath(iew', rob', phase')
  <2>1. Placed(iew', {}, LivePorts(phase'), LiveUnits(phase'), LiveUnits(phase'),
               LiveWbs(phase'), home)
    BY <1>2, <1>4, LiveSets
  <2>2. Control(iew'.insn, rob', home)
    BY <1>2, <1>3, <1>4
  <2> QED
    BY <1>4, <2>1, <2>2, OnPathFrom
<1> QED
  BY <1>1, <1>2, <1>4, <1>5 DEF Leaves

LEMMA PathStep ==
  ASSUME Path, [Next]_vars
  PROVE  Path'
<1>1. Flow'
  BY FlowStep DEF Path
<1>2. ASSUME NEW q, Leaves(q)
      PROVE  /\ MayGoWrong(iew.insn)' /\ OnPath(iew, rob, phase)'
             /\ (phase = "Execute")' => RedirectOk(iew.redirect, rob)'
  <2>1. cfg' = cfg /\ phase' = q /\ MayGoWrong(iew'.insn) /\ OnPath(iew', rob', phase')
    BY <1>2 DEF Leaves
  <2>2. OnPath(iew, rob, phase)'
    BY <2>1, SamePath
  <2>3. MayGoWrong(iew.insn)'
    BY <2>1 DEF MayGoWrong
  <2> QED
    BY <1>2, <2>1, <2>2, <2>3 DEF Leaves
<1>3. cfg' = cfg
  <2>1. \A pkg : Dispatch(pkg) => cfg' = cfg
    BY DEF Dispatch
  <2> QED
    BY <2>1 DEF Next, vars, WriteBack, Execute, Forwarding, Issue, ReadOperand, Commit, Advance
<1>4. ASSUME Orderly
      PROVE  /\ MayGoWrong(iew.insn)' /\ OnPath(iew, rob, phase)'
             /\ (phase = "Execute")' => RedirectOk(iew.redirect, rob)'
  <2>1. WriteBack => Leaves("Execute")
    BY <1>4, WriteBackPath
  <2>2. Execute => Leaves("Forwarding")
    BY <1>4, ExecutePath
  <2>3. Forwarding => Leaves("Issue")
    BY <1>4, ForwardingPath
  <2>4. Issue => Leaves("ReadOperand")
    BY <1>4, IssuePath
  <2>5. ReadOperand => Leaves("Dispatch")
    BY <1>4, ReadOperandPath
  <2>6. \A pkg \in Packages : Dispatch(pkg) => Leaves("Commit")
    BY <1>4, DispatchPath
  <2>7. Commit => Leaves("Advance")
    BY <1>4, CommitPath
  <2>8. Advance => Leaves("WriteBack")
    BY <1>4, AdvancePath
  <2>9. CASE \E q : Leaves(q)
    BY <1>2, <2>9
  <2>10. CASE UNCHANGED vars
    <3>1. iew' = iew /\ rob' = rob /\ phase' = phase /\ cfg' = cfg
      BY <2>10 DEF vars
    <3>2. /\ MayGoWrong(iew.insn) /\ OnPath(iew, rob, phase)
          /\ phase = "Execute" => RedirectOk(iew.redirect, rob)
      BY <1>4 DEF Path
    <3>3. OnPath(iew, rob, phase)'
      BY <3>1, <3>2, SamePath
    <3>4. MayGoWrong(iew.insn)'
      BY <3>1, <3>2 DEF MayGoWrong
    <3>5. (phase = "Execute")' => RedirectOk(iew.redirect, rob)'
      BY <3>1, <3>2, RedirectKept
    <3> QED
      BY <3>3, <3>4, <3>5
  <2> QED
    BY <2>1, <2>2, <2>3, <2>4, <2>5, <2>6, <2>7, <2>8, <2>9, <2>10 DEF Next
<1>5. Orderly' <=> Orderly
  BY <1>3 DEF Orderly
<1> QED
  BY <1>1, <1>4, <1>5 DEF Path

(* Whatever the latencies, the widths, the program and the squashes, in a  *)
(* wiring where a slot is claimed and filled at once, every instruction of *)
(* the issue path is at one place at most; what is there is expected by    *)
(* the re-order buffer, or killed and on its way out.                      *)
THEOREM PathAlways == Spec => []Path
<1>1. Init => Path
  BY PathInit
<1>2. Path /\ [Next]_vars => Path'
  BY PathStep
<1> QED
  BY <1>1, <1>2, PTL DEF Spec

-----------------------------------------------------------------------------
(* Between two ticks.                                                      *)

LEMMA ListenSlots ==
  ASSUME NEW c, c.order \in Orders, c.entries \in Nat \ {0}, NEW S,
         NEW q \in QueueState(c, S), NEW i \in Listening(c, q), q.slots[i] # Nil
  PROVE  q.slots[i] \in S
<1>1. CASE c.order = "In-Order"
  <2>1. q \in RingState(c, S)
    BY <1>1 DEF QueueState
  <2>2. i \in Indices(c)
    BY <1>1, <2>1 DEF RingState, Listening, Indices
  <2> QED
    BY <2>1, <2>2 DEF RingState, Slots
<1>2. CASE c.order = "In-Age-Order"
  <2>1. q \in AgeState(c, S) /\ i \in ToSet(q.bust)
    BY <1>2 DEF QueueState, Listening
  <2>2. \A T : \A f \in Seq(T) : ToSet(f) \subseteq T
    BY DEF ToSet
  <2>3. i \in Indices(c)
    BY <2>1, <2>2 DEF AgeState, AgeFields
  <2> QED
    BY <2>1, <2>3 DEF AgeState, AgeFields, Slots
<1>3. CASE c.order = "Out-of-Order"
  <2>1. q \in BagState(c, S) /\ i \in q.valid
    BY <1>3 DEF QueueState, Listening
  <2>2. i \in Indices(c)
    BY <2>1 DEF BagState
  <2> QED
    BY <2>1, <2>2 DEF BagState, Slots
<1> QED
  BY <1>1, <1>2, <1>3 DEF Orders

LEMMA HeldAtPlace ==
  ASSUME NEW S, NEW b \in Latch(S), NEW name, NEW home, NEW place,
         LatchHolds(b, TRUE, TRUE, name, home, place)
  PROVE  /\ \A h \in Held(b) : h[3] \in S /\ IsAt(home, name[h[3]], place)
         /\ \A h, g \in Held(b) : name[h[3]] = name[g[3]] => h = g
<1>1. /\ b.in = <<>> \/ \E x \in S : b.in = <<x>>
      /\ b.out = <<>> \/ \E x \in S : b.out = <<x>>
  BY DEF Latch, Port
<1>2. \A k \in DOMAIN b.in : k = 1 /\ b.in # <<>>
  BY <1>1
<1>3. \A k \in DOMAIN b.out : k = 1 /\ b.out # <<>>
  BY <1>1
<1>4. \A h \in Held(b) :
        \/ h = <<"in", 1, b.in[1]>> /\ b.in # <<>>
        \/ h = <<"out", 1, b.out[1]>> /\ b.out # <<>>
        \/ \E k \in DOMAIN b.queue : h = <<"queue", k, b.queue[k].data>>
  BY <1>2, <1>3 DEF Held
<1>5. \A h \in Held(b) : h[3] \in S
  BY HeldInLatch
<1>6. \A h \in Held(b) : IsAt(home, name[h[3]], place)
  BY <1>4 DEF LatchHolds
<1>7. ASSUME NEW h \in Held(b), NEW g \in Held(b), name[h[3]] = name[g[3]]
      PROVE  h = g
  <2>1. CASE h = <<"in", 1, b.in[1]>> /\ b.in # <<>>
    BY <1>4, <1>7, <2>1 DEF LatchHolds
  <2>2. CASE h = <<"out", 1, b.out[1]>> /\ b.out # <<>>
    BY <1>4, <1>7, <2>2 DEF LatchHolds
  <2>3. CASE \E k \in DOMAIN b.queue : h = <<"queue", k, b.queue[k].data>>
    BY <1>4, <1>7, <2>3 DEF LatchHolds
  <2> QED
    BY <1>4, <2>1, <2>2, <2>3
<1> QED
  BY <1>5, <1>6, <1>7

\* What the latches whose output is yet to be taken hold.
Whole(m, home) ==
  /\ Placed(m, {}, 1 .. cfg.ports, DOMAIN cfg.unit, DOMAIN cfg.unit, DOMAIN cfg.wb, home)
  /\ Gathered(m)

\* The part of the path an element of OnThePath names.
PlaceOf(x) ==
  CASE x[1] = "sched"  -> AtSched(x[2])
    [] x[1] = "port"   -> AtPort(x[2])
    [] x[1] = "unit"   -> AtPipe(x[2])
    [] x[1] = "dCache" -> AtCache(x[2])
    [] x[1] = "ldq"    -> AtLdq
    [] x[1] = "wb"     -> AtWb(x[2])

\* Where the path holds instructions, the memory included.
Places == OnThePath \union {x \in InMemory : IsMemoryUnit(x[2])}

LEMMA AtItsPlace ==
  ASSUME Wiring(cfg), MaxInsns \in Nat, NEW done, Sound(iew, done), NEW home, Whole(iew, home)
  PROVE  /\ \A x \in Places : x[5] \in DOMAIN iew.insn /\ IsAt(home, x[5], PlaceOf(x))
         /\ \A x, y \in Places : x[5] = y[5] => x = y
<1> DEFINE I == DOMAIN iew.insn
<1>1. I \subseteq Ids
  BY InsnIds
<1>2. DOMAIN iew.unit = DOMAIN cfg.unit /\ DOMAIN iew.port = 1 .. cfg.ports
      /\ DOMAIN iew.wb = DOMAIN cfg.wb
  BY DEF Sound
<1>3. ASSUME NEW s \in DOMAIN cfg.sched
      PROVE  /\ \A x \in InQueue(s) : /\ x = <<"sched", s, "slot", x[4], x[5]>> /\ x[5] \in I
                                      /\ IsAt(home, x[5], AtSched(s))
             /\ \A x, y \in InQueue(s) : x[5] = y[5] => x = y
  <2> DEFINE c == cfg.sched[s]
             z == iew.sched[s]
             F == Filled(c, z, {})
  <2>1. /\ \A i \in F : z.q.slots[i] # Nil => IsAt(home, z.q.slots[i], AtSched(s))
        /\ \A i, j \in F : z.q.slots[i] = z.q.slots[j] /\ z.q.slots[i] # Nil => i = j
    <3>1. SchedHolds(c, z, {i \in Indices(c) : <<s, i>> \in {}}, home, AtSched(s))
      BY DEF Whole, Placed, SchedAt
    <3>2. {i \in Indices(c) : <<s, i>> \in {}} = {}
      OBVIOUS
    <3> HIDE DEF c, z
    <3> QED
      BY <3>1, <3>2 DEF SchedHolds
  <2>2. F = Listening(c, z.q)
    BY DEF Filled, Whole, Gathered
  <2>3. ASSUME NEW i \in F, z.q.slots[i] # Nil
        PROVE  z.q.slots[i] \in I
    <3>1. c.order \in Orders /\ c.entries \in Nat \ {0} /\ z.q \in QueueState(c, I)
      BY SchedFacts, SchedFields
    <3> HIDE DEF c, z, I, F
    <3> QED
      BY <2>2, <2>3, <3>1, ListenSlots
  <2>4. \A x \in InQueue(s) : /\ x = <<"sched", s, "slot", x[4], x[5]>> /\ x[4] \in F
                              /\ x[5] = z.q.slots[x[4]] /\ x[5] # Nil
    BY <2>2 DEF InQueue, Q
  <2> HIDE DEF F, z, I
  <2>5. \A x, y \in InQueue(s) : x[5] = y[5] => x = y
    BY <2>1, <2>4
  <2> QED
    BY <2>1, <2>3, <2>4, <2>5
<1>4. ASSUME NEW p \in 1 .. cfg.ports
      PROVE  LET In == InPort(p, TRUE) \union InPort(p, FALSE)
             IN  /\ \A x \in In : /\ x = <<"port", p, x[3], x[4], x[5]>> /\ x[5] \in I
                                  /\ IsAt(home, x[5], AtPort(p))
                 /\ \A x, y \in In : x[5] = y[5] => x = y
  <2> DEFINE b == iew.port[p]
             In == InPort(p, TRUE) \union InPort(p, FALSE)
  <2>1. b \in Latch(Entry(iew.insn, done))
    BY DEF Sound
  <2>2. LatchHolds(b, TRUE, TRUE, InfoName, home, AtPort(p))
    BY DEF Whole, Placed, PortAt
  <2> HIDE DEF b
  <2>3. /\ \A h \in Held(b) : /\ h[3] \in Entry(iew.insn, done)
                              /\ IsAt(home, InfoName[h[3]], AtPort(p))
        /\ \A h, g \in Held(b) : InfoName[h[3]] = InfoName[g[3]] => h = g
    BY <2>1, <2>2, HeldAtPlace
  <2>4. \A e \in Entry(iew.insn, done) : InfoName[e] = e.id /\ e.id \in I
    BY <1>1 DEF Entry, InfoName, Infos
  <2>5. \A x \in In : \E h \in Held(b) : x = <<"port", p, h[1], h[2], h[3].id>>
    BY DEF InPort, b
  <2> HIDE DEF In
  <2>6. \A x \in In : /\ x = <<"port", p, x[3], x[4], x[5]>> /\ x[5] \in I
                      /\ IsAt(home, x[5], AtPort(p))
    BY <2>3, <2>4, <2>5
  <2>7. \A x, y \in In : x[5] = y[5] => x = y
    BY <2>3, <2>4, <2>5
  <2> QED
    BY <2>6, <2>7 DEF In
<1>5. ASSUME NEW part, NEW n, NEW b \in Latch(Complete(iew.insn)), NEW place,
             LatchHolds(b, TRUE, TRUE, InsnName, home, place)
      PROVE  /\ \A x \in Latched(part, n, b) : /\ x = <<part, n, x[3], x[4], x[5]>> /\ x[5] \in I
                                               /\ IsAt(home, x[5], place)
             /\ \A x, y \in Latched(part, n, b) : x[5] = y[5] => x = y
  <2>1. /\ \A h \in Held(b) : h[3] \in Complete(iew.insn) /\ IsAt(home, InsnName[h[3]], place)
        /\ \A h, g \in Held(b) : InsnName[h[3]] = InsnName[g[3]] => h = g
    BY <1>5, HeldAtPlace
  <2>2. \A e \in Complete(iew.insn) : InsnName[e] = e /\ e \in I
    BY <1>1 DEF Complete, InsnName
  <2>3. \A x \in Latched(part, n, b) : \E h \in Held(b) : x = <<part, n, h[1], h[2], h[3]>>
    BY DEF Latched
  <2>4. \A x \in Latched(part, n, b) : /\ x = <<part, n, x[3], x[4], x[5]>> /\ x[5] \in I
                                       /\ IsAt(home, x[5], place)
    BY <2>1, <2>2, <2>3
  <2>5. \A x, y \in Latched(part, n, b) : x[5] = y[5] => x = y
    BY <2>1, <2>2, <2>3
  <2> QED
    BY <2>4, <2>5
<1>6. ASSUME NEW u \in DOMAIN cfg.unit
      PROVE  LET In == Latched("unit", u, iew.unit[u].pipe)
             IN  /\ \A x \in In : /\ x = <<"unit", u, x[3], x[4], x[5]>> /\ x[5] \in I
                                  /\ IsAt(home, x[5], AtPipe(u))
                 /\ \A x, y \in In : x[5] = y[5] => x = y
  <2>1. iew.unit[u].pipe \in Latch(Complete(iew.insn))
    BY UnitFields DEF UnitState
  <2>2. LatchHolds(iew.unit[u].pipe, TRUE, TRUE, InsnName, home, AtPipe(u))
    BY DEF Whole, Placed, PipeAt
  <2> QED
    BY <1>5, <2>1, <2>2
<1>7. ASSUME NEW u \in DOMAIN cfg.unit, IsMemoryUnit(u)
      PROVE  LET In == Latched("dCache", u, iew.unit[u].dCache)
             IN  /\ \A x \in In : /\ x = <<"dCache", u, x[3], x[4], x[5]>> /\ x[5] \in I
                                  /\ IsAt(home, x[5], AtCache(u))
                 /\ \A x, y \in In : x[5] = y[5] => x = y
  <2>1. iew.unit[u].dCache \in Latch(Complete(iew.insn))
    BY UnitFields DEF UnitState
  <2>2. LatchHolds(iew.unit[u].dCache, TRUE, TRUE, InsnName, home, AtCache(u))
    BY <1>7 DEF Whole, Placed, MemoryHolds, CacheAt
  <2> QED
    BY <1>5, <2>1, <2>2
<1>8. ASSUME NEW w \in DOMAIN cfg.wb
      PROVE  LET In == Latched("wb", w, iew.wb[w])
             IN  /\ \A x \in In : /\ x = <<"wb", w, x[3], x[4], x[5]>> /\ x[5] \in I
                                  /\ IsAt(home, x[5], AtWb(w))
                 /\ \A x, y \in In : x[5] = y[5] => x = y
  <2>1. iew.wb[w] \in Latch(Complete(iew.insn))
    BY DEF Sound
  <2>2. LatchHolds(iew.wb[w], TRUE, TRUE, InsnName, home, AtWb(w))
    BY DEF Whole, Placed, WbAt
  <2> QED
    BY <1>5, <2>1, <2>2
<1>9. /\ \A x \in InLdq : /\ x = <<"ldq", 1, "queue", x[4], x[5]>> /\ x[5] \in I
                          /\ IsAt(home, x[5], AtLdq)
      /\ \A x, y \in InLdq : x[5] = y[5] => x = y
  <2>1. LdqAt(iew, home) /\ iew.ldq \in Seq(Complete(iew.insn))
    BY DEF Whole, Placed, MemoryHolds, Sound
  <2>2. \A k \in DOMAIN iew.ldq : iew.ldq[k] \in I
    BY <2>1 DEF Complete
  <2> HIDE DEF I
  <2> QED
    BY <2>1, <2>2, SMTT(40) DEF InLdq, LdqAt
<1> DEFINE Ports(p) == InPort(p, TRUE) \union InPort(p, FALSE)
           Pipe(u) == Latched("unit", u, iew.unit[u].pipe)
           Cache(u) == Latched("dCache", u, iew.unit[u].dCache)
           Wb(w) == Latched("wb", w, iew.wb[w])
<1>10. ASSUME NEW x \in Places
       PROVE  \/ \E s \in DOMAIN cfg.sched : x \in InQueue(s)
              \/ \E p \in 1 .. cfg.ports : x \in Ports(p)
              \/ \E u \in DOMAIN cfg.unit : x \in Pipe(u)
              \/ \E u \in DOMAIN cfg.unit : IsMemoryUnit(u) /\ x \in Cache(u)
              \/ \E w \in DOMAIN cfg.wb : x \in Wb(w)
              \/ x \in InLdq
  <2>1. CASE x \in InMemory /\ IsMemoryUnit(x[2])
    <3>1. PICK u \in DOMAIN cfg.unit : x \in Cache(u)
      BY <1>2, <2>1 DEF InMemory
    <3>2. x[2] = u
      BY <3>1 DEF Latched
    <3> QED
      BY <2>1, <3>1, <3>2
  <2>2. CASE x \in InQueues
    BY <2>2 DEF InQueues
  <2>3. CASE x \in ToScheds \/ x \in ToUnits
    BY <1>2, <2>3 DEF ToScheds, ToUnits
  <2>4. CASE x \in InUnits
    BY <1>2, <2>4 DEF InUnits
  <2>5. CASE x \in InWriteBack
    BY <1>2, <2>5 DEF InWriteBack
  <2>6. CASE x \in InLdq
    BY <2>6
  <2> HIDE DEF Ports, Pipe, Cache, Wb
  <2> QED
    BY <2>1, <2>2, <2>3, <2>4, <2>5, <2>6 DEF Places, OnThePath
<1>11. \A s \in DOMAIN cfg.sched : \A x \in InQueue(s) :
         x[5] \in I /\ IsAt(home, x[5], AtSched(s)) /\ PlaceOf(x) = AtSched(s)
  <2> SUFFICES ASSUME NEW s \in DOMAIN cfg.sched, NEW x \in InQueue(s)
               PROVE  x[5] \in I /\ IsAt(home, x[5], AtSched(s)) /\ PlaceOf(x) = AtSched(s)
    OBVIOUS
  <2>1. x[1] = "sched" /\ x[2] = s
    BY DEF InQueue
  <2> QED
    BY <1>3, <2>1 DEF PlaceOf
<1>12. \A p \in 1 .. cfg.ports : \A x \in Ports(p) :
         x[5] \in I /\ IsAt(home, x[5], AtPort(p)) /\ PlaceOf(x) = AtPort(p)
  <2> SUFFICES ASSUME NEW p \in 1 .. cfg.ports, NEW x \in Ports(p)
               PROVE  x[5] \in I /\ IsAt(home, x[5], AtPort(p)) /\ PlaceOf(x) = AtPort(p)
    OBVIOUS
  <2>1. x[1] = "port" /\ x[2] = p
    BY DEF InPort
  <2> QED
    BY <1>4, <2>1 DEF PlaceOf
<1>13. \A u \in DOMAIN cfg.unit : \A x \in Pipe(u) :
         x[5] \in I /\ IsAt(home, x[5], AtPipe(u)) /\ PlaceOf(x) = AtPipe(u)
  <2> SUFFICES ASSUME NEW u \in DOMAIN cfg.unit, NEW x \in Pipe(u)
               PROVE  x[5] \in I /\ IsAt(home, x[5], AtPipe(u)) /\ PlaceOf(x) = AtPipe(u)
    OBVIOUS
  <2>1. x[1] = "unit" /\ x[2] = u
    BY DEF Latched
  <2> QED
    BY <1>6, <2>1 DEF PlaceOf
<1>14. \A u \in DOMAIN cfg.unit : IsMemoryUnit(u) => \A x \in Cache(u) :
         x[5] \in I /\ IsAt(home, x[5], AtCache(u)) /\ PlaceOf(x) = AtCache(u)
  <2> SUFFICES ASSUME NEW u \in DOMAIN cfg.unit, IsMemoryUnit(u), NEW x \in Cache(u)
               PROVE  x[5] \in I /\ IsAt(home, x[5], AtCache(u)) /\ PlaceOf(x) = AtCache(u)
    OBVIOUS
  <2>1. x[1] = "dCache" /\ x[2] = u
    BY DEF Latched
  <2> QED
    BY <1>7, <2>1 DEF PlaceOf
<1>15. \A w \in DOMAIN cfg.wb : \A x \in Wb(w) :
         x[5] \in I /\ IsAt(home, x[5], AtWb(w)) /\ PlaceOf(x) = AtWb(w)
  <2> SUFFICES ASSUME NEW w \in DOMAIN cfg.wb, NEW x \in Wb(w)
               PROVE  x[5] \in I /\ IsAt(home, x[5], AtWb(w)) /\ PlaceOf(x) = AtWb(w)
    OBVIOUS
  <2>1. x[1] = "wb" /\ x[2] = w
    BY DEF Latched
  <2> QED
    BY <1>8, <2>1 DEF PlaceOf
<1>16. \A x \in InLdq : x[5] \in I /\ IsAt(home, x[5], AtLdq) /\ PlaceOf(x) = AtLdq
  <2> SUFFICES ASSUME NEW x \in InLdq
               PROVE  x[5] \in I /\ IsAt(home, x[5], AtLdq) /\ PlaceOf(x) = AtLdq
    OBVIOUS
  <2>1. x[1] = "ldq"
    BY DEF InLdq
  <2> QED
    BY <1>9, <2>1 DEF PlaceOf
<1> HIDE DEF I
<1>17. \A x \in Places : x[5] \in I /\ IsAt(home, x[5], PlaceOf(x))
  <2> HIDE DEF Ports, Pipe, Cache, Wb
  <2> QED
    BY <1>10, <1>11, <1>12, <1>13, <1>14, <1>15, <1>16
<1>18. ASSUME NEW x \in Places, NEW y \in Places, x[5] = y[5]
       PROVE  x = y
  <2>0. PlaceOf(x) = PlaceOf(y)
    BY <1>17, <1>18 DEF IsAt
  <2>1. CASE \E s \in DOMAIN cfg.sched : x \in InQueue(s)
    <3>1. PICK s \in DOMAIN cfg.sched : x \in InQueue(s)
      BY <2>1
    <3>2. PlaceOf(y) = AtSched(s)
      BY <1>11, <2>0, <3>1
    <3>3. y \in InQueue(s)
      <4> HIDE DEF Ports, Pipe, Cache, Wb
      <4>1. \A t : /\ AtSched(s) # AtPort(t) /\ AtSched(s) # AtPipe(t)
                   /\ AtSched(s) # AtCache(t) /\ AtSched(s) # AtWb(t) /\ AtSched(s) # AtLdq
        BY PlacesDiffer
      <4>2. PICK t \in DOMAIN cfg.sched : y \in InQueue(t)
        BY <1>10, <1>12, <1>13, <1>14, <1>15, <1>16, <3>2, <4>1
      <4>3. AtSched(t) = AtSched(s)
        BY <1>11, <3>2, <4>2
      <4>4. t = s
        BY <4>3, PlacesDiffer
      <4> QED
        BY <4>2, <4>4
    <3> QED
      BY <1>3, <1>18, <3>1, <3>3
  <2>2. CASE \E p \in 1 .. cfg.ports : x \in Ports(p)
    <3>1. PICK p \in 1 .. cfg.ports : x \in Ports(p)
      BY <2>2
    <3>2. PlaceOf(y) = AtPort(p)
      BY <1>12, <2>0, <3>1
    <3>3. y \in Ports(p)
      <4> HIDE DEF Ports, Pipe, Cache, Wb
      <4> QED
        BY <1>10, <1>11, <1>12, <1>13, <1>14, <1>15, <1>16, <3>2, PlacesDiffer
    <3> QED
      BY <1>4, <1>18, <3>1, <3>3
  <2>3. CASE \E u \in DOMAIN cfg.unit : x \in Pipe(u)
    <3>1. PICK u \in DOMAIN cfg.unit : x \in Pipe(u)
      BY <2>3
    <3>2. PlaceOf(y) = AtPipe(u)
      BY <1>13, <2>0, <3>1
    <3>3. y \in Pipe(u)
      <4> HIDE DEF Ports, Pipe, Cache, Wb
      <4> QED
        BY <1>10, <1>11, <1>12, <1>13, <1>14, <1>15, <1>16, <3>2, PlacesDiffer
    <3> QED
      BY <1>6, <1>18, <3>1, <3>3
  <2>4. CASE \E u \in DOMAIN cfg.unit : IsMemoryUnit(u) /\ x \in Cache(u)
    <3>1. PICK u \in DOMAIN cfg.unit : IsMemoryUnit(u) /\ x \in Cache(u)
      BY <2>4
    <3>2. PlaceOf(y) = AtCache(u)
      BY <1>14, <2>0, <3>1
    <3>3. y \in Cache(u)
      <4> HIDE DEF Ports, Pipe, Cache, Wb
      <4> QED
        BY <1>10, <1>11, <1>12, <1>13, <1>14, <1>15, <1>16, <3>2, PlacesDiffer
    <3> QED
      BY <1>7, <1>18, <3>1, <3>3
  <2>5. CASE \E w \in DOMAIN cfg.wb : x \in Wb(w)
    <3>1. PICK w \in DOMAIN cfg.wb : x \in Wb(w)
      BY <2>5
    <3>2. PlaceOf(y) = AtWb(w)
      BY <1>15, <2>0, <3>1
    <3>3. y \in Wb(w)
      <4> HIDE DEF Ports, Pipe, Cache, Wb
      <4> QED
        BY <1>10, <1>11, <1>12, <1>13, <1>14, <1>15, <1>16, <3>2, PlacesDiffer
    <3> QED
      BY <1>8, <1>18, <3>1, <3>3
  <2>6. CASE x \in InLdq
    <3>1. PlaceOf(y) = AtLdq
      BY <1>16, <2>0, <2>6
    <3>2. y \in InLdq
      <4> HIDE DEF Ports, Pipe, Cache, Wb
      <4> QED
        BY <1>10, <1>11, <1>12, <1>13, <1>14, <1>15, <1>16, <3>1, PlacesDiffer
    <3> QED
      BY <1>9, <1>18, <2>6, <3>2
  <2> HIDE DEF Ports, Pipe, Cache, Wb
  <2> QED
    BY <1>10, <2>1, <2>2, <2>3, <2>4, <2>5, <2>6
<1> QED
  BY <1>17, <1>18 DEF I

\* Two instructions are never counted as one: Copies is about all the latches
\* of the data cache, a unit that is no memory unit never uses its own.
CopiesOnPath(id) == Cardinality({x \in Places : x[5] = id})

NotDoubled ==
  BetweenTicks =>
    \A id \in DOMAIN iew.insn :
      LET y == iew.insn[id]
      IN  CopiesOnPath(id) <= IF y.killed \/ (InBuffer(id) /\ y.tag \notin rob.done) THEN 1 ELSE 0

LEMMA BetweenTicksOnPath ==
  ASSUME Path, Orderly, BetweenTicks
  PROVE  /\ \A id \in IdsAt(Places) : id \in DOMAIN iew.insn
         /\ \A x, y \in Places : x[5] = y[5] => x = y
         /\ \A id \in IdsAt(Places) :
              \/ Expected(iew.insn, rob, id) /\ ~iew.insn[id].killed
              \/ iew.insn[id].killed
         /\ \A id \in IdsAt(OnThePath) : rob.state = "Idle" => ~iew.insn[id].killed
<1>1. phase = "WriteBack"
  BY DEF BetweenTicks, Phases, IewPhases
<1>2. /\ Wiring(cfg) /\ MaxInsns \in Nat /\ Sound(iew, regs.done)
      /\ phase \in Selecting => Gathered(iew)
  BY FromPath
<1>3. PICK home : /\ Control(iew.insn, rob, home)
                  /\ Placed(iew, {}, LivePorts(phase), LiveUnits(phase), LiveUnits(phase),
                            LiveWbs(phase), home)
  BY <1>1, FromPath
<1>4. Whole(iew, home)
  BY <1>1, <1>2, <1>3, LiveSets DEF Whole, Selecting
<1>5. /\ \A x \in Places : x[5] \in DOMAIN iew.insn /\ IsAt(home, x[5], PlaceOf(x))
      /\ \A x, y \in Places : x[5] = y[5] => x = y
  BY <1>2, <1>4, AtItsPlace
<1>6. ASSUME NEW id \in Ids, Expected(iew.insn, rob, id)
      PROVE  ~iew.insn[id].killed
  <2>1. PICK j \in DOMAIN rob.queue : id = rob.queue[j]
    BY <1>6 DEF Expected, ToSet
  <2>2. Ring(iew.insn, rob)
    BY <1>3 DEF Control
  <2>3. DOMAIN rob.queue = 1 .. Len(rob.queue)
    BY <2>2 DEF Ring
  <2> QED
    BY <2>1, <2>2, <2>3 DEF Ring
<1>7. \A x : x \in OnThePath \/ (x \in Places /\ x[1] = "dCache") \/ x \notin Places
  BY DEF Places, InMemory, Latched
<1>8. ASSUME NEW x \in OnThePath
      PROVE  PlaceOf(x) # Nowhere /\ PlaceOf(x)[1] # "dCache"
  <2>1. x[1] \in {"sched", "port", "unit", "ldq", "wb"}
    BY DEF OnThePath, InQueues, InQueue, ToScheds, ToUnits, InPort, InUnits, InLdq,
           InWriteBack, Latched
  <2> QED
    BY <2>1, PlacesDiffer, PartOfPlace DEF PlaceOf
<1>9. ASSUME NEW x \in Places
      PROVE  PlaceOf(x) # Nowhere
  <2>1. CASE x[1] = "dCache"
    BY <2>1, PlacesDiffer DEF PlaceOf
  <2> QED
    BY <1>7, <1>8, <2>1
<1>10. Owned(iew.insn, rob, home)
  BY <1>3 DEF Control
<1>11. ASSUME NEW x \in Places
       PROVE  \/ Expected(iew.insn, rob, x[5]) /\ ~iew.insn[x[5]].killed
              \/ iew.insn[x[5]].killed
  BY <1>5, <1>6, <1>9, <1>10, <1>11 DEF Owned, IsAt, Lingers
<1>12. ASSUME NEW x \in OnThePath, rob.state = "Idle"
       PROVE  ~iew.insn[x[5]].killed
  <2>1. x \in Places
    BY DEF Places
  <2>2. /\ x[5] \in Ids /\ home[x[5]] # Nowhere /\ home[x[5]][1] # "dCache"
    BY <1>5, <1>8, <2>1 DEF IsAt
  <2>3. Expected(iew.insn, rob, x[5])
    BY <1>10, <1>12, <2>2 DEF Owned, Lingers
  <2> QED
    BY <1>6, <2>2, <2>3
<1> QED
  BY <1>5, <1>11, <1>12 DEF IdsAt

(* Between ticks an instruction is at one place of the issue path and its  *)
(* memory at most; and one that the re-order buffer does not wait for (it  *)
(* is done or retired) at none, unless it was squashed: no result is ever  *)
(* written twice, whatever the order of selection, the stalls of the       *)
(* write-back ports and the recoveries.  It is the half of                 *)
(* NeitherLostNorDoubled that says "not doubled".                          *)
THEOREM NotDoubledAlways == Spec => [](Orderly => NotDoubled)
<1>1. Path => (Orderly => NotDoubled)
  <2> SUFFICES ASSUME Path, Orderly, BetweenTicks, NEW id \in DOMAIN iew.insn
               PROVE  CopiesOnPath(id) <=
                        IF iew.insn[id].killed \/ (InBuffer(id) /\ iew.insn[id].tag \notin rob.done)
                        THEN 1 ELSE 0
    BY DEF NotDoubled
  <2> DEFINE X == {x \in Places : x[5] = id}
  <2>1. CASE X = {}
    <3>1. CopiesOnPath(id) = 0
      BY <2>1, FS_EmptySet DEF CopiesOnPath
    <3> QED
      BY <3>1
  <2>2. CASE X # {}
    <3>1. PICK x \in X : TRUE
      BY <2>2
    <3>2. X = {x}
      BY <3>1, BetweenTicksOnPath
    <3>3. CopiesOnPath(id) = 1
      BY <3>2, FS_Singleton DEF CopiesOnPath
    <3>4. id \in IdsAt(Places)
      BY <3>1 DEF IdsAt
    <3>5. iew.insn[id].killed \/ (InBuffer(id) /\ iew.insn[id].tag \notin rob.done)
      BY <3>4, BetweenTicksOnPath DEF Expected, InBuffer
    <3> QED
      BY <3>3, <3>5
  <2> QED
    BY <2>1, <2>2
<1> QED
  BY <1>1, PathAlways, PTL

(* Once dispatch may go on after a recovery, nothing of the squashed path  *)
(* is left in IEW: neither in a queue, a read port, a unit, the load queue *)
(* nor a write-back port.                                                  *)
THEOREM FlushedOutAlways == Spec => [](Orderly => FlushedOut)
<1>1. Path => (Orderly => FlushedOut)
  BY BetweenTicksOnPath DEF FlushedOut
<1> QED
  BY <1>1, PathAlways, PTL

(* After the write-back ports the request on their shared redirect port is *)
(* that of the branch the recovery rolls back to, unless an older load     *)
(* that faults took the recovery over in the same tick.                    *)
THEOREM RedirectMatchesRecoveryAlways == Spec => [](Orderly => RedirectMatchesRecovery)
<1>1. Path => (Orderly => RedirectMatchesRecovery)
  BY DEF Path, RedirectOk, RedirectMatchesRecovery, TargetOf
<1> QED
  BY <1>1, PathAlways, PTL

-----------------------------------------------------------------------------
(* The types of the state.                                                 *)

LEMMA LatchedInSet ==
  ASSUME NEW S, NEW b \in Latch(S), NEW part, NEW n
  PROVE  \A x \in Latched(part, n, b) : x[5] \in S
BY HeldInLatch DEF Latched

\* Whatever the path and its memory hold is an instruction dispatched.
LEMMA PlacesKnown ==
  ASSUME Wiring(cfg), NEW done, Sound(iew, done)
  PROVE  IdsAt(OnThePath \union InMemory) \subseteq DOMAIN iew.insn
<1> DEFINE I == DOMAIN iew.insn
           C == Complete(iew.insn)
<1>1. C \subseteq I
  BY DEF Complete
<1>2. ASSUME NEW x \in InQueues
      PROVE  x[5] \in I
  <2>1. PICK s \in DOMAIN cfg.sched : x \in InQueue(s)
    BY DEF InQueues
  <2>2. PICK i \in Listening(cfg.sched[s], Q(iew, s)) :
          Q(iew, s).slots[i] # Nil /\ x = <<"sched", s, "slot", i, Q(iew, s).slots[i]>>
    BY <2>1 DEF InQueue
  <2>3. cfg.sched[s].order \in Orders /\ cfg.sched[s].entries \in Nat \ {0}
    BY WiringFacts DEF Sched
  <2>4. Q(iew, s) \in QueueState(cfg.sched[s], I)
    BY DEF Sound, SchedState, Q
  <2>5. Q(iew, s).slots[i] \in I
    <3> HIDE DEF I
    <3> QED
      BY <2>2, <2>3, <2>4, ListenSlots
  <2> QED
    BY <2>2, <2>5
<1>3. ASSUME NEW x \in ToScheds \union ToUnits
      PROVE  x[5] \in I
  <2>1. PICK p \in DOMAIN iew.port, v \in BOOLEAN : x \in InPort(p, v)
    BY DEF ToScheds, ToUnits
  <2>2. PICK h \in Held(iew.port[p]) : x = <<"port", p, h[1], h[2], h[3].id>>
    BY <2>1 DEF InPort
  <2>3. iew.port[p] \in Latch(Entry(iew.insn, done))
    BY DEF Sound
  <2>4. h[3] \in Entry(iew.insn, done)
    BY <2>3, HeldInLatch
  <2>5. h[3].id \in I
    BY <2>4 DEF Entry
  <2> QED
    BY <2>2, <2>5
<1>4. ASSUME NEW x \in InUnits \union InMemory
      PROVE  x[5] \in I
  <2>1. PICK u \in DOMAIN iew.unit :
          \/ x \in Latched("unit", u, iew.unit[u].pipe)
          \/ x \in Latched("dCache", u, iew.unit[u].dCache)
    BY DEF InUnits, InMemory
  <2>2. iew.unit[u] \in UnitState(C)
    BY DEF Sound
  <2>3. iew.unit[u].pipe \in Latch(C) /\ iew.unit[u].dCache \in Latch(C)
    <3> HIDE DEF C
    <3> QED
      BY <2>2 DEF UnitState
  <2>4. x[5] \in C
    <3> HIDE DEF C
    <3> QED
      BY <2>1, <2>3, LatchedInSet
  <2> QED
    BY <1>1, <2>4
<1>5. ASSUME NEW x \in InLdq
      PROVE  x[5] \in I
  <2>1. PICK k \in DOMAIN iew.ldq : x = <<"ldq", 1, "queue", k, iew.ldq[k]>>
    BY DEF InLdq
  <2>2. iew.ldq \in Seq(C)
    BY DEF Sound
  <2>3. iew.ldq[k] \in C
    <3> HIDE DEF C
    <3> QED
      BY <2>2
  <2> QED
    BY <1>1, <2>1, <2>3
<1>6. ASSUME NEW x \in InWriteBack
      PROVE  x[5] \in I
  <2>1. PICK w \in DOMAIN iew.wb : x \in Latched("wb", w, iew.wb[w])
    BY DEF InWriteBack
  <2>2. iew.wb[w] \in Latch(C)
    BY DEF Sound
  <2>3. x[5] \in C
    <3> HIDE DEF C
    <3> QED
      BY <2>1, <2>2, LatchedInSet
  <2> QED
    BY <1>1, <2>3
<1>7. ASSUME NEW x \in OnThePath \union InMemory
      PROVE  x[5] \in I
  BY <1>2, <1>3, <1>4, <1>5, <1>6 DEF OnThePath
<1> QED
  BY <1>7 DEF IdsAt

LEMMA SizeOfInterval ==
  ASSUME NEW a \in Int, NEW b \in Int, a <= b + 1
  PROVE  IsFiniteSet(a .. b) /\ Cardinality(a .. b) = b - a + 1
<1> DEFINE size == Cardinality(a .. b)
<1>1. IsFiniteSet(a .. b) /\ size = IF a > b THEN 0 ELSE b - a + 1
  BY FS_Interval
<1> HIDE DEF size
<1>2. CASE a > b
  <2>1. size = 0
    BY <1>1, <1>2
  <2>2. b - a + 1 = 0
    BY <1>2
  <2> QED
    BY <1>1, <2>1, <2>2 DEF size
<1>3. CASE ~(a > b)
  BY <1>1, <1>3 DEF size
<1> QED
  BY <1>2, <1>3

\* An age queue never has more free slots than slots: each is there once.
LEMMA FreeAtMost ==
  ASSUME NEW n \in Nat, NEW f \in Seq(0 .. (n - 1)),
         \A j, k \in DOMAIN f : f[j] = f[k] => j = k
  PROVE  Len(f) <= n
<1> DEFINE D == 1 .. Len(f)
           T == 0 .. (n - 1)
<1>1. f \in [D -> T] /\ DOMAIN f = D /\ Len(f) \in Nat
  OBVIOUS
<1>2. f \in Injection(D, T)
  BY <1>1 DEF Injection, IsInjective
<1>3. IsFiniteSet(T) /\ Cardinality(T) = n
  <2>1. 0 \in Int /\ n - 1 \in Int /\ 0 <= (n - 1) + 1 /\ (n - 1) - 0 + 1 = n
    OBVIOUS
  <2>2. IsFiniteSet(T) /\ Cardinality(T) = (n - 1) - 0 + 1
    BY <2>1, SizeOfInterval
  <2> QED
    BY <2>1, <2>2
<1>4. IsFiniteSet(D) /\ Cardinality(D) = Len(f)
  <2> DEFINE m == Len(f)
  <2>1. 1 \in Int /\ m \in Int /\ 1 <= m + 1 /\ m - 1 + 1 = m
    BY <1>1
  <2>2. IsFiniteSet(D) /\ Cardinality(D) = m - 1 + 1
    <3> HIDE DEF m
    <3> QED
      BY <2>1, SizeOfInterval DEF m
  <2> QED
    BY <2>1, <2>2
<1>5. Cardinality(D) <= Cardinality(T)
  <2> HIDE DEF D, T
  <2> QED
    BY <1>2, <1>3, FS_Injection
<1> QED
  BY <1>3, <1>4, <1>5

LEMMA EntriesAvailable ==
  ASSUME NEW c, c.order \in Orders, c.entries \in Nat \ {0}, NEW S, NEW q \in QueueState(c, S)
  PROVE  /\ q.slots \in Slots(c, S)
         /\ GetAvailibleEntryCount(c, q) \in 0 .. c.entries
<1>1. CASE c.order = "In-Order"
  <2>1. q \in RingState(c, S)
    BY <1>1 DEF QueueState
  <2> QED
    BY <1>1, <2>1 DEF RingState, GetAvailibleEntryCount
<1>2. CASE c.order = "In-Age-Order"
  <2>1. q \in AgeFields(c, S) /\ Apart(q.free, q.bust)
    BY <1>2 DEF QueueState, AgeState
  <2>2. q.free \in Seq(0 .. (c.entries - 1)) /\ q.slots \in Slots(c, S)
    BY <2>1 DEF AgeFields, Indices
  <2>3. Len(q.free) <= c.entries
    BY <2>1, <2>2, FreeAtMost DEF Apart
  <2>4. Len(q.free) \in Nat
    BY <2>2
  <2> QED
    BY <1>2, <2>2, <2>3, <2>4 DEF GetAvailibleEntryCount
<1>3. CASE c.order = "Out-of-Order"
  <2>1. q \in BagState(c, S)
    BY <1>3 DEF QueueState
  <2> QED
    BY <1>3, <2>1 DEF BagState, GetAvailibleEntryCount
<1> QED
  BY <1>1, <1>2, <1>3 DEF Orders

\* The parts of TypeOK that hold in every wiring.
LEMMA TypeOfParts ==
  ASSUME Flow
  PROVE  /\ cfg \in Configs /\ phase \in ToSet(Phases)
         /\ \A id \in DOMAIN iew.insn : iew.insn[id] \in DynInsn
         /\ IdsAt(OnThePath \union InMemory) \subseteq DOMAIN iew.insn
         /\ iew.redirect \in Ids \union {Nil}
         /\ \A s \in DOMAIN cfg.sched :
              /\ iew.sched[s].q.slots \in [Indices(cfg.sched[s]) -> Ids \union {Nil}]
              /\ GetAvailibleEntryCount(cfg.sched[s], Q(iew, s)) \in 0 .. cfg.sched[s].entries
              /\ iew.sched[s].room \in 0 .. cfg.sched[s].enqueWidth
         /\ regs.done \union regs.file \subseteq Ids \union {Nil}
<1>1. Wiring(cfg) /\ MaxInsns \in Nat /\ Sound(iew, regs.done)
  BY IssueConstants DEF Flow
<1>2. DOMAIN iew.insn \subseteq Ids
  BY <1>1, InsnIds DEF Sound
<1>3. ASSUME NEW id \in DOMAIN iew.insn
      PROVE  iew.insn[id] \in DynInsn
  <2>1. iew.insn \in Seq(DynInsn)
    BY <1>1 DEF Sound, Insns
  <2> QED
    BY <2>1
<1>4. ASSUME NEW s \in DOMAIN cfg.sched
      PROVE  /\ iew.sched[s].q.slots \in [Indices(cfg.sched[s]) -> Ids \union {Nil}]
             /\ GetAvailibleEntryCount(cfg.sched[s], Q(iew, s)) \in 0 .. cfg.sched[s].entries
             /\ iew.sched[s].room \in 0 .. cfg.sched[s].enqueWidth
  <2>1. iew.sched[s] \in SchedState(cfg.sched[s], DOMAIN iew.insn)
    BY <1>1 DEF Sound
  <2>2. iew.sched[s].q \in QueueState(cfg.sched[s], DOMAIN iew.insn)
        /\ iew.sched[s].room \in 0 .. cfg.sched[s].enqueWidth
    BY <2>1 DEF SchedState
  <2>3. cfg.sched[s].order \in Orders /\ cfg.sched[s].entries \in Nat \ {0}
    BY <1>1, WiringFacts DEF Sched
  <2>4. iew.sched[s].q.slots \in Slots(cfg.sched[s], DOMAIN iew.insn)
        /\ GetAvailibleEntryCount(cfg.sched[s], iew.sched[s].q) \in 0 .. cfg.sched[s].entries
    BY <2>2, <2>3, EntriesAvailable
  <2> QED
    BY <1>2, <2>2, <2>4 DEF Slots, Q
<1>5. iew.redirect \in Ids \union {Nil}
  BY <1>1 DEF Sound, Ids0
<1>6. regs.done \union regs.file \subseteq Ids \union {Nil}
  BY DEF Flow, Registers, Ids0
<1>7. cfg \in Configs /\ phase \in ToSet(Phases)
  BY DEF Flow
<1> QED
  BY <1>1, <1>3, <1>4, <1>5, <1>6, <1>7, PlacesKnown

(* Every part of the state keeps to its type: only instructions that were  *)
(* dispatched are anywhere in IEW, no queue offers more entries than it    *)
(* has however its slots were claimed, squashed and given back, and the    *)
(* re-order buffer is never asked to commit what it does not hold.         *)
THEOREM TypeOKAlways == Spec => [](Orderly => TypeOK)
<1>1. Path => (Orderly => TypeOK)
  <2> SUFFICES ASSUME Path, Orderly
               PROVE  TypeOK
    OBVIOUS
  <2>1. Flow
    BY DEF Path
  <2>2. Ring(iew.insn, rob)
    BY DEF Path, OnPath, Housed, Control
  <2> QED
    BY <2>1, <2>2, TypeOfParts DEF TypeOK, Ring
<1> QED
  BY <1>1, PathAlways, PTL
=============================================================================
