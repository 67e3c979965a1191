------------------------ MODULE StatusNotifierProofs ------------------------
(***************************************************************************)
(* What the tray lists and shows, for any programs and watchers, any       *)
(* number of messages on their way to it, and whatever comes, goes and     *)
(* restarts meanwhile: replies find their items, registrations are heard,  *)
(* and once all is read the list and the icons are those of the programs.  *)
(***************************************************************************)
EXTENDS StatusNotifier, SequenceLemmas, TLAPS

(***************************************************************************)
(* Sequences of messages.                                                  *)
(***************************************************************************)
IsSeq(q) == \E S : q \in Seq(S)
Elems(q) == {q[n] : n \in 1 .. Len(q)}

Is(m, kind, i) == m.kind = kind /\ m.item = i

Has(q, kind, i) == \E m \in Elems(q) : Is(m, kind, i)
HasKind(q, kind) == \E m \in Elems(q) : m.kind = kind
HasReply(q, i) == \E m \in Elems(q) : IsReplyOf(m, i)

\* A change of i's icon by the instance s.
IsChange(m, i, s) == Is(m, "NewIcon", i) /\ m.sender = s
HasChange(q, i, s) == \E m \in Elems(q) : IsChange(m, i, s)

\* The last that q says of i is on, not off.
Ends(q, on, off, i) ==
  \E n \in 1 .. Len(q) :
    Is(q[n], on, i) /\ \A k \in n + 1 .. Len(q) : ~Is(q[k], off, i)

\* The same of what the current watcher says.
EndsSince(q, on, off, i) ==
  \E n \in 1 .. Len(q) :
    Is(q[n], on, i) /\ \A k \in n + 1 .. Len(q) : ~Is(q[k], off, i) /\ q[k].kind # "owner"

\* Programs register once the tray is to be the watcher.
Announced(q) ==
  \A n \in 1 .. Len(q) : q[n].kind = "register" =>
    \E k \in 1 .. n - 1 : q[k].kind = "NameAcquired"

OneReply(q, i) ==
  \A m, n \in 1 .. Len(q) : IsReplyOf(q[m], i) /\ IsReplyOf(q[n], i) => m = n

\* A reply of the instance s of i is of its icon c, or a change comes later.
Outdated(m, i, s, c) == Is(m, "properties", i) /\ m.sender = s /\ m.icon # c
Current(q, i, s, c) ==
  \A n \in 1 .. Len(q) : Outdated(q[n], i, s, c) =>
    \E k \in n + 1 .. Len(q) : IsChange(q[k], i, s)

\* r is q, and ms after it.
Joined(q, ms, r) ==
  /\ Len(q) \in Nat /\ Len(ms) \in Nat /\ Len(r) = Len(q) + Len(ms)
  /\ \A n \in 1 .. Len(q) : r[n] = q[n]
  /\ \A n \in 1 .. Len(ms) : r[Len(q) + n] = ms[n]

\* Joined is what concatenation makes.
LEMMA JoinedIs ==
  ASSUME NEW q, NEW ms, IsSeq(q), IsSeq(ms)
  PROVE  IsSeq(q \o ms) /\ Joined(q, ms, q \o ms)
<1>0. PICK S, T : q \in Seq(S) /\ ms \in Seq(T)
  BY DEF IsSeq
<1>1. q \in Seq(S \cup T) /\ ms \in Seq(S \cup T)
  BY <1>0
<1>2. /\ q \o ms \in Seq(S \cup T) /\ Len(q) \in Nat /\ Len(ms) \in Nat
      /\ Len(q \o ms) = Len(q) + Len(ms)
      /\ \A n \in 1 .. Len(q) + Len(ms) :
           (q \o ms)[n] = IF n <= Len(q) THEN q[n] ELSE ms[n - Len(q)]
  BY <1>1, ConcatProperties, LenProperties
<1>3. PICK r : r = q \o ms
  OBVIOUS
<1>4. \A n \in 1 .. Len(q) : r[n] = q[n]
  BY <1>2, <1>3
<1>5. ASSUME NEW n \in 1 .. Len(ms) PROVE r[Len(q) + n] = ms[n]
  <2>1. PICK k : k = Len(q) + n
    OBVIOUS
  <2>2. k \in 1 .. Len(q) + Len(ms) /\ ~(k <= Len(q)) /\ k - Len(q) = n
    BY <1>2, <2>1
  <2>3. r[k] = ms[k - Len(q)]
    BY <1>2, <1>3, <2>2
  <2> QED BY <2>1, <2>2, <2>3
<1> QED BY <1>2, <1>3, <1>4, <1>5 DEF Joined, IsSeq

\* A message read, and what is left.
LEMMA RestIs ==
  ASSUME NEW q, IsSeq(q), q # <<>>
  PROVE  IsSeq(Tail(q)) /\ Joined(<<Head(q)>>, Tail(q), q)
<1>0. PICK S : q \in Seq(S)
  BY DEF IsSeq
<1>1. /\ Tail(q) \in Seq(S) /\ Len(Tail(q)) = Len(q) - 1 /\ Len(q) \in Nat \ {0}
      /\ Head(q) = q[1]
      /\ \A n \in 1 .. Len(Tail(q)) : Tail(q)[n] = q[n + 1]
  BY <1>0, HeadTailProperties, EmptySeq
<1>2. Len(<<Head(q)>>) = 1 /\ <<Head(q)>>[1] = Head(q)
  OBVIOUS
<1>3. \A n \in 1 .. Len(Tail(q)) : 1 + n = n + 1
  BY <1>1
<1> QED BY <1>1, <1>2, <1>3 DEF Joined, IsSeq

\* Where the messages of the two parts are.
LEMMA JoinedIndex ==
  ASSUME NEW q, NEW ms, NEW r, Joined(q, ms, r)
  PROVE  /\ \A n \in 1 .. Len(q) : n \in 1 .. Len(r) /\ r[n] = q[n]
         /\ \A n \in 1 .. Len(ms) : Len(q) + n \in 1 .. Len(r) /\ r[Len(q) + n] = ms[n]
         /\ \A n \in 1 .. Len(r) :
              \/ n \in 1 .. Len(q) /\ r[n] = q[n]
              \/ n - Len(q) \in 1 .. Len(ms) /\ n = Len(q) + (n - Len(q))
                 /\ r[n] = ms[n - Len(q)]
<1>1. /\ Len(q) \in Nat /\ Len(ms) \in Nat /\ Len(r) = Len(q) + Len(ms)
      /\ \A n \in 1 .. Len(q) : r[n] = q[n]
      /\ \A n \in 1 .. Len(ms) : r[Len(q) + n] = ms[n]
  BY DEF Joined
<1>2. \A n \in 1 .. Len(q) : n \in 1 .. Len(r)
  BY <1>1
<1>3. \A n \in 1 .. Len(ms) : Len(q) + n \in 1 .. Len(r)
  BY <1>1
<1>4. ASSUME NEW n \in 1 .. Len(r), n \notin 1 .. Len(q)
      PROVE  n - Len(q) \in 1 .. Len(ms) /\ n = Len(q) + (n - Len(q))
             /\ r[n] = ms[n - Len(q)]
  <2>1. PICK k : k = n - Len(q)
    OBVIOUS
  <2>2. k \in 1 .. Len(ms) /\ n = Len(q) + k
    BY <1>1, <1>4, <2>1
  <2> QED BY <1>1, <2>1, <2>2
<1> QED BY <1>1, <1>2, <1>3, <1>4

\* What is in either part is in the whole.
LEMMA JoinedElems ==
  ASSUME NEW q, NEW ms, NEW r, Joined(q, ms, r)
  PROVE  /\ Elems(r) = Elems(q) \cup Elems(ms)
         /\ \A kind, i : Has(r, kind, i) <=> Has(q, kind, i) \/ Has(ms, kind, i)
         /\ \A kind : HasKind(r, kind) <=> HasKind(q, kind) \/ HasKind(ms, kind)
         /\ \A i : HasReply(r, i) <=> HasReply(q, i) \/ HasReply(ms, i)
         /\ \A i, s : HasChange(r, i, s) <=> HasChange(q, i, s) \/ HasChange(ms, i, s)
<1>1. Elems(r) = Elems(q) \cup Elems(ms)
  <2>1. \A n \in 1 .. Len(q) : q[n] \in Elems(r)
    BY JoinedIndex DEF Elems
  <2>2. \A n \in 1 .. Len(ms) : ms[n] \in Elems(r)
    BY JoinedIndex DEF Elems
  <2>3. \A n \in 1 .. Len(r) : r[n] \in Elems(q) \cup Elems(ms)
    BY JoinedIndex DEF Elems
  <2>4. Elems(q) \subseteq Elems(r) /\ Elems(ms) \subseteq Elems(r)
    BY <2>1, <2>2 DEF Elems
  <2>5. Elems(r) \subseteq Elems(q) \cup Elems(ms)
    BY <2>3 DEF Elems
  <2> QED BY <2>4, <2>5
<1> QED BY <1>1 DEF Has, HasKind, HasReply, HasChange

\* What ends a sequence ends its second part, or its first if the second does not undo it.
LEMMA JoinedEnds ==
  ASSUME NEW q, NEW ms, NEW r, Joined(q, ms, r), NEW on, NEW off, NEW i
  PROVE  /\ Ends(r, on, off, i)
              <=> Ends(ms, on, off, i) \/ (Ends(q, on, off, i) /\ ~Has(ms, off, i))
         /\ EndsSince(r, on, off, i)
              <=> \/ EndsSince(ms, on, off, i)
                  \/ EndsSince(q, on, off, i) /\ ~Has(ms, off, i) /\ ~HasKind(ms, "owner")
<1>1. /\ Len(q) \in Nat /\ Len(ms) \in Nat /\ Len(r) = Len(q) + Len(ms)
  BY DEF Joined
<1>2. ASSUME NEW n \in 1 .. Len(ms)
      PROVE  /\ Len(q) + n \in 1 .. Len(r) /\ r[Len(q) + n] = ms[n]
             /\ \A k \in n + 1 .. Len(ms) :
                  Len(q) + k \in Len(q) + n + 1 .. Len(r) /\ r[Len(q) + k] = ms[k]
             /\ \A k \in Len(q) + n + 1 .. Len(r) :
                  k - Len(q) \in n + 1 .. Len(ms) /\ r[k] = ms[k - Len(q)]
  <2>1. Len(q) + n \in 1 .. Len(r) /\ r[Len(q) + n] = ms[n]
    BY JoinedIndex
  <2>2. ASSUME NEW k \in n + 1 .. Len(ms)
        PROVE  Len(q) + k \in Len(q) + n + 1 .. Len(r) /\ r[Len(q) + k] = ms[k]
    <3>1. k \in 1 .. Len(ms) /\ Len(q) + k \in Len(q) + n + 1 .. Len(r)
      BY <1>1
    <3> QED BY <3>1, JoinedIndex
  <2>3. ASSUME NEW k \in Len(q) + n + 1 .. Len(r)
        PROVE  k - Len(q) \in n + 1 .. Len(ms) /\ r[k] = ms[k - Len(q)]
    <3>1. k \in 1 .. Len(r) /\ k \notin 1 .. Len(q) /\ k - Len(q) \in n + 1 .. Len(ms)
      BY <1>1
    <3> QED BY <3>1, JoinedIndex
  <2> QED BY <2>1, <2>2, <2>3
<1>3. ASSUME NEW n \in 1 .. Len(q)
      PROVE  /\ n \in 1 .. Len(r) /\ r[n] = q[n]
             /\ \A k \in n + 1 .. Len(q) : k \in n + 1 .. Len(r) /\ r[k] = q[k]
             /\ \A k \in 1 .. Len(ms) : Len(q) + k \in n + 1 .. Len(r) /\ r[Len(q) + k] = ms[k]
             /\ \A k \in n + 1 .. Len(r) :
                  \/ k \in n + 1 .. Len(q) /\ r[k] = q[k]
                  \/ k - Len(q) \in 1 .. Len(ms) /\ r[k] = ms[k - Len(q)]
  <2>1. n \in 1 .. Len(r) /\ r[n] = q[n]
    BY JoinedIndex
  <2>2. ASSUME NEW k \in n + 1 .. Len(q) PROVE k \in n + 1 .. Len(r) /\ r[k] = q[k]
    <3>1. k \in 1 .. Len(q) /\ k \in n + 1 .. Len(r)
      BY <1>1
    <3> QED BY <3>1, JoinedIndex
  <2>3. ASSUME NEW k \in 1 .. Len(ms)
        PROVE  Len(q) + k \in n + 1 .. Len(r) /\ r[Len(q) + k] = ms[k]
    <3>1. Len(q) + k \in n + 1 .. Len(r)
      BY <1>1
    <3> QED BY <3>1, JoinedIndex
  <2>4. ASSUME NEW k \in n + 1 .. Len(r)
        PROVE  \/ k \in n + 1 .. Len(q) /\ r[k] = q[k]
               \/ k - Len(q) \in 1 .. Len(ms) /\ r[k] = ms[k - Len(q)]
    <3>1. k \in 1 .. Len(r) /\ (k \in 1 .. Len(q) => k \in n + 1 .. Len(q))
      BY <1>1
    <3> QED BY <3>1, JoinedIndex
  <2> QED BY <2>1, <2>2, <2>3, <2>4
<1>4. \A n \in 1 .. Len(r) : \/ n \in 1 .. Len(q)
                             \/ n - Len(q) \in 1 .. Len(ms) /\ n = Len(q) + (n - Len(q))
  BY JoinedIndex
<1>5. ASSUME Ends(ms, on, off, i) PROVE Ends(r, on, off, i)
  BY <1>2, <1>5 DEF Ends
<1>6. ASSUME EndsSince(ms, on, off, i) PROVE EndsSince(r, on, off, i)
  <2>1. PICK n \in 1 .. Len(ms) :
          /\ Is(ms[n], on, i)
          /\ \A k \in n + 1 .. Len(ms) : ~Is(ms[k], off, i) /\ ms[k].kind # "owner"
    BY <1>6 DEF EndsSince
  <2>2. ASSUME NEW k \in Len(q) + n + 1 .. Len(r)
        PROVE  ~Is(r[k], off, i) /\ r[k].kind # "owner"
    <3>1. PICK j : j = k - Len(q)
      OBVIOUS
    <3>2. j \in n + 1 .. Len(ms) /\ r[k] = ms[j]
      BY <1>2, <3>1
    <3> QED BY <2>1, <3>2
  <2>3. Len(q) + n \in 1 .. Len(r) /\ Is(r[Len(q) + n], on, i)
    BY <1>2, <2>1
  <2> QED BY <2>2, <2>3 DEF EndsSince
<1>7. ASSUME Ends(q, on, off, i), ~Has(ms, off, i) PROVE Ends(r, on, off, i)
  <2>1. \A k \in 1 .. Len(ms) : ~Is(ms[k], off, i)
    BY <1>7 DEF Has, Elems
  <2>2. PICK n \in 1 .. Len(q) :
          Is(q[n], on, i) /\ \A k \in n + 1 .. Len(q) : ~Is(q[k], off, i)
    BY <1>7 DEF Ends
  <2>3. n \in 1 .. Len(r) /\ Is(r[n], on, i)
    BY <1>3, <2>2
  <2>4. ASSUME NEW k \in n + 1 .. Len(r) PROVE ~Is(r[k], off, i)
    BY <1>3, <2>1, <2>2
  <2> QED BY <2>3, <2>4 DEF Ends
<1>8. ASSUME EndsSince(q, on, off, i), ~Has(ms, off, i), ~HasKind(ms, "owner")
      PROVE  EndsSince(r, on, off, i)
  <2>1. \A k \in 1 .. Len(ms) : ~Is(ms[k], off, i) /\ ms[k].kind # "owner"
    BY <1>8 DEF Has, HasKind, Elems
  <2>2. PICK n \in 1 .. Len(q) :
          /\ Is(q[n], on, i)
          /\ \A k \in n + 1 .. Len(q) : ~Is(q[k], off, i) /\ q[k].kind # "owner"
    BY <1>8 DEF EndsSince
  <2>3. n \in 1 .. Len(r) /\ Is(r[n], on, i)
    BY <1>3, <2>2
  <2>4. ASSUME NEW k \in n + 1 .. Len(r) PROVE ~Is(r[k], off, i) /\ r[k].kind # "owner"
    <3>1. PICK j : j = k - Len(q)
      OBVIOUS
    <3>2. CASE k \in n + 1 .. Len(q) /\ r[k] = q[k]
      BY <2>2, <3>2
    <3>3. CASE j \in 1 .. Len(ms) /\ r[k] = ms[j]
      BY <2>1, <3>3
    <3> QED BY <1>3, <3>1, <3>2, <3>3
  <2> QED BY <2>3, <2>4 DEF EndsSince
<1>9. ASSUME Ends(r, on, off, i)
      PROVE  Ends(ms, on, off, i) \/ (Ends(q, on, off, i) /\ ~Has(ms, off, i))
  <2>1. PICK n \in 1 .. Len(r) :
          Is(r[n], on, i) /\ \A k \in n + 1 .. Len(r) : ~Is(r[k], off, i)
    BY <1>9 DEF Ends
  <2>2. CASE n \in 1 .. Len(q)
    <3>1. \A k \in 1 .. Len(ms) : ~Is(ms[k], off, i)
      BY <1>3, <2>1, <2>2
    <3> QED BY <1>3, <2>1, <2>2, <3>1 DEF Ends, Has, Elems
  <2>3. CASE n - Len(q) \in 1 .. Len(ms) /\ n = Len(q) + (n - Len(q))
    <3>1. PICK k \in 1 .. Len(ms) : n = Len(q) + k
      BY <2>3
    <3> QED BY <1>2, <2>1, <3>1 DEF Ends
  <2> QED BY <1>4, <2>2, <2>3
<1>10. ASSUME EndsSince(r, on, off, i)
       PROVE  \/ EndsSince(ms, on, off, i)
              \/ EndsSince(q, on, off, i) /\ ~Has(ms, off, i) /\ ~HasKind(ms, "owner")
  <2>1. PICK n \in 1 .. Len(r) :
          Is(r[n], on, i) /\ \A k \in n + 1 .. Len(r) : ~Is(r[k], off, i) /\ r[k].kind # "owner"
    BY <1>10 DEF EndsSince
  <2>2. CASE n \in 1 .. Len(q)
    <3>1. ASSUME NEW k \in 1 .. Len(ms) PROVE ~Is(ms[k], off, i) /\ ms[k].kind # "owner"
      BY <1>3, <2>1, <2>2
    <3>2. ~Has(ms, off, i) /\ ~HasKind(ms, "owner")
      BY <3>1 DEF Has, HasKind, Elems
    <3>3. ASSUME NEW k \in n + 1 .. Len(q) PROVE ~Is(q[k], off, i) /\ q[k].kind # "owner"
      BY <1>3, <2>1, <2>2
    <3>4. Is(q[n], on, i)
      BY <1>3, <2>1, <2>2
    <3>5. EndsSince(q, on, off, i)
      BY <2>2, <3>3, <3>4 DEF EndsSince
    <3> QED BY <3>2, <3>5
  <2>3. CASE n - Len(q) \in 1 .. Len(ms) /\ n = Len(q) + (n - Len(q))
    <3>1. PICK j \in 1 .. Len(ms) : n = Len(q) + j
      BY <2>3
    <3>2. Is(ms[j], on, i)
      BY <1>2, <2>1, <3>1
    <3>3. ASSUME NEW k \in j + 1 .. Len(ms) PROVE ~Is(ms[k], off, i) /\ ms[k].kind # "owner"
      <4>1. Len(q) + k \in n + 1 .. Len(r) /\ r[Len(q) + k] = ms[k]
        BY <1>2, <3>1
      <4> QED BY <2>1, <4>1
    <3>4. EndsSince(ms, on, off, i)
      BY <3>2, <3>3 DEF EndsSince
    <3> QED BY <3>4
  <2> QED BY <1>4, <2>2, <2>3
<1> QED BY <1>5, <1>6, <1>7, <1>8, <1>9, <1>10

\* Registrations stay announced when more is sent and when messages are read.
LEMMA JoinedAnnounced ==
  ASSUME NEW q, NEW ms, NEW r, Joined(q, ms, r)
  PROVE  /\ Announced(r) => Announced(q)
         /\ Announced(q) /\ (HasKind(q, "NameAcquired") \/ ~HasKind(ms, "register"))
              => Announced(r)
         /\ Announced(r) /\ ~HasKind(q, "NameAcquired") => Announced(ms)
<1>1. /\ Len(q) \in Nat /\ Len(ms) \in Nat /\ Len(r) = Len(q) + Len(ms)
  BY DEF Joined
<1>2. ASSUME NEW n \in 1 .. Len(q)
      PROVE  r[n] = q[n] /\ n \in 1 .. Len(r) /\ \A k \in 1 .. n - 1 : r[k] = q[k]
  <2>1. \A k \in 1 .. n - 1 : k \in 1 .. Len(q)
    BY <1>1
  <2> QED BY <2>1, JoinedIndex
<1>3. ASSUME Announced(r) PROVE Announced(q)
  BY <1>2, <1>3 DEF Announced
<1>4. ASSUME Announced(q), HasKind(q, "NameAcquired") \/ ~HasKind(ms, "register")
      PROVE  Announced(r)
  <2> SUFFICES ASSUME NEW n \in 1 .. Len(r), r[n].kind = "register"
               PROVE  \E k \in 1 .. n - 1 : r[k].kind = "NameAcquired"
    BY DEF Announced
  <2>1. CASE n \in 1 .. Len(q)
    BY <1>2, <1>4, <2>1 DEF Announced
  <2>2. CASE n \notin 1 .. Len(q)
    <3>1. n - Len(q) \in 1 .. Len(ms) /\ r[n] = ms[n - Len(q)]
      BY <2>2, JoinedIndex
    <3>2. HasKind(ms, "register")
      BY <3>1 DEF HasKind, Elems
    <3>3. PICK k \in 1 .. Len(q) : q[k].kind = "NameAcquired"
      BY <1>4, <3>2 DEF HasKind, Elems
    <3>4. k \in 1 .. n - 1
      BY <1>1, <2>2
    <3> QED BY <1>2, <3>3, <3>4
  <2> QED BY <2>1, <2>2
<1>5. ASSUME Announced(r), ~HasKind(q, "NameAcquired") PROVE Announced(ms)
  <2> SUFFICES ASSUME NEW n \in 1 .. Len(ms), ms[n].kind = "register"
               PROVE  \E k \in 1 .. n - 1 : ms[k].kind = "NameAcquired"
    BY DEF Announced
  <2>1. Len(q) + n \in 1 .. Len(r) /\ r[Len(q) + n] = ms[n]
    BY JoinedIndex
  <2>2. PICK k \in 1 .. Len(q) + n - 1 : r[k].kind = "NameAcquired"
    BY <1>5, <2>1 DEF Announced
  <2>3. k \in 1 .. Len(r)
    BY <1>1, <2>2
  <2>4. k \notin 1 .. Len(q)
    BY <1>2, <1>5, <2>2 DEF HasKind, Elems
  <2>5. k - Len(q) \in 1 .. Len(ms) /\ r[k] = ms[k - Len(q)]
    BY <2>3, <2>4, JoinedIndex
  <2>6. k - Len(q) \in 1 .. n - 1
    BY <1>1, <2>2, <2>5
  <2> QED BY <2>2, <2>5, <2>6
<1> QED BY <1>3, <1>4, <1>5

\* There is one reply in the whole if it is in one of the parts only.
LEMMA JoinedReplies ==
  ASSUME NEW q, NEW ms, NEW r, Joined(q, ms, r), NEW i
  PROVE  OneReply(r, i) <=>
           OneReply(q, i) /\ OneReply(ms, i) /\ ~(HasReply(q, i) /\ HasReply(ms, i))
<1>1. /\ Len(q) \in Nat /\ Len(ms) \in Nat /\ Len(r) = Len(q) + Len(ms)
  BY DEF Joined
<1>2. ASSUME OneReply(r, i) PROVE OneReply(q, i)
  BY <1>2, JoinedIndex DEF OneReply
<1>3. ASSUME OneReply(r, i) PROVE OneReply(ms, i)
  <2> SUFFICES ASSUME NEW m \in 1 .. Len(ms), NEW n \in 1 .. Len(ms),
                      IsReplyOf(ms[m], i), IsReplyOf(ms[n], i)
               PROVE  m = n
    BY DEF OneReply
  <2>1. Len(q) + m = Len(q) + n
    BY <1>3, JoinedIndex DEF OneReply
  <2> QED BY <1>1, <2>1
<1>4. ASSUME OneReply(r, i), HasReply(q, i), HasReply(ms, i) PROVE FALSE
  <2>1. PICK m \in 1 .. Len(q) : IsReplyOf(q[m], i)
    BY <1>4 DEF HasReply, Elems
  <2>2. PICK n \in 1 .. Len(ms) : IsReplyOf(ms[n], i)
    BY <1>4 DEF HasReply, Elems
  <2>3. m = Len(q) + n
    BY <1>4, <2>1, <2>2, JoinedIndex DEF OneReply
  <2> QED BY <1>1, <2>3
<1>5. ASSUME OneReply(q, i), OneReply(ms, i), ~(HasReply(q, i) /\ HasReply(ms, i))
      PROVE  OneReply(r, i)
  <2> SUFFICES ASSUME NEW m \in 1 .. Len(r), NEW n \in 1 .. Len(r),
                      IsReplyOf(r[m], i), IsReplyOf(r[n], i)
               PROVE  m = n
    BY DEF OneReply
  <2>1. \A k \in 1 .. Len(q) : IsReplyOf(q[k], i) => HasReply(q, i)
    BY DEF HasReply, Elems
  <2>2. \A k \in 1 .. Len(ms) : IsReplyOf(ms[k], i) => HasReply(ms, i)
    BY DEF HasReply, Elems
  <2>3. CASE m \in 1 .. Len(q) /\ r[m] = q[m] /\ n \in 1 .. Len(q) /\ r[n] = q[n]
    BY <1>5, <2>3 DEF OneReply
  <2>4. CASE /\ m - Len(q) \in 1 .. Len(ms) /\ r[m] = ms[m - Len(q)]
             /\ n - Len(q) \in 1 .. Len(ms) /\ r[n] = ms[n - Len(q)]
    <3>1. m - Len(q) = n - Len(q)
      BY <1>5, <2>4 DEF OneReply
    <3> QED BY <1>1, <3>1
  <2> QED BY <1>5, <2>1, <2>2, <2>3, <2>4, JoinedIndex
<1> QED BY <1>2, <1>3, <1>4, <1>5

\* What is outdated in the first part has its change in either.
LEMMA JoinedCurrent ==
  ASSUME NEW q, NEW ms, NEW r, Joined(q, ms, r), NEW i, NEW s, NEW c
  PROVE  Current(r, i, s, c) <=>
           Current(ms, i, s, c) /\ (HasChange(ms, i, s) \/ Current(q, i, s, c))
<1>1. /\ Len(q) \in Nat /\ Len(ms) \in Nat /\ Len(r) = Len(q) + Len(ms)
  BY DEF Joined
<1>2. ASSUME Current(r, i, s, c) PROVE Current(ms, i, s, c)
  <2> SUFFICES ASSUME NEW n \in 1 .. Len(ms), Outdated(ms[n], i, s, c)
               PROVE  \E k \in n + 1 .. Len(ms) : IsChange(ms[k], i, s)
    BY DEF Current
  <2>1. Len(q) + n \in 1 .. Len(r) /\ r[Len(q) + n] = ms[n]
    BY JoinedIndex
  <2>2. PICK k \in Len(q) + n + 1 .. Len(r) : IsChange(r[k], i, s)
    BY <1>2, <2>1 DEF Current
  <2>3. k \in 1 .. Len(r) /\ k \notin 1 .. Len(q)
    BY <1>1, <2>2
  <2>4. r[k] = ms[k - Len(q)]
    BY <2>3, JoinedIndex
  <2>5. k - Len(q) \in n + 1 .. Len(ms)
    BY <1>1, <2>2, <2>3
  <2> QED BY <2>2, <2>4, <2>5
<1>3. ASSUME Current(r, i, s, c), ~HasChange(ms, i, s) PROVE Current(q, i, s, c)
  <2> SUFFICES ASSUME NEW n \in 1 .. Len(q), Outdated(q[n], i, s, c)
               PROVE  \E k \in n + 1 .. Len(q) : IsChange(q[k], i, s)
    BY DEF Current
  <2>1. PICK k \in n + 1 .. Len(r) : IsChange(r[k], i, s)
    BY <1>3, JoinedIndex DEF Current
  <2>2. k \in 1 .. Len(r)
    BY <1>1, <2>1
  <2>3. CASE k \in 1 .. Len(q) /\ r[k] = q[k]
    BY <2>1, <2>3
  <2>4. CASE k - Len(q) \in 1 .. Len(ms) /\ r[k] = ms[k - Len(q)]
    BY <1>3, <2>1, <2>4 DEF HasChange, Elems
  <2> QED BY <2>2, <2>3, <2>4, JoinedIndex
<1>4. ASSUME Current(ms, i, s, c), HasChange(ms, i, s) \/ Current(q, i, s, c)
      PROVE  Current(r, i, s, c)
  <2> SUFFICES ASSUME NEW n \in 1 .. Len(r), Outdated(r[n], i, s, c)
               PROVE  \E k \in n + 1 .. Len(r) : IsChange(r[k], i, s)
    BY DEF Current
  <2>1. CASE n \in 1 .. Len(q) /\ r[n] = q[n] /\ HasChange(ms, i, s)
    <3>1. PICK k \in 1 .. Len(ms) : IsChange(ms[k], i, s)
      BY <2>1 DEF HasChange, Elems
    <3>2. r[Len(q) + k] = ms[k]
      BY <3>1, JoinedIndex
    <3>3. Len(q) + k \in n + 1 .. Len(r)
      BY <1>1, <2>1, <3>1
    <3> QED BY <3>1, <3>2, <3>3
  <2>2. CASE n \in 1 .. Len(q) /\ r[n] = q[n] /\ Current(q, i, s, c)
    <3>1. PICK k \in n + 1 .. Len(q) : IsChange(q[k], i, s)
      BY <2>2 DEF Current
    <3>2. k \in 1 .. Len(q) /\ k \in n + 1 .. Len(r)
      BY <1>1, <2>2, <3>1
    <3> QED BY <3>1, <3>2, JoinedIndex
  <2>3. CASE n - Len(q) \in 1 .. Len(ms) /\ r[n] = ms[n - Len(q)]
    <3>1. PICK j \in 1 .. Len(ms) : j = n - Len(q)
      BY <2>3
    <3>2. PICK k \in j + 1 .. Len(ms) : IsChange(ms[k], i, s)
      BY <1>4, <2>3, <3>1 DEF Current
    <3>3. k \in 1 .. Len(ms) /\ Len(q) + k \in n + 1 .. Len(r)
      BY <1>1, <3>1, <3>2
    <3> QED BY <3>2, <3>3, JoinedIndex
  <2> QED BY <1>4, <2>1, <2>2, <2>3, JoinedIndex
<1> QED BY <1>2, <1>3, <1>4

\* A message alone, and none.
LEMMA AloneIs ==
  ASSUME NEW m
  PROVE  /\ Elems(<<m>>) = {m}
         /\ \A kind, i : Has(<<m>>, kind, i) <=> Is(m, kind, i)
         /\ \A kind : HasKind(<<m>>, kind) <=> m.kind = kind
         /\ \A i : HasReply(<<m>>, i) <=> IsReplyOf(m, i)
         /\ \A i, s : HasChange(<<m>>, i, s) <=> IsChange(m, i, s)
         /\ \A on, off, i : Ends(<<m>>, on, off, i) <=> Is(m, on, i)
         /\ \A on, off, i : EndsSince(<<m>>, on, off, i) <=> Is(m, on, i)
         /\ Announced(<<m>>) <=> m.kind # "register"
         /\ \A i : OneReply(<<m>>, i)
         /\ \A i, s, c : Current(<<m>>, i, s, c) <=> ~Outdated(m, i, s, c)
<1> DEFINE q == <<m>>
<1>1. Len(q) = 1 /\ q[1] = m /\ 1 .. 1 = {1} /\ 1 + 1 .. 1 = {} /\ 1 .. 1 - 1 = {}
  OBVIOUS
<1> HIDE DEF q
<1>2. Elems(q) = {m}
  BY <1>1 DEF Elems
<1>3. \A kind, i : Has(q, kind, i) <=> Is(m, kind, i)
  BY <1>2 DEF Has
<1>4. \A kind : HasKind(q, kind) <=> m.kind = kind
  BY <1>2 DEF HasKind
<1>5. \A i : HasReply(q, i) <=> IsReplyOf(m, i)
  BY <1>2 DEF HasReply
<1>6. \A i, s : HasChange(q, i, s) <=> IsChange(m, i, s)
  BY <1>2 DEF HasChange
<1>7. \A on, off, i : Ends(q, on, off, i) <=> Is(m, on, i)
  BY <1>1 DEF Ends
<1>8. \A on, off, i : EndsSince(q, on, off, i) <=> Is(m, on, i)
  BY <1>1 DEF EndsSince
<1>9. Announced(q) <=> m.kind # "register"
  BY <1>1 DEF Announced
<1>10. \A i : OneReply(q, i)
  BY <1>1 DEF OneReply
<1>11. \A i, s, c : Current(q, i, s, c) <=> ~Outdated(m, i, s, c)
  BY <1>1 DEF Current
<1> QED BY <1>2, <1>3, <1>4, <1>5, <1>6, <1>7, <1>8, <1>9, <1>10, <1>11 DEF q

\* The same of no messages.
LEMMA NothingIs ==
  /\ Elems(<<>>) = {} /\ Announced(<<>>)
  /\ \A kind, i : ~Has(<<>>, kind, i)
  /\ \A kind : ~HasKind(<<>>, kind)
  /\ \A i : ~HasReply(<<>>, i) /\ OneReply(<<>>, i)
  /\ \A i, s : ~HasChange(<<>>, i, s)
  /\ \A on, off, i : ~Ends(<<>>, on, off, i) /\ ~EndsSince(<<>>, on, off, i)
  /\ \A i, s, c : Current(<<>>, i, s, c)
<1>1. 1 .. Len(<<>>) = {}
  OBVIOUS
<1> QED BY <1>1 DEF Elems, Announced, Has, HasKind, HasReply, OneReply, HasChange, Ends,
           EndsSince, Current

\* What q says last of i, if anything, is on or off.
LEMMA OneEnds ==
  ASSUME NEW q, IsSeq(q), NEW on, NEW off, NEW i, Has(q, off, i)
  PROVE  Ends(q, on, off, i) \/ Ends(q, off, on, i)
<1> DEFINE last(n) == Is(q[n], off, i) /\ \A k \in n + 1 .. Len(q) : ~Is(q[k], off, i)
<1>1. Len(q) \in Nat
  BY DEF IsSeq
<1>2. PICK n \in 1 .. Len(q) : last(n)
  <2> DEFINE I == {j \in 0 .. Len(q) - 1 : Is(q[Len(q) - j], off, i)}
  <2>1. PICK n \in 1 .. Len(q) : Is(q[n], off, i)
    BY DEF Has, Elems
  <2>2. Len(q) - n \in I /\ I \in SUBSET Nat
    BY <1>1, <2>1
  <2>3. PICK x \in I : \A y \in I : x <= y
    BY <2>2, LeastNatural
  <2>4. x \in 0 .. Len(q) - 1 /\ Is(q[Len(q) - x], off, i)
    BY <2>3
  <2>5. ASSUME NEW k \in Len(q) - x + 1 .. Len(q) PROVE ~Is(q[k], off, i)
    <3>1. PICK j : j = Len(q) - k
      OBVIOUS
    <3>2. j \in 0 .. Len(q) - 1 /\ ~(x <= j) /\ Len(q) - j = k
      BY <1>1, <2>4, <3>1
    <3>3. j \notin I
      BY <2>3, <3>2
    <3> QED BY <3>2, <3>3
  <2>6. Len(q) - x \in 1 .. Len(q)
    BY <1>1, <2>4
  <2> QED BY <2>4, <2>5, <2>6
<1>3. CASE \A k \in n + 1 .. Len(q) : ~Is(q[k], on, i)
  BY <1>2, <1>3 DEF Ends
<1>4. ASSUME NEW k \in n + 1 .. Len(q), Is(q[k], on, i) PROVE Ends(q, on, off, i)
  <2>1. k \in 1 .. Len(q) /\ \A j \in k + 1 .. Len(q) : j \in n + 1 .. Len(q)
    BY <1>1
  <2> QED BY <1>2, <1>4, <2>1 DEF Ends
<1> QED BY <1>3, <1>4

\* There is no telling when the watcher has not changed.
LEMMA EndsSinceIs ==
  ASSUME NEW q, NEW on, NEW off, NEW i
  PROVE  /\ EndsSince(q, on, off, i) => Ends(q, on, off, i)
         /\ ~HasKind(q, "owner") /\ Len(q) \in Nat /\ Ends(q, on, off, i)
              => EndsSince(q, on, off, i)
<1>1. EndsSince(q, on, off, i) => Ends(q, on, off, i)
  BY DEF Ends, EndsSince
<1>2. ASSUME ~HasKind(q, "owner"), Len(q) \in Nat, Ends(q, on, off, i)
      PROVE  EndsSince(q, on, off, i)
  <2>1. PICK n \in 1 .. Len(q) :
          Is(q[n], on, i) /\ \A k \in n + 1 .. Len(q) : ~Is(q[k], off, i)
    BY <1>2 DEF Ends
  <2>2. \A k \in n + 1 .. Len(q) : k \in 1 .. Len(q)
    BY <1>2
  <2>3. \A k \in 1 .. Len(q) : q[k].kind # "owner"
    BY <1>2 DEF HasKind, Elems
  <2> QED BY <2>1, <2>2, <2>3 DEF EndsSince
<1> QED BY <1>1, <1>2

(***************************************************************************)
(* Cancelled calls and calls that fail.                                    *)
(***************************************************************************)
\* What is said of the programs and of the watcher.
OfItems == {"vanished", "register", "registered", "unregistered", "NewIcon"}
News == OfItems \cup {"owner", "NameAcquired"}

\* r says the same as q, apart from replies.
SameNews(q, r) ==
  /\ \A kind \in News : HasKind(r, kind) <=> HasKind(q, kind)
  /\ \A kind \in OfItems : \A i : Has(r, kind, i) <=> Has(q, kind, i)
  /\ \A i, s : HasChange(r, i, s) <=> HasChange(q, i, s)
  /\ \A on, off \in OfItems : \A i :
       /\ Ends(r, on, off, i) <=> Ends(q, on, off, i)
       /\ EndsSince(r, on, off, i) <=> EndsSince(q, on, off, i)
  /\ Announced(r) <=> Announced(q)

\* r is q with the replies to some calls unexpected.
Muted(q, C, r) ==
  /\ Len(q) \in Nat /\ Len(r) = Len(q)
  /\ \A n \in 1 .. Len(q) :
       \/ (\A i \in C : ~IsReplyOf(q[n], i)) /\ r[n] = q[n]
       \/ (\E i \in C : IsReplyOf(q[n], i)) /\ r[n] = Message("unexpected")

\* That is what Without does.
LEMMA WithoutIs ==
  ASSUME NEW q, IsSeq(q), NEW C
  PROVE  IsSeq(Without(q, C)) /\ Muted(q, C, Without(q, C))
<1>0. PICK S : q \in Seq(S)
  BY DEF IsSeq
<1> DEFINE U == S \cup {Message("unexpected")}
<1>1. DOMAIN q = 1 .. Len(q) /\ Len(q) \in Nat /\ \A n \in 1 .. Len(q) : q[n] \in S
  BY <1>0
<1>2. Without(q, C) \in [1 .. Len(q) -> U]
  BY <1>1 DEF Without
<1>3. Without(q, C) \in Seq(U)
  BY <1>1, <1>2
<1>4. DOMAIN Without(q, C) = 1 .. Len(q) /\ Len(Without(q, C)) = Len(q)
  BY <1>1, <1>2, <1>3, LenProperties
<1>5. \A n \in 1 .. Len(q) :
        Without(q, C)[n] = IF \E i \in C : IsReplyOf(q[n], i)
                           THEN Message("unexpected") ELSE q[n]
  BY <1>1 DEF Without
<1> QED BY <1>1, <1>3, <1>4, <1>5 DEF Muted, IsSeq

\* No news are lost with the replies.
LEMMA MutedNews ==
  ASSUME NEW q, NEW C, NEW r, Muted(q, C, r)
  PROVE  SameNews(q, r)
<1> DEFINE same(m, n) ==
      /\ \A kind \in News : m.kind = kind <=> n.kind = kind
      /\ \A kind \in OfItems : \A i : Is(m, kind, i) <=> Is(n, kind, i)
      /\ \A i, s : IsChange(m, i, s) <=> IsChange(n, i, s)
<1>1. Len(q) \in Nat /\ Len(r) = Len(q)
  BY DEF Muted
<1>2. ASSUME NEW n \in 1 .. Len(q) PROVE same(r[n], q[n])
  <2>1. CASE r[n] = q[n]
    BY <2>1
  <2>2. CASE (\E i \in C : IsReplyOf(q[n], i)) /\ r[n] = Message("unexpected")
    <3>1. q[n].kind \notin News /\ r[n].kind \notin News
      BY <2>2 DEF IsReplyOf, Message, News, OfItems
    <3> QED BY <3>1 DEF Is, IsChange, News, OfItems
  <2> QED BY <2>1, <2>2 DEF Muted
<1>3. \A n \in 1 .. Len(q) : \A k \in n + 1 .. Len(q) : k \in 1 .. Len(q)
  BY <1>1
<1>4. \A n \in 1 .. Len(q) : \A k \in 1 .. n - 1 : k \in 1 .. Len(q)
  BY <1>1
<1>5. \A kind \in News : HasKind(r, kind) <=> HasKind(q, kind)
  BY <1>1, <1>2 DEF HasKind, Elems
<1>6. \A kind \in OfItems : \A i : Has(r, kind, i) <=> Has(q, kind, i)
  BY <1>1, <1>2 DEF Has, Elems
<1>7. \A i, s : HasChange(r, i, s) <=> HasChange(q, i, s)
  BY <1>1, <1>2 DEF HasChange, Elems
<1>8. ASSUME NEW on \in OfItems, NEW off \in OfItems, NEW i
      PROVE  /\ Ends(r, on, off, i) <=> Ends(q, on, off, i)
             /\ EndsSince(r, on, off, i) <=> EndsSince(q, on, off, i)
  <2>1. \A n \in 1 .. Len(q) :
          /\ Is(r[n], on, i) <=> Is(q[n], on, i)
          /\ Is(r[n], off, i) <=> Is(q[n], off, i)
          /\ r[n].kind = "owner" <=> q[n].kind = "owner"
    BY <1>2 DEF News
  <2>2. Ends(r, on, off, i) <=> Ends(q, on, off, i)
    BY <1>1, <1>3, <2>1 DEF Ends
  <2>3. EndsSince(r, on, off, i) <=> EndsSince(q, on, off, i)
    BY <1>1, <1>3, <2>1 DEF EndsSince
  <2> QED BY <2>2, <2>3
<1>9. Announced(r) <=> Announced(q)
  <2>1. \A n \in 1 .. Len(q) :
          /\ r[n].kind = "register" <=> q[n].kind = "register"
          /\ r[n].kind = "NameAcquired" <=> q[n].kind = "NameAcquired"
    BY <1>2 DEF News, OfItems
  <2> QED BY <1>1, <1>4, <2>1 DEF Announced
<1> QED BY <1>5, <1>6, <1>7, <1>8, <1>9 DEF SameNews

\* The replies of cancelled calls are, and no others.
LEMMA MutedReplies ==
  ASSUME NEW q, NEW C, NEW r, Muted(q, C, r)
  PROVE  /\ \A i : HasReply(r, i) <=> HasReply(q, i) /\ i \notin C
         /\ \A i : Has(r, "error", i) => Has(q, "error", i) /\ i \notin C
         /\ \A i : OneReply(q, i) => OneReply(r, i)
         /\ \A i, s, c : Current(q, i, s, c) => Current(r, i, s, c)
         /\ Elems(r) \subseteq Elems(q) \cup {Message("unexpected")}
<1>1. Len(q) \in Nat /\ Len(r) = Len(q)
  BY DEF Muted
<1>2. ASSUME NEW n \in 1 .. Len(q)
      PROVE  \/ (\A i \in C : ~IsReplyOf(q[n], i)) /\ r[n] = q[n]
             \/ (\E i \in C : IsReplyOf(q[n], i)) /\ r[n] = Message("unexpected")
  BY DEF Muted
<1>3. ASSUME NEW n \in 1 .. Len(q), NEW i
      PROVE  /\ IsReplyOf(r[n], i) <=> IsReplyOf(q[n], i) /\ i \notin C
             /\ Is(r[n], "error", i) => Is(q[n], "error", i) /\ i \notin C
  <2>1. \A k : IsReplyOf(q[n], k) /\ IsReplyOf(q[n], i) => k = i
    BY DEF IsReplyOf
  <2>2. ~IsReplyOf(Message("unexpected"), i) /\ ~Is(Message("unexpected"), "error", i)
    BY DEF IsReplyOf, Is, Message
  <2>3. Is(q[n], "error", i) => IsReplyOf(q[n], i)
    BY DEF IsReplyOf, Is
  <2>4. CASE (\A k \in C : ~IsReplyOf(q[n], k)) /\ r[n] = q[n]
    BY <2>3, <2>4
  <2>5. CASE (\E k \in C : IsReplyOf(q[n], k)) /\ r[n] = Message("unexpected")
    BY <2>1, <2>2, <2>5
  <2> QED BY <1>2, <2>4, <2>5
<1>4. ASSUME NEW i PROVE HasReply(r, i) <=> HasReply(q, i) /\ i \notin C
  BY <1>1, <1>3 DEF HasReply, Elems
<1>5. ASSUME NEW i PROVE Has(r, "error", i) => Has(q, "error", i) /\ i \notin C
  BY <1>1, <1>3 DEF Has, Elems
<1>6. ASSUME NEW i, OneReply(q, i) PROVE OneReply(r, i)
  BY <1>1, <1>3, <1>6 DEF OneReply
<1>7. ASSUME NEW i, NEW s, NEW c, Current(q, i, s, c) PROVE Current(r, i, s, c)
  <2> SUFFICES ASSUME NEW n \in 1 .. Len(r), Outdated(r[n], i, s, c)
               PROVE  \E k \in n + 1 .. Len(r) : IsChange(r[k], i, s)
    BY DEF Current
  <2>1. ~Outdated(Message("unexpected"), i, s, c)
    BY DEF Outdated, Is, Message
  <2>2. Outdated(q[n], i, s, c)
    BY <1>1, <1>2, <2>1
  <2>3. PICK k \in n + 1 .. Len(q) : IsChange(q[k], i, s)
    BY <1>1, <1>7, <2>2 DEF Current
  <2>4. k \in 1 .. Len(q) /\ k \in n + 1 .. Len(r)
    BY <1>1, <2>3
  <2>5. \A j : ~IsReplyOf(q[k], j)
    BY <2>3 DEF IsChange, Is, IsReplyOf
  <2> QED BY <1>2, <2>3, <2>4, <2>5
<1>8. ASSUME NEW n \in 1 .. Len(r) PROVE r[n] \in Elems(q) \cup {Message("unexpected")}
  BY <1>1, <1>2 DEF Elems
<1>9. Elems(r) \subseteq Elems(q) \cup {Message("unexpected")}
  BY <1>8 DEF Elems
<1> QED BY <1>4, <1>5, <1>6, <1>7, <1>9

\* The errors of calls of programs that have left the bus.
LEMMA ErrorsIs ==
  ASSUME NEW is \in SUBSET Item
  PROVE  /\ IsSeq(Errors(is))
         /\ Elems(Errors(is)) = {About("error", i) : i \in is \ alive}
         /\ \A i : OneReply(Errors(is), i)
<1> DEFINE D == is \ alive
           E == {About("error", i) : i \in D}
           s == Errors(is)
<1>1. \A i, j : About("error", i) = About("error", j) => i = j
  BY DEF About
<1>2. IsFiniteSet(E)
  <2> DEFINE f == [i \in D |-> About("error", i)]
  <2>1. IsFiniteSet(D)
    BY ConstantsOK, FS_Subset
  <2>2. f \in Surjection(D, E)
    BY DEF Surjection
  <2> QED BY <2>1, <2>2, FS_Surjection
<1>3. s = SetToSeq(E)
  BY DEF Errors
<1>4. s \in Seq(E) /\ ToSet(s) = E /\ Once(s)
  BY <1>2, <1>3, SetToSeqFacts
<1> HIDE DEF s
<1>5. DOMAIN s = 1 .. Len(s)
  BY <1>4
<1>6. Elems(s) = E
  BY <1>4, <1>5 DEF Elems, ToSet
<1>7. ASSUME NEW i PROVE OneReply(s, i)
  <2> SUFFICES ASSUME NEW m \in 1 .. Len(s), NEW n \in 1 .. Len(s),
                      IsReplyOf(s[m], i), IsReplyOf(s[n], i)
               PROVE  m = n
    BY DEF OneReply
  <2>1. PICK j \in D, k \in D : s[m] = About("error", j) /\ s[n] = About("error", k)
    BY <1>4
  <2>2. j = i /\ k = i
    BY <2>1 DEF IsReplyOf, About
  <2> QED BY <1>4, <1>5, <2>1, <2>2 DEF Once
<1> QED BY <1>4, <1>6, <1>7 DEF s, IsSeq

\* They are errors, and say nothing else.
LEMMA ErrorsFacts ==
  ASSUME NEW is \in SUBSET Item
  PROVE  LET s == Errors(is)
         IN /\ \A i : Has(s, "error", i) <=> i \in is \ alive
            /\ \A i : HasReply(s, i) <=> i \in is \ alive
            /\ \A kind \in News : ~HasKind(s, kind)
            /\ \A kind \in OfItems : \A i : ~Has(s, kind, i)
            /\ \A i, c : ~HasChange(s, i, c)
            /\ \A on \in OfItems : \A off, i : ~Ends(s, on, off, i) /\ ~EndsSince(s, on, off, i)
            /\ \A i, t, c : Current(s, i, t, c)
<1> DEFINE s == Errors(is)
<1>1. Elems(s) = {About("error", i) : i \in is \ alive}
  BY ErrorsIs
<1> HIDE DEF s
<1>2. \A i, j, kind : /\ Is(About("error", j), "error", i) <=> i = j
                      /\ IsReplyOf(About("error", j), i) <=> i = j
                      /\ About("error", j).kind = "error"
  BY DEF Is, About, IsReplyOf
<1>3. \A m \in Elems(s) : m.kind = "error"
  BY <1>1, <1>2
<1>4. \A i : Has(s, "error", i) <=> i \in is \ alive
  BY <1>1, <1>2 DEF Has
<1>5. \A i : HasReply(s, i) <=> i \in is \ alive
  BY <1>1, <1>2 DEF HasReply
<1>6. \A kind \in News : ~HasKind(s, kind)
  BY <1>3 DEF HasKind, News, OfItems
<1>7. \A kind \in OfItems : \A i : ~Has(s, kind, i)
  BY <1>3 DEF Has, OfItems, Is
<1>8. \A i, c : ~HasChange(s, i, c)
  BY <1>3 DEF HasChange, IsChange, Is
<1>9. \A n \in 1 .. Len(s) : s[n].kind = "error"
  BY <1>3 DEF Elems
<1>10. \A on \in OfItems : \A off, i : ~Ends(s, on, off, i) /\ ~EndsSince(s, on, off, i)
  BY <1>9 DEF Ends, EndsSince, Is, OfItems
<1>11. \A i, t, c : Current(s, i, t, c)
  BY <1>9 DEF Current, Outdated, Is
<1> QED BY <1>4, <1>5, <1>6, <1>7, <1>8, <1>10, <1>11 DEF s

\* r is what cancelling some calls and making others leaves of q.
Refetched(q, C, new, r) == r = Without(q, C) \o Errors(new)

\* It changes replies only.
LEMMA RefetchIs ==
  ASSUME NEW q, IsSeq(q), NEW C, NEW new \in SUBSET Item,
         NEW r, Refetched(q, C, new, r)
  PROVE  /\ IsSeq(r)
         /\ SameNews(q, r)
         /\ \A i : HasReply(r, i) <=> (HasReply(q, i) /\ i \notin C) \/ i \in new \ alive
         /\ \A i : Has(r, "error", i) => (Has(q, "error", i) /\ i \notin C) \/ i \in new \ alive
         /\ \A i : OneReply(q, i) /\ (i \in new => ~HasReply(q, i) \/ i \in C) => OneReply(r, i)
         /\ \A i, s, c : Current(q, i, s, c) => Current(r, i, s, c)
         /\ Elems(r) \subseteq Elems(q) \cup {Message("unexpected")}
                                 \cup {About("error", i) : i \in new}
<1> DEFINE v == Without(q, C)
           e == Errors(new)
<1>1. IsSeq(v) /\ Muted(q, C, v)
  BY WithoutIs
<1>2. /\ IsSeq(e)
      /\ Elems(e) = {About("error", i) : i \in new \ alive}
      /\ \A i : OneReply(e, i)
  BY ErrorsIs
<1>3. /\ \A i : Has(e, "error", i) <=> i \in new \ alive
      /\ \A i : HasReply(e, i) <=> i \in new \ alive
      /\ \A kind \in News : ~HasKind(e, kind)
      /\ \A kind \in OfItems : \A i : ~Has(e, kind, i)
      /\ \A i, c : ~HasChange(e, i, c)
      /\ \A on \in OfItems : \A off, i : ~Ends(e, on, off, i) /\ ~EndsSince(e, on, off, i)
      /\ \A i, t, c : Current(e, i, t, c)
  BY ErrorsFacts
<1> HIDE DEF v, e
<1>4. IsSeq(r) /\ Joined(v, e, r)
  BY <1>1, <1>2, JoinedIs DEF v, e, Refetched
<1>5. SameNews(q, v)
  BY <1>1, MutedNews
<1>6. /\ \A i : HasReply(v, i) <=> HasReply(q, i) /\ i \notin C
      /\ \A i : Has(v, "error", i) => Has(q, "error", i) /\ i \notin C
      /\ \A i : OneReply(q, i) => OneReply(v, i)
      /\ \A i, s, c : Current(q, i, s, c) => Current(v, i, s, c)
      /\ Elems(v) \subseteq Elems(q) \cup {Message("unexpected")}
  BY <1>1, MutedReplies
<1>7. /\ Elems(r) = Elems(v) \cup Elems(e)
      /\ \A kind, i : Has(r, kind, i) <=> Has(v, kind, i) \/ Has(e, kind, i)
      /\ \A kind : HasKind(r, kind) <=> HasKind(v, kind) \/ HasKind(e, kind)
      /\ \A i : HasReply(r, i) <=> HasReply(v, i) \/ HasReply(e, i)
      /\ \A i, s : HasChange(r, i, s) <=> HasChange(v, i, s) \/ HasChange(e, i, s)
  BY <1>4, JoinedElems
<1>8. SameNews(q, r)
  <2>1. \A kind \in News : HasKind(r, kind) <=> HasKind(q, kind)
    BY <1>3, <1>5, <1>7 DEF SameNews
  <2>2. \A kind \in OfItems : \A i : Has(r, kind, i) <=> Has(q, kind, i)
    BY <1>3, <1>5, <1>7 DEF SameNews
  <2>3. \A i, s : HasChange(r, i, s) <=> HasChange(q, i, s)
    BY <1>3, <1>5, <1>7 DEF SameNews
  <2>4. ASSUME NEW on \in OfItems, NEW off \in OfItems, NEW i
        PROVE  /\ Ends(r, on, off, i) <=> Ends(q, on, off, i)
               /\ EndsSince(r, on, off, i) <=> EndsSince(q, on, off, i)
    <3>1. ~Has(e, off, i) /\ ~HasKind(e, "owner") /\ ~Ends(e, on, off, i)
          /\ ~EndsSince(e, on, off, i)
      BY <1>3 DEF News
    <3>2. /\ Ends(r, on, off, i) <=> Ends(v, on, off, i)
          /\ EndsSince(r, on, off, i) <=> EndsSince(v, on, off, i)
      BY <1>4, <3>1, JoinedEnds
    <3> QED BY <1>5, <3>2 DEF SameNews
  <2>5. Announced(r) <=> Announced(q)
    <3>1. ~HasKind(e, "register")
      BY <1>3 DEF News, OfItems
    <3> QED BY <1>4, <1>5, <3>1, JoinedAnnounced DEF SameNews
  <2> QED BY <2>1, <2>2, <2>3, <2>4, <2>5 DEF SameNews
<1>9. ASSUME NEW i, OneReply(q, i), i \in new => ~HasReply(q, i) \/ i \in C
      PROVE  OneReply(r, i)
  BY <1>2, <1>3, <1>4, <1>6, <1>9, JoinedReplies
<1>10. ASSUME NEW i, NEW s, NEW c, Current(q, i, s, c) PROVE Current(r, i, s, c)
  BY <1>3, <1>4, <1>6, <1>10, JoinedCurrent
<1>11. Elems(r) \subseteq Elems(q) \cup {Message("unexpected")}
                             \cup {About("error", i) : i \in new}
  BY <1>2, <1>6, <1>7
<1> QED BY <1>3, <1>4, <1>6, <1>7, <1>8, <1>9, <1>10, <1>11

(***************************************************************************)
(* The steps of the tray and what the bus sends it.                        *)
(***************************************************************************)
AboutItems == OfItems \cup {"error", "properties"}

\* Messages about items are about items.
ItemsOK(q) ==
  \A m \in Elems(q) : /\ m.kind \in AboutItems => m.item \in Item
                      /\ m.kind = "properties" => m.sender \in Nat

\* What the tray keeps, and what it is sent.
TrayTyped ==
  /\ IsSeq(inbox)
  /\ ItemsOK(inbox)
  /\ items \subseteq Item
  /\ owner \in [Item -> Nat \cup {None}]
  /\ fetch \in [Item -> {"no", "sent", "answered"}]
  /\ DOMAIN shown = Item

Types ==
  /\ TrayTyped
  /\ line \in Seq(Watcher \cup {Tray})
  /\ mode \in {"Disconnected", "Watcher", "Host"}
  /\ get \in {"no", "asked", "self", "answered", "error"}
  /\ needsRefresh \in BOOLEAN /\ unanswered \in BOOLEAN
  /\ ids \subseteq Item /\ theirs \subseteq Item
  /\ alive \subseteq Item /\ due \subseteq alive
  /\ instance \in [Item -> Nat]
  /\ DOMAIN icon = Item

\* While the tray is not on the bus.
Offline ==
  mode = "Disconnected" => get = "no" /\ inbox = <<>> /\ items = {}

\* The items' replies.
Replies ==
  \A i \in Item : /\ fetch[i] = "answered" <=> HasReply(inbox, i)
                  /\ fetch[i] # "no" => i \in items
                  /\ OneReply(inbox, i)

\* The fields of messages.
LEMMA MessagesAre ==
  /\ \A kind : Message(kind).kind = kind
  /\ \A kind, i : About(kind, i).kind = kind /\ About(kind, i).item = i
  /\ \A new : NameOwnerChanged(new).kind = "owner"
  /\ \A i : /\ NewIcon(i).kind = "NewIcon" /\ NewIcon(i).item = i
            /\ NewIcon(i).sender = instance[i]
            /\ Properties(i).kind = "properties" /\ Properties(i).item = i
            /\ Properties(i).sender = instance[i] /\ Properties(i).icon = icon[i]
BY DEF Message, About, NameOwnerChanged, NewIcon, Properties

\* Reading m leaves rest.
LEMMA ReadIs ==
  ASSUME NEW q, NEW m, NEW rest, Joined(<<m>>, rest, q)
  PROVE  /\ Elems(q) = {m} \cup Elems(rest)
         /\ \A kind, i : Has(q, kind, i) <=> Is(m, kind, i) \/ Has(rest, kind, i)
         /\ \A kind : HasKind(q, kind) <=> m.kind = kind \/ HasKind(rest, kind)
         /\ \A i : HasReply(q, i) <=> IsReplyOf(m, i) \/ HasReply(rest, i)
         /\ \A i, s : HasChange(q, i, s) <=> IsChange(m, i, s) \/ HasChange(rest, i, s)
         /\ \A on, off, i :
              /\ Ends(q, on, off, i)
                   <=> Ends(rest, on, off, i) \/ (Is(m, on, i) /\ ~Has(rest, off, i))
              /\ EndsSince(q, on, off, i)
                   <=> \/ EndsSince(rest, on, off, i)
                       \/ Is(m, on, i) /\ ~Has(rest, off, i) /\ ~HasKind(rest, "owner")
         /\ Announced(q) => m.kind # "register"
         /\ Announced(q) /\ m.kind # "NameAcquired" => Announced(rest)
         /\ \A i : OneReply(q, i) => OneReply(rest, i) /\ ~(IsReplyOf(m, i) /\ HasReply(rest, i))
         /\ \A i, s, c : Current(q, i, s, c) =>
              Current(rest, i, s, c) /\ (HasChange(rest, i, s) \/ ~Outdated(m, i, s, c))
<1>1. PICK a : a = <<m>>
  OBVIOUS
<1>2. /\ Elems(a) = {m}
      /\ \A kind, i : Has(a, kind, i) <=> Is(m, kind, i)
      /\ \A kind : HasKind(a, kind) <=> m.kind = kind
      /\ \A i : HasReply(a, i) <=> IsReplyOf(m, i)
      /\ \A i, s : HasChange(a, i, s) <=> IsChange(m, i, s)
      /\ \A on, off, i : Ends(a, on, off, i) <=> Is(m, on, i)
      /\ \A on, off, i : EndsSince(a, on, off, i) <=> Is(m, on, i)
      /\ Announced(a) <=> m.kind # "register"
      /\ \A i, s, c : Current(a, i, s, c) <=> ~Outdated(m, i, s, c)
  BY <1>1, AloneIs
<1>3. Joined(a, rest, q)
  BY <1>1
<1>4. /\ Elems(q) = {m} \cup Elems(rest)
      /\ \A kind, i : Has(q, kind, i) <=> Is(m, kind, i) \/ Has(rest, kind, i)
      /\ \A kind : HasKind(q, kind) <=> m.kind = kind \/ HasKind(rest, kind)
      /\ \A i : HasReply(q, i) <=> IsReplyOf(m, i) \/ HasReply(rest, i)
      /\ \A i, s : HasChange(q, i, s) <=> IsChange(m, i, s) \/ HasChange(rest, i, s)
  BY <1>2, <1>3, JoinedElems
<1>5. ASSUME NEW on, NEW off, NEW i
      PROVE  /\ Ends(q, on, off, i)
                  <=> Ends(rest, on, off, i) \/ (Is(m, on, i) /\ ~Has(rest, off, i))
             /\ EndsSince(q, on, off, i)
                  <=> \/ EndsSince(rest, on, off, i)
                      \/ Is(m, on, i) /\ ~Has(rest, off, i) /\ ~HasKind(rest, "owner")
  <2>1. Ends(a, on, off, i) <=> Is(m, on, i)
    BY <1>2
  <2>2. EndsSince(a, on, off, i) <=> Is(m, on, i)
    BY <1>2
  <2> QED BY <1>3, <2>1, <2>2, JoinedEnds
<1>6. /\ Announced(q) => m.kind # "register"
      /\ Announced(q) /\ m.kind # "NameAcquired" => Announced(rest)
  BY <1>2, <1>3, JoinedAnnounced
<1>7. ASSUME NEW i, OneReply(q, i)
      PROVE  OneReply(rest, i) /\ ~(IsReplyOf(m, i) /\ HasReply(rest, i))
  <2>1. HasReply(a, i) <=> IsReplyOf(m, i)
    BY <1>2
  <2> QED BY <1>3, <1>7, <2>1, JoinedReplies
<1>8. ASSUME NEW i, NEW s, NEW c, Current(q, i, s, c)
      PROVE  Current(rest, i, s, c) /\ (HasChange(rest, i, s) \/ ~Outdated(m, i, s, c))
  <2>1. Current(a, i, s, c) <=> ~Outdated(m, i, s, c)
    BY <1>2
  <2> QED BY <1>3, <1>8, <2>1, JoinedCurrent
<1> QED BY <1>4, <1>5, <1>6, <1>7, <1>8

\* The message that is dispatched, and what is left.
LEMMA DispatchIs ==
  ASSUME Types, NEW kind, Dispatch(kind)
  PROVE  \E m, rest : /\ m = Head(inbox) /\ m.kind = kind /\ m \in Elems(inbox)
                      /\ rest = Rest /\ IsSeq(rest) /\ Joined(<<m>>, rest, inbox)
<1>1. PICK m : m = Head(inbox)
  OBVIOUS
<1>2. PICK rest : rest = Rest
  OBVIOUS
<1>3. m.kind = kind /\ inbox # <<>> /\ IsSeq(inbox)
  BY <1>1 DEF Dispatch, Types, TrayTyped
<1>4. IsSeq(rest) /\ Joined(<<m>>, rest, inbox)
  BY <1>1, <1>2, <1>3, RestIs DEF Rest
<1>5. m \in Elems(inbox)
  BY <1>4, ReadIs
<1> QED BY <1>1, <1>2, <1>3, <1>4, <1>5

\* One more message.
OneMore(q, m, r) == r = q \o <<m>>

\* What q says with a message more.
LEMMA SentIs ==
  ASSUME NEW q, IsSeq(q), NEW m, NEW r, OneMore(q, m, r)
  PROVE  /\ IsSeq(r)
         /\ Elems(r) = Elems(q) \cup {m}
         /\ \A kind, i : Has(r, kind, i) <=> Has(q, kind, i) \/ Is(m, kind, i)
         /\ \A kind : HasKind(r, kind) <=> HasKind(q, kind) \/ m.kind = kind
         /\ \A i : HasReply(r, i) <=> HasReply(q, i) \/ IsReplyOf(m, i)
         /\ \A i, s : HasChange(r, i, s) <=> HasChange(q, i, s) \/ IsChange(m, i, s)
         /\ \A on, off, i :
              /\ Ends(r, on, off, i)
                   <=> Is(m, on, i) \/ (Ends(q, on, off, i) /\ ~Is(m, off, i))
              /\ EndsSince(r, on, off, i)
                   <=> \/ Is(m, on, i)
                       \/ EndsSince(q, on, off, i) /\ ~Is(m, off, i) /\ m.kind # "owner"
         /\ Announced(q) /\ (HasKind(q, "NameAcquired") \/ m.kind # "register")
              => Announced(r)
         /\ \A i : OneReply(q, i) /\ ~(HasReply(q, i) /\ IsReplyOf(m, i)) => OneReply(r, i)
         /\ \A i, s, c : Current(r, i, s, c) <=>
              ~Outdated(m, i, s, c) /\ (IsChange(m, i, s) \/ Current(q, i, s, c))
<1>1. PICK a : a = <<m>>
  OBVIOUS
<1>2. /\ Elems(a) = {m}
      /\ \A kind, i : Has(a, kind, i) <=> Is(m, kind, i)
      /\ \A kind : HasKind(a, kind) <=> m.kind = kind
      /\ \A i : HasReply(a, i) <=> IsReplyOf(m, i)
      /\ \A i, s : HasChange(a, i, s) <=> IsChange(m, i, s)
      /\ \A on, off, i : Ends(a, on, off, i) <=> Is(m, on, i)
      /\ \A on, off, i : EndsSince(a, on, off, i) <=> Is(m, on, i)
      /\ \A i : OneReply(a, i)
      /\ \A i, s, c : Current(a, i, s, c) <=> ~Outdated(m, i, s, c)
  BY <1>1, AloneIs
<1>3. IsSeq(r) /\ Joined(q, a, r)
  <2>1. a \in Seq({m})
    BY <1>1
  <2>2. IsSeq(a)
    BY <2>1 DEF IsSeq
  <2> QED BY <1>1, <2>2, JoinedIs DEF OneMore
<1>4. /\ Elems(r) = Elems(q) \cup {m}
      /\ \A kind, i : Has(r, kind, i) <=> Has(q, kind, i) \/ Is(m, kind, i)
      /\ \A kind : HasKind(r, kind) <=> HasKind(q, kind) \/ m.kind = kind
      /\ \A i : HasReply(r, i) <=> HasReply(q, i) \/ IsReplyOf(m, i)
      /\ \A i, s : HasChange(r, i, s) <=> HasChange(q, i, s) \/ IsChange(m, i, s)
  BY <1>2, <1>3, JoinedElems
<1>5. ASSUME NEW on, NEW off, NEW i
      PROVE  /\ Ends(r, on, off, i)
                  <=> Is(m, on, i) \/ (Ends(q, on, off, i) /\ ~Is(m, off, i))
             /\ EndsSince(r, on, off, i)
                  <=> \/ Is(m, on, i)
                      \/ EndsSince(q, on, off, i) /\ ~Is(m, off, i) /\ m.kind # "owner"
  <2>1. /\ Ends(a, on, off, i) <=> Is(m, on, i)
        /\ EndsSince(a, on, off, i) <=> Is(m, on, i)
        /\ Has(a, off, i) <=> Is(m, off, i)
        /\ HasKind(a, "owner") <=> m.kind = "owner"
    BY <1>2
  <2> QED BY <1>3, <2>1, JoinedEnds
<1>6. Announced(q) /\ (HasKind(q, "NameAcquired") \/ m.kind # "register")
        => Announced(r)
  BY <1>2, <1>3, JoinedAnnounced
<1>7. ASSUME NEW i, OneReply(q, i), ~(HasReply(q, i) /\ IsReplyOf(m, i))
      PROVE  OneReply(r, i)
  BY <1>2, <1>3, <1>7, JoinedReplies
<1>8. ASSUME NEW i, NEW s, NEW c
      PROVE  Current(r, i, s, c) <=>
               ~Outdated(m, i, s, c) /\ (IsChange(m, i, s) \/ Current(q, i, s, c))
  <2>1. /\ Current(a, i, s, c) <=> ~Outdated(m, i, s, c)
        /\ HasChange(a, i, s) <=> IsChange(m, i, s)
    BY <1>2
  <2> QED BY <1>3, <2>1, JoinedCurrent
<1> QED BY <1>3, <1>4, <1>5, <1>6, <1>7, <1>8

\* What Relist does to the items, one by one, and to the inbox.
LEMMA RelistIs ==
  ASSUME Types, NEW q, IsSeq(q), NEW wanted \in SUBSET Item, Relist(wanted, q)
  PROVE  /\ items' = wanted
         /\ owner' \in [Item -> Nat \cup {None}]
         /\ fetch' \in [Item -> {"no", "sent", "answered"}]
         /\ DOMAIN shown' = Item
         /\ IsSeq(inbox')
         /\ SameNews(q, inbox')
         /\ ItemsOK(q) => ItemsOK(inbox')
         /\ \A m \in Elems(inbox') :
              m \in Elems(q) \/ m.kind = "unexpected" \/ (m.kind = "error" /\ m.item \in wanted)
         /\ \A i \in Item :
              /\ HasReply(inbox', i)
                   <=> (HasReply(q, i) /\ i \notin items \ wanted) \/ i \in (wanted \ items) \ alive
              /\ Has(inbox', "error", i)
                   => Has(q, "error", i) \/ i \in (wanted \ items) \ alive
              /\ OneReply(q, i) /\ (i \in wanted \ items => ~HasReply(q, i))
                   => OneReply(inbox', i)
         /\ \A i, s, c : Current(q, i, s, c) => Current(inbox', i, s, c)
         /\ \A i \in Item :
              /\ i \in wanted /\ i \in items =>
                   owner'[i] = owner[i] /\ fetch'[i] = fetch[i] /\ shown'[i] = shown[i]
              /\ i \in wanted /\ i \notin items =>
                   /\ owner'[i] = FirstOwner(i)
                   /\ fetch'[i] = IF i \in alive THEN "sent" ELSE "answered"
              /\ i \notin wanted => owner'[i] = None /\ fetch'[i] = "no"
<1>1. PICK C : C = items \ wanted
  OBVIOUS
<1>2. PICK new : new = wanted \ items
  OBVIOUS
<1>3. PICK r : r = inbox'
  OBVIOUS
<1>4. Refetched(q, C, new, r) /\ new \in SUBSET Item
  BY <1>1, <1>2, <1>3 DEF Relist, Refetched
<1>5. /\ IsSeq(r)
      /\ SameNews(q, r)
      /\ \A i : HasReply(r, i) <=> (HasReply(q, i) /\ i \notin C) \/ i \in new \ alive
      /\ \A i : Has(r, "error", i) => (Has(q, "error", i) /\ i \notin C) \/ i \in new \ alive
      /\ \A i : OneReply(q, i) /\ (i \in new => ~HasReply(q, i) \/ i \in C) => OneReply(r, i)
      /\ \A i, s, c : Current(q, i, s, c) => Current(r, i, s, c)
      /\ Elems(r) \subseteq Elems(q) \cup {Message("unexpected")}
                              \cup {About("error", i) : i \in new}
  BY <1>4, RefetchIs
<1>6. /\ items' = wanted
      /\ owner' = [i \in Item |-> IF i \in wanted \cap items THEN owner[i]
                                 ELSE IF i \in new THEN FirstOwner(i) ELSE None]
      /\ fetch' = [i \in Item |-> IF i \in wanted \cap items THEN fetch[i]
                                 ELSE IF i \in new THEN Calls(new)[i] ELSE "no"]
      /\ shown' = [i \in Item |-> IF i \in wanted \cap items THEN shown[i] ELSE None]
  BY <1>2 DEF Relist
<1>7. \A i \in new : Calls(new)[i] = IF i \in alive THEN "sent" ELSE "answered"
  BY DEF Calls
<1>8. \A i \in Item : FirstOwner(i) \in Nat \cup {None}
  BY DEF FirstOwner, Types
<1>9. owner' \in [Item -> Nat \cup {None}]
  BY <1>6, <1>8 DEF Types, TrayTyped
<1>10. fetch' \in [Item -> {"no", "sent", "answered"}]
  BY <1>6, <1>7 DEF Types, TrayTyped
<1>11. \A m \in Elems(r) :
         m \in Elems(q) \/ m.kind = "unexpected"
           \/ (m.kind = "error" /\ m.item \in wanted /\ m.item \in Item)
  BY <1>2, <1>5, MessagesAre
<1>12. ItemsOK(q) => ItemsOK(r)
  BY <1>11 DEF ItemsOK, AboutItems, OfItems
<1>13. \A i \in Item :
         /\ i \in wanted /\ i \in items =>
              owner'[i] = owner[i] /\ fetch'[i] = fetch[i] /\ shown'[i] = shown[i]
         /\ i \in wanted /\ i \notin items =>
              /\ owner'[i] = FirstOwner(i)
              /\ fetch'[i] = IF i \in alive THEN "sent" ELSE "answered"
         /\ i \notin wanted => owner'[i] = None /\ fetch'[i] = "no"
  BY <1>2, <1>6, <1>7
<1> QED BY <1>1, <1>2, <1>3, <1>5, <1>6, <1>9, <1>10, <1>11, <1>12, <1>13

\* What Quit sends: two more messages at most.
LEMMA QuitSends ==
  ASSUME Types, NEW i \in Item, Quit(i)
  PROVE  \E p, r :
           /\ OneMore(inbox, About("vanished", i), p)
           /\ IF fetch[i] = "sent" THEN OneMore(p, About("error", i), r) ELSE r = p
           /\ IF i \in theirs THEN OneMore(r, About("unregistered", i), inbox')
              ELSE inbox' = r
<1>1. PICK S : inbox \in Seq(S)
  BY DEF Types, TrayTyped, IsSeq
<1>2. PICK v : v = About("vanished", i)
  OBVIOUS
<1>3. PICK e : e = About("error", i)
  OBVIOUS
<1>4. PICK u : u = About("unregistered", i)
  OBVIOUS
<1>5. PICK a : a = IF fetch[i] = "sent" THEN <<e>> ELSE <<>>
  OBVIOUS
<1>6. PICK b : b = IF i \in theirs THEN <<u>> ELSE <<>>
  OBVIOUS
<1> DEFINE T == S \cup {v, e, u}
<1>7. /\ inbox \in Seq(T) /\ <<v>> \in Seq(T) /\ <<e>> \in Seq(T) /\ <<u>> \in Seq(T)
      /\ <<>> \in Seq(T)
  BY <1>1
<1>8. a \in Seq(T) /\ b \in Seq(T)
  BY <1>5, <1>6, <1>7
<1>9. inbox' = inbox \o ((<<v>> \o a) \o b)
  BY <1>2, <1>3, <1>4, <1>5, <1>6 DEF Quit, Sent
<1> HIDE DEF T
<1>10. PICK w : w = <<v>> \o a
  OBVIOUS
<1>11. w \in Seq(T) /\ inbox' = inbox \o (w \o b)
  BY <1>7, <1>8, <1>9, <1>10, ConcatProperties
<1>20. inbox' = (inbox \o w) \o b
  <2>1. w \in Seq(T) /\ b \in Seq(T) /\ inbox \in Seq(T)
    BY <1>7, <1>8, <1>11
  <2>2. (inbox \o w) \o b = inbox \o (w \o b)
    BY <2>1, ConcatAssociative
  <2> QED BY <1>11, <2>2
<1>21. inbox \o w = (inbox \o <<v>>) \o a
  <2>1. <<v>> \in Seq(T) /\ a \in Seq(T) /\ inbox \in Seq(T)
    BY <1>7, <1>8
  <2>2. (inbox \o <<v>>) \o a = inbox \o (<<v>> \o a)
    BY <2>1, ConcatAssociative
  <2> QED BY <1>10, <2>2
<1>12. inbox' = ((inbox \o <<v>>) \o a) \o b
  BY <1>20, <1>21
<1>13. PICK p : p = inbox \o <<v>>
  OBVIOUS
<1>14. PICK r : r = p \o a
  OBVIOUS
<1>15. p \in Seq(T) /\ r \in Seq(T) /\ inbox' = r \o b
  BY <1>7, <1>8, <1>12, <1>13, <1>14, ConcatProperties
<1>16. p \o <<>> = p /\ r \o <<>> = r
  BY <1>15, ConcatEmptySeq
<1>17. OneMore(inbox, v, p)
  BY <1>13 DEF OneMore
<1>18. IF fetch[i] = "sent" THEN OneMore(p, e, r) ELSE r = p
  BY <1>5, <1>14, <1>16 DEF OneMore
<1>19. IF i \in theirs THEN OneMore(r, u, inbox') ELSE inbox' = r
  BY <1>6, <1>15, <1>16 DEF OneMore
<1> QED BY <1>2, <1>3, <1>4, <1>17, <1>18, <1>19

\* What WatcherExits sends.
LEMMA ExitSends ==
  ASSUME Types, WatcherExits
  PROVE  \/ line' = <<>> /\ inbox' = inbox
         \/ /\ line' # <<>>
            /\ \E p : /\ OneMore(inbox, NameOwnerChanged(Head(line')), p)
                      /\ IF Head(line') = Tray
                         THEN OneMore(p, Message("NameAcquired"), inbox')
                         ELSE inbox' = p
<1>1. PICK S : inbox \in Seq(S)
  BY DEF Types, TrayTyped, IsSeq
<1>2. CASE line' = <<>>
  <2>1. inbox' = inbox \o <<>>
    BY <1>2 DEF WatcherExits, Sent
  <2>2. inbox \o <<>> = inbox
    BY <1>1, ConcatEmptySeq
  <2> QED BY <1>2, <2>1, <2>2
<1>3. CASE line' # <<>>
  <2>1. PICK o : o = NameOwnerChanged(Head(line'))
    OBVIOUS
  <2>2. PICK n : n = Message("NameAcquired")
    OBVIOUS
  <2>3. PICK b : b = IF Head(line') = Tray THEN <<n>> ELSE <<>>
    OBVIOUS
  <2> DEFINE T == S \cup {o, n}
  <2>4. /\ inbox \in Seq(T) /\ <<o>> \in Seq(T) /\ <<n>> \in Seq(T) /\ <<>> \in Seq(T)
    BY <1>1
  <2>5. b \in Seq(T)
    BY <2>3, <2>4
  <2>6. inbox' = inbox \o (<<o>> \o b)
    BY <1>3, <2>1, <2>2, <2>3 DEF WatcherExits, Sent
  <2> HIDE DEF T
  <2>7. PICK p : p = inbox \o <<o>>
    OBVIOUS
  <2>8. inbox' = p \o b
    BY <2>4, <2>5, <2>6, <2>7, ConcatAssociative
  <2>9. p \in Seq(T)
    BY <2>4, <2>7, ConcatProperties
  <2>10. p \o <<>> = p
    BY <2>9, ConcatEmptySeq
  <2>11. OneMore(inbox, o, p)
    BY <2>7 DEF OneMore
  <2>12. IF Head(line') = Tray THEN OneMore(p, n, inbox') ELSE inbox' = p
    BY <2>3, <2>8, <2>10 DEF OneMore
  <2> QED BY <1>3, <2>1, <2>2, <2>11, <2>12
<1> QED BY <1>2, <1>3

(***************************************************************************)
(* The replies to GetAll.                                                  *)
(***************************************************************************)
\* A message that is no reply leaves the replies.
LEMMA ReadKeeps ==
  ASSUME Types, Replies, NEW kind, kind \notin {"properties", "error"}, Dispatch(kind),
         inbox' = Rest, UNCHANGED <<items, owner, fetch, shown>>
  PROVE  TrayTyped' /\ Replies'
<1>1. PICK m, rest :
        /\ m = Head(inbox) /\ m.kind = kind /\ m \in Elems(inbox)
        /\ rest = Rest /\ IsSeq(rest) /\ Joined(<<m>>, rest, inbox)
  BY DispatchIs
<1>2. rest = Rest /\ IsSeq(rest) /\ Joined(<<m>>, rest, inbox)
  BY <1>1
<1>3. inbox' = rest
  BY <1>2
<1>4. Elems(inbox) = {m} \cup Elems(rest)
  BY <1>2, ReadIs
<1>5. ItemsOK(rest)
  BY <1>4 DEF ItemsOK, Types, TrayTyped
<1>6. ASSUME NEW i \in Item
      PROVE  (HasReply(rest, i) <=> HasReply(inbox, i)) /\ OneReply(rest, i)
  <2>1. ~IsReplyOf(m, i)
    BY <1>1 DEF IsReplyOf
  <2> QED BY <1>2, <2>1, ReadIs DEF Replies
<1> QED BY <1>2, <1>3, <1>5, <1>6 DEF Types, TrayTyped, Replies

\* So does listing other items, with their calls.
LEMMA RelistKeeps ==
  ASSUME Types, Replies, NEW q, IsSeq(q), NEW wanted \in SUBSET Item,
         Relist(wanted, q), ItemsOK(q),
         \A i \in Item : /\ OneReply(q, i)
                         /\ HasReply(q, i) => HasReply(inbox, i)
                         /\ i \in wanted /\ HasReply(inbox, i) => HasReply(q, i)
  PROVE  TrayTyped' /\ Replies'
<1>1. /\ items' = wanted
      /\ owner' \in [Item -> Nat \cup {None}]
      /\ fetch' \in [Item -> {"no", "sent", "answered"}]
      /\ DOMAIN shown' = Item
      /\ IsSeq(inbox')
      /\ ItemsOK(inbox')
  BY RelistIs
<1>2. ASSUME NEW i \in Item
      PROVE  /\ fetch'[i] = "answered" <=> HasReply(inbox', i)
             /\ fetch'[i] # "no" => i \in items'
             /\ OneReply(inbox', i)
  <2>1. /\ HasReply(inbox', i)
             <=> (HasReply(q, i) /\ i \notin items \ wanted) \/ i \in (wanted \ items) \ alive
        /\ OneReply(q, i) /\ (i \in wanted \ items => ~HasReply(q, i)) => OneReply(inbox', i)
    BY RelistIs
  <2>2. /\ i \in wanted /\ i \in items => fetch'[i] = fetch[i]
        /\ i \in wanted /\ i \notin items =>
             fetch'[i] = IF i \in alive THEN "sent" ELSE "answered"
        /\ i \notin wanted => fetch'[i] = "no"
    BY RelistIs
  <2>3. i \notin items => fetch[i] = "no" /\ ~HasReply(inbox, i) /\ ~HasReply(q, i)
    BY DEF Replies
  <2>4. fetch[i] = "answered" <=> HasReply(inbox, i)
    BY DEF Replies
  <2>5. CASE i \in wanted /\ i \in items
    BY <1>1, <2>1, <2>2, <2>4, <2>5
  <2>6. CASE i \in wanted /\ i \notin items
    BY <1>1, <2>1, <2>2, <2>3, <2>6
  <2>7. CASE i \notin wanted
    BY <2>1, <2>2, <2>3, <2>7
  <2> QED BY <2>5, <2>6, <2>7
<1> QED BY <1>1, <1>2 DEF TrayTyped, Replies

\* Messages that make the tray relist.
LEMMA ReadRelistKeeps ==
  ASSUME Types, Replies, NEW kind, kind \notin {"properties", "error"}, Dispatch(kind),
         NEW wanted \in SUBSET Item, Relist(wanted, Rest)
  PROVE  TrayTyped' /\ Replies'
<1>1. PICK m, rest :
        /\ m = Head(inbox) /\ m.kind = kind /\ m \in Elems(inbox)
        /\ rest = Rest /\ IsSeq(rest) /\ Joined(<<m>>, rest, inbox)
  BY DispatchIs
<1>2. rest = Rest /\ IsSeq(rest) /\ Joined(<<m>>, rest, inbox)
  BY <1>1
<1>3. Relist(wanted, rest)
  BY <1>2
<1>4. Elems(inbox) = {m} \cup Elems(rest)
  BY <1>2, ReadIs
<1>5. ItemsOK(rest)
  BY <1>4 DEF ItemsOK, Types, TrayTyped
<1>6. ASSUME NEW i \in Item
      PROVE  (HasReply(rest, i) <=> HasReply(inbox, i)) /\ OneReply(rest, i)
  <2>1. ~IsReplyOf(m, i)
    BY <1>1 DEF IsReplyOf
  <2> QED BY <1>2, <2>1, ReadIs DEF Replies
<1> QED BY <1>2, <1>3, <1>5, <1>6, RelistKeeps

\* What the tray is sent that is no reply.
LEMMA SentKeeps ==
  ASSUME NEW q, NEW m, NEW r, IsSeq(q), OneMore(q, m, r), ItemsOK(q),
         m.kind \notin {"properties", "error"}, m.kind \in AboutItems => m.item \in Item
  PROVE  /\ IsSeq(r)
         /\ ItemsOK(r)
         /\ \A i : HasReply(r, i) <=> HasReply(q, i)
         /\ \A i : OneReply(q, i) => OneReply(r, i)
<1>1. /\ IsSeq(r)
      /\ Elems(r) = Elems(q) \cup {m}
      /\ \A i : HasReply(r, i) <=> HasReply(q, i) \/ IsReplyOf(m, i)
      /\ \A i : OneReply(q, i) /\ ~(HasReply(q, i) /\ IsReplyOf(m, i)) => OneReply(r, i)
  BY SentIs
<1>2. \A i : ~IsReplyOf(m, i)
  BY DEF IsReplyOf
<1>3. ItemsOK(r)
  BY <1>1 DEF ItemsOK
<1> QED BY <1>1, <1>2, <1>3

\* And one reply.
LEMMA ReplyKeeps ==
  ASSUME NEW q, NEW m, NEW r, IsSeq(q), OneMore(q, m, r), ItemsOK(q),
         m.item \in Item, m.kind = "properties" => m.sender \in Nat,
         m.kind \in {"properties", "error"}, ~HasReply(q, m.item)
  PROVE  /\ IsSeq(r)
         /\ ItemsOK(r)
         /\ \A i : HasReply(r, i) <=> HasReply(q, i) \/ i = m.item
         /\ \A i : OneReply(q, i) => OneReply(r, i)
<1>1. /\ IsSeq(r)
      /\ Elems(r) = Elems(q) \cup {m}
      /\ \A i : HasReply(r, i) <=> HasReply(q, i) \/ IsReplyOf(m, i)
      /\ \A i : OneReply(q, i) /\ ~(HasReply(q, i) /\ IsReplyOf(m, i)) => OneReply(r, i)
  BY SentIs
<1>2. \A i : IsReplyOf(m, i) <=> i = m.item
  BY DEF IsReplyOf
<1>3. ItemsOK(r)
  BY <1>1 DEF ItemsOK
<1> QED BY <1>1, <1>2, <1>3

Ready == Types /\ Offline /\ Replies

\* The message that is dispatched is typed.
LEMMA HeadIs ==
  ASSUME Types, NEW kind, Dispatch(kind)
  PROVE  /\ Head(inbox).kind = kind
         /\ kind \in AboutItems => Head(inbox).item \in Item
         /\ kind = "properties" => Head(inbox).sender \in Nat
<1>1. PICK m, rest :
        /\ m = Head(inbox) /\ m.kind = kind /\ m \in Elems(inbox)
        /\ rest = Rest /\ IsSeq(rest) /\ Joined(<<m>>, rest, inbox)
  BY DispatchIs
<1> QED BY <1>1 DEF Types, TrayTyped, ItemsOK

\* The tray looks for the reply of an item, and takes it.
LEMMA ReadReplyKeeps ==
  ASSUME Types, Replies, NEW kind \in {"properties", "error"}, Dispatch(kind),
         items' = items, inbox' = Rest,
         fetch' = [fetch EXCEPT ![Head(inbox).item] = "no"],
         owner' \in [Item -> Nat \cup {None}], DOMAIN shown' = Item
  PROVE  TrayTyped' /\ Replies'
<1>1. PICK m, rest :
        /\ m = Head(inbox) /\ m.kind = kind /\ m \in Elems(inbox)
        /\ rest = Rest /\ IsSeq(rest) /\ Joined(<<m>>, rest, inbox)
  BY DispatchIs
<1>2. rest = Rest /\ IsSeq(rest) /\ Joined(<<m>>, rest, inbox)
  BY <1>1
<1>3. inbox' = rest
  BY <1>2
<1>4. Elems(inbox) = {m} \cup Elems(rest)
  BY <1>2, ReadIs
<1>5. ItemsOK(rest)
  BY <1>4 DEF ItemsOK, Types, TrayTyped
<1>6. m.item \in Item /\ \A i : IsReplyOf(m, i) <=> i = m.item
  BY <1>1, HeadIs DEF IsReplyOf, AboutItems
<1>7. ASSUME NEW i \in Item
      PROVE  /\ fetch'[i] = "answered" <=> HasReply(rest, i)
             /\ fetch'[i] # "no" => i \in items
             /\ OneReply(rest, i)
  <2>1. /\ HasReply(inbox, i) <=> IsReplyOf(m, i) \/ HasReply(rest, i)
        /\ OneReply(inbox, i) => OneReply(rest, i) /\ ~(IsReplyOf(m, i) /\ HasReply(rest, i))
    BY <1>2, ReadIs
  <2>2. fetch'[i] = IF i = m.item THEN "no" ELSE fetch[i]
    BY <1>1 DEF Types, TrayTyped
  <2> QED BY <1>6, <2>1, <2>2 DEF Replies
<1> QED BY <1>2, <1>3, <1>5, <1>7 DEF Types, TrayTyped, Replies

\* Each of the tray's steps keeps its replies.
LEMMA TrayKeepsReplies ==
  ASSUME Ready, TrayNext
  PROVE  TrayTyped' /\ Replies'
<1>1. Types /\ Replies /\ items \subseteq Item
  BY DEF Ready, Types, TrayTyped
<1>2. CASE BecomeWatcher
  <2>1. Dispatch("NameAcquired")
    BY <1>2 DEF BecomeWatcher
  <2>2. CASE inbox' = Rest /\ UNCHANGED list
    BY <1>1, <2>1, <2>2, ReadKeeps DEF list
  <2>3. CASE Relist({}, Rest)
    BY <1>1, <2>1, <2>3, ReadRelistKeeps
  <2> QED BY <1>2, <2>2, <2>3 DEF BecomeWatcher
<1>3. CASE WatcherChanges
  <2>1. Dispatch("owner") /\ inbox' = Rest /\ UNCHANGED list
    BY <1>3 DEF WatcherChanges
  <2> QED BY <1>1, <2>1, ReadKeeps DEF list
<1>4. CASE ProgramVanishes
  <2>1. Dispatch("vanished")
    BY <1>4 DEF ProgramVanishes
  <2>2. PICK wanted \in SUBSET Item : Relist(wanted, Rest)
    BY <1>1, <1>4 DEF ProgramVanishes
  <2> QED BY <1>1, <2>1, <2>2, ReadRelistKeeps
<1>5. CASE RegisterItem
  <2>1. Dispatch("register")
    BY <1>5 DEF RegisterItem
  <2>2. PICK wanted \in SUBSET Item : Relist(wanted, Rest)
    BY <1>1, <1>5 DEF RegisterItem, Types
  <2> QED BY <1>1, <2>1, <2>2, ReadRelistKeeps
<1>6. CASE MirrorRegistered
  <2>1. Dispatch("registered")
    BY <1>6 DEF MirrorRegistered
  <2>2. Head(inbox).item \in Item
    BY <1>1, <2>1, HeadIs DEF AboutItems, OfItems
  <2>3. PICK wanted \in SUBSET Item : Relist(wanted, Rest)
    BY <1>1, <1>6, <2>2 DEF MirrorRegistered
  <2> QED BY <1>1, <2>1, <2>3, ReadRelistKeeps
<1>7. CASE MirrorUnregistered
  <2>1. Dispatch("unregistered")
    BY <1>7 DEF MirrorUnregistered
  <2>2. PICK wanted \in SUBSET Item : Relist(wanted, Rest)
    BY <1>1, <1>7 DEF MirrorUnregistered
  <2> QED BY <1>1, <2>1, <2>2, ReadRelistKeeps
<1>8. CASE ItemSignal
  <2>1. Dispatch("NewIcon") /\ UNCHANGED <<items, owner, shown>>
    BY <1>8 DEF ItemSignal
  <2>2. CASE inbox' = Rest /\ UNCHANGED fetch
    BY <1>1, <2>1, <2>2, ReadKeeps
  <2>3. CASE IsFrom(Head(inbox))
    <3>1. PICK m, rest :
            /\ m = Head(inbox) /\ m.kind = "NewIcon" /\ m \in Elems(inbox)
            /\ rest = Rest /\ IsSeq(rest) /\ Joined(<<m>>, rest, inbox)
      BY <1>1, <2>1, DispatchIs
    <3>2. rest = Rest /\ IsSeq(rest) /\ Joined(<<m>>, rest, inbox)
      BY <3>1
    <3>3. PICK i : i = m.item
      OBVIOUS
    <3>12. PICK D : D = {i}
      OBVIOUS
    <3>13. PICK r : r = inbox'
      OBVIOUS
    <3>4. /\ i \in items /\ i \in Item /\ D \in SUBSET Item
          /\ fetch' = [fetch EXCEPT ![i] = Calls({i})[i]]
          /\ Refetched(rest, D, D, r)
      BY <1>1, <1>8, <2>3, <3>1, <3>2, <3>3, <3>12, <3>13 DEF ItemSignal, IsFrom, Refetched
    <3>5. Calls({i})[i] = IF i \in alive THEN "sent" ELSE "answered"
      BY DEF Calls
    <3>6. ItemsOK(rest)
      <4>1. Elems(inbox) = {m} \cup Elems(rest)
        BY <3>2, ReadIs
      <4> QED BY <1>1, <4>1 DEF ItemsOK, Types, TrayTyped
    <3>11. /\ IsSeq(r)
           /\ \A j : HasReply(r, j)
                       <=> (HasReply(rest, j) /\ j \notin D) \/ j \in D \ alive
           /\ \A j : OneReply(rest, j) /\ (j \in D => ~HasReply(rest, j) \/ j \in D)
                       => OneReply(r, j)
           /\ Elems(r) \subseteq Elems(rest) \cup {Message("unexpected")}
                                   \cup {About("error", j) : j \in D}
      <4>1. Refetched(rest, D, D, r) /\ D \in SUBSET Item /\ IsSeq(rest)
        BY <3>2, <3>4
      <4> QED BY <4>1, RefetchIs
    <3>7. /\ IsSeq(inbox')
          /\ \A j : HasReply(inbox', j)
                      <=> (HasReply(rest, j) /\ j # i) \/ (j = i /\ i \notin alive)
          /\ \A j : OneReply(rest, j) => OneReply(inbox', j)
          /\ \A n \in Elems(inbox') : \/ n \in Elems(rest)
                                      \/ n = Message("unexpected") \/ n = About("error", i)
      BY <3>11, <3>12, <3>13
    <3>8. ItemsOK(inbox')
      BY <3>4, <3>6, <3>7, MessagesAre DEF ItemsOK, AboutItems, OfItems
    <3>9. ASSUME NEW j \in Item
          PROVE  /\ fetch'[j] = "answered" <=> HasReply(inbox', j)
                 /\ fetch'[j] # "no" => j \in items'
                 /\ OneReply(inbox', j)
      <4>1. ~IsReplyOf(m, j)
        BY <3>1 DEF IsReplyOf
      <4>2. (HasReply(rest, j) <=> HasReply(inbox, j)) /\ OneReply(rest, j)
        BY <1>1, <3>2, <4>1, ReadIs DEF Replies
      <4>3. /\ fetch[j] = "answered" <=> HasReply(inbox, j)
            /\ fetch[j] # "no" => j \in items
        BY <1>1 DEF Replies
      <4>4. fetch'[j] = IF j = i THEN IF i \in alive THEN "sent" ELSE "answered"
                        ELSE fetch[j]
        BY <1>1, <3>4, <3>5 DEF Types, TrayTyped
      <4> QED BY <2>1, <3>4, <3>7, <4>2, <4>3, <4>4
    <3>10. fetch' \in [Item -> {"no", "sent", "answered"}]
      BY <1>1, <3>4, <3>5 DEF Types, TrayTyped
    <3> QED BY <1>1, <2>1, <3>7, <3>8, <3>9, <3>10 DEF Types, TrayTyped, Replies
  <2> QED BY <1>8, <2>2, <2>3 DEF ItemSignal
<1>9. CASE PropertiesReply
  <2>1. Dispatch("properties")
    BY <1>9 DEF PropertiesReply
  <2>2. Head(inbox).item \in Item /\ Head(inbox).sender \in Nat
    BY <1>1, <2>1, HeadIs DEF AboutItems
  <2>3. /\ items' = items /\ inbox' = Rest
        /\ fetch' = [fetch EXCEPT ![Head(inbox).item] = "no"]
        /\ owner' = [owner EXCEPT ![Head(inbox).item] = Head(inbox).sender]
        /\ shown' = [shown EXCEPT ![Head(inbox).item] = Head(inbox).icon]
    BY <1>9 DEF PropertiesReply
  <2>4. owner' \in [Item -> Nat \cup {None}] /\ DOMAIN shown' = Item
    BY <1>1, <2>2, <2>3 DEF Types, TrayTyped
  <2> QED BY <1>1, <2>1, <2>3, <2>4, ReadReplyKeeps
<1>10. CASE PropertiesError
  <2>1. /\ Dispatch("error")
        /\ items' = items /\ inbox' = Rest
        /\ fetch' = [fetch EXCEPT ![Head(inbox).item] = "no"]
        /\ owner' \in [Item -> Nat \cup {None}] /\ DOMAIN shown' = Item
    BY <1>1, <1>10 DEF PropertiesError, Types, TrayTyped
  <2> QED BY <1>1, <2>1, ReadReplyKeeps
<1>11. CASE UnexpectedReply
  <2>1. Dispatch("unexpected") /\ inbox' = Rest /\ UNCHANGED list
    BY <1>11 DEF UnexpectedReply
  <2> QED BY <1>1, <2>1, ReadKeeps DEF list
<1>12. CASE Refresh
  BY <1>1, <1>12 DEF Refresh, list, Types, TrayTyped, Replies
<1>13. CASE Refreshed
  <2>1. IsSeq(inbox)
    BY <1>1 DEF Types, TrayTyped
  <2>2. Relist(ids, inbox) /\ ids \in SUBSET Item /\ ItemsOK(inbox)
    BY <1>1, <1>13 DEF Refreshed, Types, TrayTyped
  <2>3. \A i \in Item : OneReply(inbox, i)
    BY <1>1 DEF Replies
  <2> QED BY <1>1, <2>1, <2>2, <2>3, RelistKeeps
<1> QED BY <1>2, <1>3, <1>4, <1>5, <1>6, <1>7, <1>8, <1>9, <1>10, <1>11, <1>12, <1>13
        DEF TrayNext

\* Messages that are no replies, when nothing else changes.
LEMMA NewsKeeps ==
  ASSUME Types, Replies, UNCHANGED <<tray, fetch>>,
         IsSeq(inbox'), ItemsOK(inbox'),
         \A i \in Item : HasReply(inbox', i) <=> HasReply(inbox, i),
         \A i \in Item : OneReply(inbox, i) => OneReply(inbox', i)
  PROVE  TrayTyped' /\ Replies'
BY DEF tray, Types, TrayTyped, Replies

\* So does each of the others'.
LEMMA OthersKeepReplies ==
  ASSUME Ready, Elsewhere
  PROVE  TrayTyped' /\ Replies'
<1>1. Types /\ Replies /\ IsSeq(inbox) /\ ItemsOK(inbox)
  BY DEF Ready, Types, TrayTyped
<1>2. CASE UNCHANGED <<inbox, tray, fetch>>
  BY <1>1, <1>2 DEF Types, TrayTyped, Replies, tray
<1>3. CASE WatcherExits
  <2>1. UNCHANGED <<tray, fetch>>
    BY <1>3 DEF WatcherExits
  <2>2. CASE inbox' = inbox
    BY <1>2, <2>1, <2>2
  <2>3. ASSUME NEW p, OneMore(inbox, NameOwnerChanged(Head(line')), p),
               IF Head(line') = Tray THEN OneMore(p, Message("NameAcquired"), inbox')
               ELSE inbox' = p
        PROVE  TrayTyped' /\ Replies'
    <3>1. PICK o : o = NameOwnerChanged(Head(line'))
      OBVIOUS
    <3>2. PICK n : n = Message("NameAcquired")
      OBVIOUS
    <3>3. o.kind = "owner" /\ n.kind = "NameAcquired"
      BY <3>1, <3>2, MessagesAre
    <3>4. /\ IsSeq(p) /\ ItemsOK(p)
          /\ \A i : HasReply(p, i) <=> HasReply(inbox, i)
          /\ \A i : OneReply(inbox, i) => OneReply(p, i)
      BY <1>1, <2>3, <3>1, <3>3, SentKeeps DEF AboutItems, OfItems
    <3>5. CASE inbox' = p
      BY <1>1, <2>1, <3>4, <3>5, NewsKeeps
    <3>6. CASE OneMore(p, n, inbox')
      <4>1. /\ IsSeq(inbox') /\ ItemsOK(inbox')
            /\ \A i : HasReply(inbox', i) <=> HasReply(p, i)
            /\ \A i : OneReply(p, i) => OneReply(inbox', i)
        BY <3>3, <3>4, <3>6, SentKeeps DEF AboutItems, OfItems
      <4> QED BY <1>1, <2>1, <3>4, <4>1, NewsKeeps
    <3> QED BY <2>3, <3>2, <3>5, <3>6
  <2> QED BY <1>1, <1>3, <2>2, <2>3, ExitSends
<1>4. ASSUME NEW i \in Item, Quit(i) PROVE TrayTyped' /\ Replies'
  <2>1. PICK p, r :
          /\ OneMore(inbox, About("vanished", i), p)
          /\ IF fetch[i] = "sent" THEN OneMore(p, About("error", i), r) ELSE r = p
          /\ IF i \in theirs THEN OneMore(r, About("unregistered", i), inbox')
             ELSE inbox' = r
    BY <1>1, <1>4, QuitSends
  <2>2. PICK v : v = About("vanished", i)
    OBVIOUS
  <2>3. PICK e : e = About("error", i)
    OBVIOUS
  <2>4. PICK u : u = About("unregistered", i)
    OBVIOUS
  <2>5. /\ v.kind = "vanished" /\ v.item = i
        /\ e.kind = "error" /\ e.item = i
        /\ u.kind = "unregistered" /\ u.item = i
    BY <2>2, <2>3, <2>4, MessagesAre
  <2>6. /\ IsSeq(p) /\ ItemsOK(p)
        /\ \A j : HasReply(p, j) <=> HasReply(inbox, j)
        /\ \A j : OneReply(inbox, j) => OneReply(p, j)
    BY <1>1, <2>1, <2>2, <2>5, SentKeeps
  <2>7. fetch[i] = "sent" => ~HasReply(inbox, i)
    BY <1>1 DEF Replies
  <2>8. /\ IsSeq(r) /\ ItemsOK(r)
        /\ \A j : HasReply(r, j) <=> HasReply(p, j) \/ (j = i /\ fetch[i] = "sent")
        /\ \A j : OneReply(p, j) => OneReply(r, j)
    <3>1. CASE fetch[i] # "sent"
      BY <2>1, <2>6, <3>1
    <3>2. CASE fetch[i] = "sent"
      <4>1. OneMore(p, e, r) /\ ~HasReply(p, e.item)
        BY <2>1, <2>3, <2>5, <2>6, <2>7, <3>2
      <4>2. /\ IsSeq(r) /\ ItemsOK(r)
            /\ \A j : HasReply(r, j) <=> HasReply(p, j) \/ j = e.item
            /\ \A j : OneReply(p, j) => OneReply(r, j)
        BY <2>5, <2>6, <4>1, ReplyKeeps
      <4> QED BY <2>5, <3>2, <4>2
    <3> QED BY <3>1, <3>2
  <2>9. /\ IsSeq(inbox') /\ ItemsOK(inbox')
        /\ \A j : HasReply(inbox', j) <=> HasReply(r, j)
        /\ \A j : OneReply(r, j) => OneReply(inbox', j)
    <3>1. CASE inbox' = r
      BY <2>8, <3>1
    <3>2. CASE OneMore(r, u, inbox')
      BY <2>5, <2>8, <3>2, SentKeeps
    <3> QED BY <2>1, <2>4, <3>1, <3>2
  <2>10. /\ fetch' = IF fetch[i] = "sent" THEN [fetch EXCEPT ![i] = "answered"] ELSE fetch
         /\ UNCHANGED <<items, owner, shown>>
    BY <1>4 DEF Quit, tray
  <2>11. fetch' \in [Item -> {"no", "sent", "answered"}]
    BY <1>1, <2>10 DEF Types, TrayTyped
  <2>12. ASSUME NEW j \in Item
         PROVE  /\ fetch'[j] = "answered" <=> HasReply(inbox', j)
                /\ fetch'[j] # "no" => j \in items'
                /\ OneReply(inbox', j)
    <3>1. fetch'[j] = IF j = i /\ fetch[i] = "sent" THEN "answered" ELSE fetch[j]
      BY <1>1, <2>10 DEF Types, TrayTyped
    <3>2. /\ fetch[j] = "answered" <=> HasReply(inbox, j)
          /\ fetch[j] # "no" => j \in items
          /\ OneReply(inbox, j)
      BY <1>1 DEF Replies
    <3> QED BY <2>6, <2>8, <2>9, <2>10, <3>1, <3>2
  <2> QED BY <1>1, <2>9, <2>10, <2>11, <2>12 DEF Types, TrayTyped, Replies
<1>5. ASSUME NEW m, OneMore(inbox, m, inbox'), m.kind \notin {"properties", "error"},
             m.kind \in AboutItems => m.item \in Item, UNCHANGED <<tray, fetch>>
      PROVE  TrayTyped' /\ Replies'
  <2>1. /\ IsSeq(inbox') /\ ItemsOK(inbox')
        /\ \A i : HasReply(inbox', i) <=> HasReply(inbox, i)
        /\ \A i : OneReply(inbox, i) => OneReply(inbox', i)
    BY <1>1, <1>5, SentKeeps
  <2> QED BY <1>1, <1>5, <2>1, NewsKeeps
<1>6. ASSUME NEW m, OneMore(inbox, m, inbox'), m.kind \in {"properties", "error"},
             m.kind = "properties" => m.sender \in Nat,
             m.item \in Item, fetch[m.item] = "sent",
             fetch' = [fetch EXCEPT ![m.item] = "answered"], UNCHANGED tray
      PROVE  TrayTyped' /\ Replies'
  <2>1. ~HasReply(inbox, m.item)
    BY <1>1, <1>6 DEF Replies
  <2>2. /\ IsSeq(inbox') /\ ItemsOK(inbox')
        /\ \A i : HasReply(inbox', i) <=> HasReply(inbox, i) \/ i = m.item
        /\ \A i : OneReply(inbox, i) => OneReply(inbox', i)
    BY <1>1, <1>6, <2>1, ReplyKeeps
  <2>3. ASSUME NEW j \in Item
        PROVE  /\ fetch'[j] = "answered" <=> HasReply(inbox', j)
               /\ fetch'[j] # "no" => j \in items'
               /\ OneReply(inbox', j)
    <3>1. fetch'[j] = IF j = m.item THEN "answered" ELSE fetch[j]
      BY <1>1, <1>6 DEF Types, TrayTyped
    <3>2. items' = items
      BY <1>6 DEF tray
    <3> QED BY <1>1, <1>6, <2>2, <3>1, <3>2 DEF Replies
  <2>4. fetch' \in [Item -> {"no", "sent", "answered"}]
    BY <1>1, <1>6 DEF Types, TrayTyped
  <2> QED BY <1>1, <1>6, <2>2, <2>3, <2>4 DEF Types, TrayTyped, Replies, tray
<1>7. ASSUME NEW i \in Item, Register(i) \/ ChangeIcon(i) PROVE TrayTyped' /\ Replies'
  <2>1. PICK m : /\ OneMore(inbox, m, inbox') /\ m.item = i
                 /\ m.kind \in {"register", "registered", "NewIcon"}
    <3>1. \/ OneMore(inbox, About("register", i), inbox')
          \/ OneMore(inbox, About("registered", i), inbox')
          \/ OneMore(inbox, NewIcon(i), inbox')
      BY <1>7 DEF Register, ChangeIcon, Sent, OneMore
    <3> QED BY <3>1, MessagesAre
  <2>2. UNCHANGED <<tray, fetch>>
    BY <1>7 DEF Register, ChangeIcon
  <2> QED BY <1>5, <2>1, <2>2
<1>8. ASSUME NEW i \in Item, AnswerGetAll(i) \/ TimeOutGetAll(i) PROVE TrayTyped' /\ Replies'
  <2>1. instance[i] \in Nat
    BY <1>1 DEF Types
  <2>2. PICK m : /\ OneMore(inbox, m, inbox') /\ m.item = i
                 /\ m.kind \in {"properties", "error"}
                 /\ m.kind = "properties" => m.sender \in Nat
    <3>1. OneMore(inbox, Properties(i), inbox') \/ OneMore(inbox, About("error", i), inbox')
      BY <1>8 DEF AnswerGetAll, TimeOutGetAll, Sent, OneMore
    <3> QED BY <2>1, <3>1, MessagesAre
  <2>3. fetch[i] = "sent" /\ fetch' = [fetch EXCEPT ![i] = "answered"] /\ UNCHANGED tray
    BY <1>8 DEF AnswerGetAll, TimeOutGetAll
  <2> QED BY <1>6, <2>2, <2>3
<1>9. CASE AnswerRefresh \/ TimeOutRefresh \/ WatcherGivesUp \/ \E i \in Item : Start(i)
  BY <1>2, <1>9 DEF AnswerRefresh, TimeOutRefresh, WatcherGivesUp, Start
<1> QED BY <1>3, <1>4, <1>7, <1>8, <1>9 DEF Elsewhere

\* The line for the watcher's name, with the first ahead and another gone.
LEMMA GivesUpIs ==
  ASSUME Types, WatcherGivesUp
  PROVE  /\ line' \in Seq(Watcher \cup {Tray})
         /\ line # <<>> /\ line' # <<>> /\ Head(line') = Head(line)
         /\ ToSet(line) \cap {Tray} = ToSet(line') \cap {Tray}
<1> DEFINE S == Watcher \cup {Tray}
<1>1. PICK n \in 2 .. Len(line) : line[n] \in Watcher /\ line' = RemoveAt(line, n)
  BY DEF WatcherGivesUp
<1>2. line \in Seq(S) /\ n \in 1 .. Len(line)
  BY DEF Types
<1> HIDE DEF S
<1>3. /\ line' \in Seq(S) /\ Len(line') = Len(line) - 1
      /\ \A i \in 1 .. Len(line) - 1 : line'[i] = IF i < n THEN line[i] ELSE line[i + 1]
  BY <1>1, <1>2, RemoveAtFacts
<1>4. line # <<>> /\ line' # <<>> /\ Head(line') = line'[1] /\ Head(line) = line[1]
  BY <1>2, <1>3
<1>5. line'[1] = line[1]
  BY <1>2, <1>3
<1>6. Tray \notin Watcher
  BY ConstantsOK
<1>7. ASSUME Tray \in ToSet(line) PROVE Tray \in ToSet(line')
  <2>1. PICK k \in 1 .. Len(line) : line[k] = Tray
    BY <1>2, <1>7 DEF ToSet
  <2>2. PICK j : j = IF k < n THEN k ELSE k - 1
    OBVIOUS
  <2>3. k # n
    BY <1>1, <1>6, <2>1
  <2>4. j \in 1 .. Len(line) - 1 /\ line'[j] = line[k]
    BY <1>2, <1>3, <2>1, <2>2, <2>3
  <2> QED BY <1>3, <2>1, <2>4 DEF ToSet
<1>8. ASSUME Tray \in ToSet(line') PROVE Tray \in ToSet(line)
  <2>1. PICK k \in 1 .. Len(line') : line'[k] = Tray
    BY <1>3, <1>8 DEF ToSet
  <2>2. k \in 1 .. Len(line) /\ k + 1 \in 1 .. Len(line)
    BY <1>2, <1>3, <2>1
  <2>3. line[k] = Tray \/ line[k + 1] = Tray
    BY <1>2, <1>3, <2>1
  <2> QED BY <1>2, <2>2, <2>3 DEF ToSet
<1> QED BY <1>3, <1>4, <1>5, <1>7, <1>8 DEF S

\* The other variables stay typed.
LEMMA TypesHold ==
  ASSUME Ready, Next, TrayTyped'
  PROVE  Types'
<1>1. Types
  BY DEF Ready
<1> USE DEF Types
<1>2. CASE Connect
  <2>1. line' \in Seq(Watcher \cup {Tray})
    BY <1>1, <1>2 DEF Connect
  <2>2. mode' \in {"Disconnected", "Watcher", "Host"} /\ needsRefresh' \in BOOLEAN
    BY <1>1, <1>2 DEF Connect
  <2> QED BY <1>1, <1>2, <2>1, <2>2 DEF Connect, call, history
<1>3. CASE TrayNext
  BY <1>1, <1>3
     DEF TrayNext, BecomeWatcher, WatcherChanges, ProgramVanishes, RegisterItem,
         MirrorRegistered, MirrorUnregistered, ItemSignal, PropertiesReply, PropertiesError,
         UnexpectedReply, Refresh, Refreshed, bus, call, history
<1>4. CASE LoseBus
  BY <1>1, <1>4 DEF LoseBus, bus, call, history
<1>5. CASE Elsewhere
  <2> USE DEF tray, call, history
  <2>1. CASE AnswerRefresh \/ TimeOutRefresh
    BY <1>1, <2>1 DEF AnswerRefresh, TimeOutRefresh, bus
  <2>2. CASE WatcherExits
    <3>1. line # <<>>
      BY <2>2, ConstantsOK DEF WatcherExits, Owner
    <3>2. line' \in Seq(Watcher \cup {Tray})
      BY <1>1, <2>2, <3>1, HeadTailProperties DEF WatcherExits
    <3> QED BY <1>1, <2>2, <3>2 DEF WatcherExits
  <2>3. CASE WatcherGivesUp
    BY <1>1, <2>3, GivesUpIs DEF WatcherGivesUp
  <2>4. ASSUME NEW i \in Item, Start(i) PROVE Types'
    BY <1>1, <2>4 DEF Start
  <2>5. ASSUME NEW i \in Item, Quit(i) PROVE Types'
    BY <1>1, <2>5 DEF Quit
  <2>6. ASSUME NEW i \in Item, Register(i) PROVE Types'
    BY <1>1, <2>6 DEF Register
  <2>7. ASSUME NEW i \in Item, ChangeIcon(i) PROVE Types'
    BY <1>1, <2>7 DEF ChangeIcon
  <2>8. ASSUME NEW i \in Item, AnswerGetAll(i) \/ TimeOutGetAll(i) PROVE Types'
    BY <1>1, <2>8 DEF AnswerGetAll, TimeOutGetAll, bus
  <2> QED BY <1>5, <2>1, <2>2, <2>3, <2>4, <2>5, <2>6, <2>7, <2>8 DEF Elsewhere
<1> QED BY <1>2, <1>3, <1>4, <1>5 DEF Next

\* The tray is on the bus when it takes a step, and leaves it only in LoseBus.
LEMMA OnTheBus ==
  ASSUME Ready, TrayNext \/ Elsewhere
  PROVE  mode # "Disconnected" /\ mode' # "Disconnected"
<1>1. Types /\ Offline
  BY DEF Ready
<1>2. ASSUME TrayNext PROVE mode # "Disconnected" /\ mode' # "Disconnected"
  <2>1. CASE \E kind : Dispatch(kind)
    <3>1. mode # "Disconnected"
      BY <2>1 DEF Dispatch
    <3> QED BY <1>2, <3>1
            DEF TrayNext, BecomeWatcher, WatcherChanges, ProgramVanishes, RegisterItem,
                MirrorRegistered, MirrorUnregistered, ItemSignal, PropertiesReply,
                PropertiesError, UnexpectedReply, Refresh, Refreshed
  <2>2. CASE Refresh \/ Refreshed
    <3>1. CASE Refresh
      BY <3>1 DEF Refresh
    <3>2. CASE Refreshed
      BY <1>1, <3>2 DEF Refreshed, Offline
    <3> QED BY <2>2, <3>1, <3>2
  <2>3. (\E kind : Dispatch(kind)) \/ Refresh \/ Refreshed
    BY <1>2 DEF TrayNext, BecomeWatcher, WatcherChanges, ProgramVanishes, RegisterItem,
                MirrorRegistered, MirrorUnregistered, ItemSignal, PropertiesReply,
                PropertiesError, UnexpectedReply
  <2> QED BY <2>1, <2>2, <2>3
<1>3. ASSUME Elsewhere PROVE mode # "Disconnected" /\ mode' # "Disconnected"
  BY <1>3 DEF Elsewhere, AnswerRefresh, TimeOutRefresh, WatcherExits, WatcherGivesUp, Start,
              Quit, Register, ChangeIcon, AnswerGetAll, TimeOutGetAll, tray
<1> QED BY <1>2, <1>3

\* Types, Offline and Replies are inductive together.
LEMMA ReadyHolds ==
  /\ Init => Ready
  /\ Ready /\ [Next]_vars => Ready'
<1>1. ASSUME Init PROVE Ready
  <2>1. inbox = <<>> /\ IsSeq(inbox)
    BY <1>1 DEF Init, IsSeq
  <2>2. line \in Seq(Watcher \cup {Tray})
    <3>1. \A n \in 0 .. 2 : \A l \in [1 .. n -> Watcher] : l \in Seq(Watcher \cup {Tray})
      OBVIOUS
    <3> QED BY <1>1, <3>1 DEF Init, SeqOf
  <2>3. ItemsOK(inbox) /\ \A i : ~HasReply(inbox, i) /\ OneReply(inbox, i)
    BY <2>1, NothingIs DEF ItemsOK
  <2>4. TrayTyped
    BY <1>1, <2>1, <2>3 DEF Init, TrayTyped, NoneOf
  <2>5. Types
    BY <1>1, <2>2, <2>4, ConstantsOK DEF Init, Types
  <2>6. Replies
    BY <1>1, <2>3 DEF Init, Replies
  <2>7. Offline
    BY <1>1 DEF Init, Offline
  <2> QED BY <2>5, <2>6, <2>7 DEF Ready
<1>2. ASSUME Ready, Next PROVE Ready'
  <2>1. Types /\ Offline /\ Replies
    BY <1>2 DEF Ready
  <2>2. (TrayTyped /\ Replies /\ Offline)'
    <3>1. CASE Connect
      <4>1. UNCHANGED list /\ mode' # "Disconnected" /\ inbox = <<>> /\ items = {}
        BY <2>1, <3>1 DEF Connect, Offline
      <4>2. CASE inbox' = inbox
        BY <2>1, <4>1, <4>2 DEF list, Types, TrayTyped, Replies, Offline
      <4>3. CASE inbox' = <<Message("NameAcquired")>>
        <5>1. PICK m : m = Message("NameAcquired")
          OBVIOUS
        <5>2. inbox' = <<m>> /\ m.kind = "NameAcquired"
          BY <4>3, <5>1, MessagesAre
        <5>3. /\ Elems(inbox') = {m}
              /\ \A i : HasReply(inbox', i) <=> IsReplyOf(m, i)
              /\ \A i : OneReply(inbox', i)
          BY <5>2, AloneIs
        <5>4. \A i : ~IsReplyOf(m, i)
          BY <5>2 DEF IsReplyOf
        <5>5. IsSeq(inbox')
          <6>1. <<m>> \in Seq({m})
            OBVIOUS
          <6> QED BY <5>2, <6>1 DEF IsSeq
        <5>6. ItemsOK(inbox')
          BY <5>2, <5>3 DEF ItemsOK, AboutItems, OfItems
        <5>7. \A i \in Item : fetch[i] # "answered"
          BY <2>1, <4>1 DEF Replies
        <5>8. TrayTyped'
          BY <2>1, <4>1, <5>5, <5>6 DEF list, Types, TrayTyped
        <5>9. Replies'
          BY <2>1, <4>1, <5>3, <5>4, <5>7 DEF list, Replies
        <5> QED BY <4>1, <5>8, <5>9 DEF Offline
      <4> QED BY <3>1, <4>2, <4>3 DEF Connect
    <3>2. CASE TrayNext
      BY <1>2, <3>2, TrayKeepsReplies, OnTheBus DEF Offline
    <3>3. CASE LoseBus
      <4>1. /\ IsSeq(<<>>) /\ ItemsOK(<<>>)
            /\ \A i : ~HasReply(<<>>, i) /\ OneReply(<<>>, i)
        <5>1. <<>> \in Seq({})
          OBVIOUS
        <5> QED BY <5>1, NothingIs DEF IsSeq, ItemsOK
      <4>2. Relist({}, <<>>) /\ {} \in SUBSET Item /\ get' = "no"
        BY <3>3 DEF LoseBus, call
      <4>3. TrayTyped' /\ Replies'
        BY <2>1, <4>1, <4>2, RelistKeeps
      <4>4. items' = {} /\ inbox' = <<>>
        <5>1. items' = {} /\ inbox' = Without(<<>>, items \ {}) \o Errors({} \ items)
          BY <4>2 DEF Relist
        <5>2. {} \ items = {}
          OBVIOUS
        <5>3. PICK e : e = Errors({})
          OBVIOUS
        <5>4. IsSeq(e) /\ Elems(e) = {}
          <6>1. {} \in SUBSET Item
            OBVIOUS
          <6>2. IsSeq(Errors({})) /\ Elems(Errors({})) = {About("error", i) : i \in {} \ alive}
            BY <6>1, ErrorsIs
          <6> QED BY <5>3, <6>2
        <5>5. PICK S : e \in Seq(S)
          BY <5>4 DEF IsSeq
        <5>6. Len(e) = 0
          BY <5>4, <5>5 DEF Elems
        <5>7. e = <<>>
          BY <5>5, <5>6, EmptySeq
        <5>8. PICK w : w = Without(<<>>, items \ {})
          OBVIOUS
        <5>9. IsSeq(w) /\ Len(w) = Len(<<>>)
          BY <4>1, <5>8, WithoutIs DEF Muted
        <5>10. PICK T : w \in Seq(T)
          BY <5>9 DEF IsSeq
        <5>11. w = <<>>
          BY <5>9, <5>10, EmptySeq
        <5> QED BY <5>1, <5>2, <5>3, <5>7, <5>8, <5>11
      <4> QED BY <4>2, <4>3, <4>4 DEF Offline
    <3>4. CASE Elsewhere
      BY <1>2, <3>4, OthersKeepReplies, OnTheBus DEF Offline
    <3> QED BY <1>2, <3>1, <3>2, <3>3, <3>4 DEF Next
  <2> QED BY <1>2, <2>2, TypesHold DEF Ready
<1>3. ASSUME Ready, UNCHANGED vars PROVE Ready'
  BY <1>3 DEF Ready, Types, TrayTyped, Offline, Replies, vars, bus, list, history, call
<1> QED BY <1>1, <1>2, <1>3

\* They always hold.
LEMMA AlwaysReady == Spec => []Ready
  BY ReadyHolds, PTL DEF Spec

\* Every reply to a GetAll finds the item it is for, however items come, go and are
\* fetched again while it is on its way.
THEOREM RepliesAreExpectedHolds == Spec => []RepliesAreExpected
<1>1. Ready => RepliesAreExpected
  <2> SUFFICES ASSUME Ready PROVE RepliesAreExpected
    OBVIOUS
  <2>1. ASSUME NEW i \in Item
        PROVE  HasReply(inbox, i) <=> \E n \in 1 .. Len(inbox) : IsReplyOf(inbox[n], i)
    BY DEF HasReply, Elems
  <2> QED BY <2>1 DEF Ready, Replies, RepliesAreExpected, OneReply
<1> QED BY <1>1, AlwaysReady, PTL

(***************************************************************************)
(* The watcher's name.                                                     *)
(***************************************************************************)
\* r is q with other replies, and errors of is only.
OnlyErrors(q, r, is) ==
  \A x \in Elems(r) : x \in Elems(q) \/ x.kind = "unexpected" \/ (x.kind = "error" /\ x.item \in is)

\* What the tray's steps do to the news: at most one message is read.
LEMMA TrayReads ==
  ASSUME Ready, TrayNext
  PROVE  \/ /\ Refresh \/ Refreshed
            /\ SameNews(inbox, inbox') /\ OnlyErrors(inbox, inbox', items')
         \/ \E m, rest :
              /\ m = Head(inbox) /\ Dispatch(m.kind) /\ m \in Elems(inbox)
              /\ rest = Rest /\ IsSeq(rest) /\ Joined(<<m>>, rest, inbox)
              /\ SameNews(rest, inbox') /\ OnlyErrors(rest, inbox', items')
<1>1. Types /\ IsSeq(inbox)
  BY DEF Ready, Types, TrayTyped
<1>2. ASSUME NEW q PROVE SameNews(q, q) /\ OnlyErrors(q, q, items')
  BY DEF SameNews, OnlyErrors
<1>3. CASE Refresh
  BY <1>2, <1>3 DEF Refresh
<1>4. CASE Refreshed
  <2>1. Relist(ids, inbox) /\ ids \in SUBSET Item
    BY <1>1, <1>4 DEF Refreshed, Types
  <2> QED BY <1>1, <1>4, <2>1, RelistIs DEF OnlyErrors
<1>5. ASSUME NEW kind, Dispatch(kind),
             \/ inbox' = Rest
             \/ \E wanted \in SUBSET Item : Relist(wanted, Rest)
             \/ \E D \in SUBSET Item : D \subseteq items' /\ Refetched(Rest, D, D, inbox')
      PROVE  \E m, rest :
               /\ m = Head(inbox) /\ Dispatch(m.kind) /\ m \in Elems(inbox)
               /\ rest = Rest /\ IsSeq(rest) /\ Joined(<<m>>, rest, inbox)
               /\ SameNews(rest, inbox') /\ OnlyErrors(rest, inbox', items')
  <2>1. PICK m, rest :
          /\ m = Head(inbox) /\ m.kind = kind /\ m \in Elems(inbox)
          /\ rest = Rest /\ IsSeq(rest) /\ Joined(<<m>>, rest, inbox)
    BY <1>1, <1>5, DispatchIs
  <2>2. CASE inbox' = Rest
    BY <1>2, <1>5, <2>1, <2>2
  <2>3. ASSUME NEW wanted \in SUBSET Item, Relist(wanted, Rest)
        PROVE  SameNews(rest, inbox') /\ OnlyErrors(rest, inbox', items')
    <3>1. Relist(wanted, rest)
      BY <2>1, <2>3
    <3> QED BY <1>1, <2>1, <3>1, RelistIs DEF OnlyErrors
  <2>4. ASSUME NEW D \in SUBSET Item, D \subseteq items', Refetched(Rest, D, D, inbox')
        PROVE  SameNews(rest, inbox') /\ OnlyErrors(rest, inbox', items')
    <3>1. Refetched(rest, D, D, inbox')
      BY <2>1, <2>4
    <3>2. \A i \in D : About("error", i).kind = "error" /\ About("error", i).item \in items'
      BY <2>4, MessagesAre
    <3>3. Message("unexpected").kind = "unexpected"
      BY MessagesAre
    <3>4. /\ SameNews(rest, inbox')
          /\ Elems(inbox') \subseteq Elems(rest) \cup {Message("unexpected")}
                                     \cup {About("error", i) : i \in D}
      BY <2>1, <3>1, RefetchIs
    <3> QED BY <3>2, <3>3, <3>4 DEF OnlyErrors
  <2> QED BY <1>5, <2>1, <2>2, <2>3, <2>4
<1>6. items \in SUBSET Item /\ alive \in SUBSET Item
  BY <1>1 DEF Types, TrayTyped
<1>7. CASE BecomeWatcher
  <2>1. Dispatch("NameAcquired")
    BY <1>7 DEF BecomeWatcher
  <2>2. inbox' = Rest \/ \E wanted \in SUBSET Item : Relist(wanted, Rest)
    BY <1>7 DEF BecomeWatcher
  <2> QED BY <1>5, <2>1, <2>2
<1>8. CASE WatcherChanges \/ PropertiesReply \/ PropertiesError \/ UnexpectedReply
  <2>1. inbox' = Rest /\ \E kind : Dispatch(kind)
    BY <1>8 DEF WatcherChanges, PropertiesReply, PropertiesError, UnexpectedReply
  <2> QED BY <1>5, <2>1
<1>9. CASE ProgramVanishes \/ RegisterItem \/ MirrorUnregistered
  <2>1. \E kind : Dispatch(kind)
    BY <1>9 DEF ProgramVanishes, RegisterItem, MirrorUnregistered
  <2>2. \E wanted \in SUBSET Item : Relist(wanted, Rest)
    BY <1>6, <1>9 DEF ProgramVanishes, RegisterItem, MirrorUnregistered
  <2> QED BY <1>5, <2>1, <2>2
<1>10. CASE MirrorRegistered
  <2>1. Dispatch("registered")
    BY <1>10 DEF MirrorRegistered
  <2>2. Head(inbox).item \in Item
    BY <1>1, <2>1, HeadIs DEF AboutItems, OfItems
  <2>3. \E wanted \in SUBSET Item : Relist(wanted, Rest)
    BY <1>6, <1>10, <2>2 DEF MirrorRegistered
  <2> QED BY <1>5, <2>1, <2>3
<1>11. CASE ItemSignal
  <2>1. Dispatch("NewIcon")
    BY <1>11 DEF ItemSignal
  <2>2. PICK D : D = {Head(inbox).item}
    OBVIOUS
  <2>3. D \in SUBSET Item
    BY <1>1, <2>1, <2>2, HeadIs DEF AboutItems, OfItems
  <2>4. inbox' = Rest \/ (D \subseteq items' /\ Refetched(Rest, D, D, inbox'))
    BY <1>11, <2>2 DEF ItemSignal, Refetched, IsFrom
  <2> QED BY <1>5, <2>1, <2>3, <2>4
<1> QED BY <1>3, <1>4, <1>7, <1>8, <1>9, <1>10, <1>11 DEF TrayNext

\* The line without the first.
LEMMA LineIs ==
  ASSUME Types, line # <<>>
  PROVE  /\ Head(line) \in Watcher \cup {Tray}
         /\ ToSet(line) = {Head(line)} \cup ToSet(Tail(line))
         /\ Tail(line) \in Seq(Watcher \cup {Tray})
<1>1. line \in Seq(Watcher \cup {Tray})
  BY DEF Types
<1>2. /\ Tail(line) \in Seq(Watcher \cup {Tray}) /\ <<Head(line)>> \in Seq(Watcher \cup {Tray})
      /\ line = <<Head(line)>> \o Tail(line)
  BY <1>1, HeadTailProperties
<1>3. ToSet(<<Head(line)>>) = {Head(line)}
  BY DEF ToSet
<1>4. ToSet(<<Head(line)>> \o Tail(line)) = ToSet(<<Head(line)>>) \cup ToSet(Tail(line))
  <2>1. PICK S, h, t : S = Watcher \cup {Tray} /\ h = <<Head(line)>> /\ t = Tail(line)
    OBVIOUS
  <2>2. h \in Seq(S) /\ t \in Seq(S)
    BY <1>2, <2>1
  <2>3. ToSet(h \o t) = ToSet(h) \cup ToSet(t)
    BY <2>2, ToSetFacts
  <2> QED BY <2>1, <2>3
<1>5. Head(line) \in Watcher \cup {Tray}
  BY <1>1
<1> QED BY <1>2, <1>3, <1>4, <1>5

\* Who has the name.
LEMMA OwnerIs ==
  /\ Owner = Tray <=> line # <<>> /\ Head(line) = Tray
  /\ Owner \in Watcher => line # <<>> /\ Owner # Tray
BY ConstantsOK DEF Owner

\* The tray knows whether it has the name, or is to read that it has.
NameInv ==
  /\ mode # "Disconnected" => Tray \in ToSet(line)
  /\ mode = "Watcher" => Owner = Tray
  /\ HasKind(inbox, "NameAcquired") => Owner = Tray
  /\ mode = "Host" /\ Owner = Tray => HasKind(inbox, "NameAcquired")
  /\ mode = "Host" => Announced(inbox)

\* The watcher that has the name leaves it to the next.
LEMMA ExitIs ==
  ASSUME Ready, NameInv, mode # "Disconnected", WatcherExits
  PROVE  /\ mode = "Host" /\ Owner # Tray
         /\ line' # <<>> /\ Owner' = Head(line') /\ Tray \in ToSet(line')
         /\ ~HasKind(inbox, "NameAcquired") /\ ~HasKind(inbox, "register")
         /\ \E p : /\ OneMore(inbox, NameOwnerChanged(Head(line')), p)
                   /\ IF Owner' = Tray THEN OneMore(p, Message("NameAcquired"), inbox')
                      ELSE inbox' = p
<1>1. Types
  BY DEF Ready
<1>2. line # <<>> /\ Owner # Tray /\ Head(line) # Tray /\ line' = Tail(line)
  BY OwnerIs DEF WatcherExits, Owner
<1>3. mode = "Host"
  BY <1>1, <1>2 DEF NameInv, Types
<1>4. Tray \in ToSet(line')
  BY <1>1, <1>2, LineIs DEF NameInv
<1>5. line' # <<>>
  BY <1>4, ToSetFacts
<1>6. Owner' = Head(line')
  BY <1>5 DEF Owner
<1>7. ~HasKind(inbox, "NameAcquired") /\ Announced(inbox)
  BY <1>2, <1>3 DEF NameInv
<1>8. ~HasKind(inbox, "register")
  <2> SUFFICES ASSUME NEW n \in 1 .. Len(inbox), inbox[n].kind = "register" PROVE FALSE
    BY DEF HasKind, Elems
  <2>1. PICK k \in 1 .. n - 1 : inbox[k].kind = "NameAcquired"
    BY <1>7 DEF Announced
  <2>2. Len(inbox) \in Nat
    BY <1>1 DEF Types, TrayTyped, IsSeq
  <2>3. k \in 1 .. Len(inbox)
    BY <2>2
  <2> QED BY <1>7, <2>1, <2>3 DEF HasKind, Elems
<1> QED BY <1>1, <1>2, <1>3, <1>4, <1>5, <1>6, <1>7, <1>8, ExitSends

\* What one more message about i says.
LEMMA AboutIs ==
  ASSUME NEW q, IsSeq(q), NEW kind \in {"vanished", "register", "registered", "unregistered",
                                        "error"},
         NEW i, NEW r, OneMore(q, About(kind, i), r)
  PROVE  /\ IsSeq(r)
         /\ Elems(r) = Elems(q) \cup {About(kind, i)}
         /\ \A k, j : Has(r, k, j) <=> Has(q, k, j) \/ (k = kind /\ j = i)
         /\ \A k : HasKind(r, k) <=> HasKind(q, k) \/ k = kind
         /\ \A j, s : HasChange(r, j, s) <=> HasChange(q, j, s)
         /\ \A on, off, j :
              /\ Ends(r, on, off, j)
                   <=> (on = kind /\ j = i) \/ (Ends(q, on, off, j) /\ ~(off = kind /\ j = i))
              /\ EndsSince(r, on, off, j)
                   <=> \/ on = kind /\ j = i
                       \/ EndsSince(q, on, off, j) /\ ~(off = kind /\ j = i)
         /\ Announced(q) /\ (HasKind(q, "NameAcquired") \/ kind # "register") => Announced(r)
         /\ \A j, s, c : Current(r, j, s, c) <=> Current(q, j, s, c)
<1>1. PICK m : m = About(kind, i)
  OBVIOUS
<1>2. OneMore(q, m, r)
  BY <1>1
<1>3. m.kind = kind /\ m.item = i
  BY <1>1, MessagesAre
<1>4. \A k, j : Is(m, k, j) <=> k = kind /\ j = i
  BY <1>3 DEF Is
<1>5. \A j, s, c : ~Outdated(m, j, s, c) /\ ~IsChange(m, j, s)
  BY <1>4 DEF Outdated, IsChange
<1>6. IsSeq(r) /\ Elems(r) = Elems(q) \cup {m}
  BY <1>2, SentIs
<1>7. /\ \A k, j : Has(r, k, j) <=> Has(q, k, j) \/ Is(m, k, j)
      /\ \A k : HasKind(r, k) <=> HasKind(q, k) \/ m.kind = k
      /\ \A j, s : HasChange(r, j, s) <=> HasChange(q, j, s) \/ IsChange(m, j, s)
  BY <1>2, SentIs
<1>8. \A on, off, j :
        /\ Ends(r, on, off, j)
             <=> Is(m, on, j) \/ (Ends(q, on, off, j) /\ ~Is(m, off, j))
        /\ EndsSince(r, on, off, j)
             <=> \/ Is(m, on, j)
                 \/ EndsSince(q, on, off, j) /\ ~Is(m, off, j) /\ m.kind # "owner"
  BY <1>2, SentIs
<1>9. Announced(q) /\ (HasKind(q, "NameAcquired") \/ m.kind # "register") => Announced(r)
  BY <1>2, SentIs
<1>10. \A j, s, c : Current(r, j, s, c) <=>
         ~Outdated(m, j, s, c) /\ (IsChange(m, j, s) \/ Current(q, j, s, c))
  BY <1>2, SentIs
<1>11. m.kind # "owner"
  BY <1>3
<1>12. \A on, off, j :
        /\ Ends(r, on, off, j)
             <=> (on = kind /\ j = i) \/ (Ends(q, on, off, j) /\ ~(off = kind /\ j = i))
        /\ EndsSince(r, on, off, j)
             <=> \/ on = kind /\ j = i
                 \/ EndsSince(q, on, off, j) /\ ~(off = kind /\ j = i)
  BY <1>4, <1>8, <1>11
<1>13. \A k, j : Has(r, k, j) <=> Has(q, k, j) \/ (k = kind /\ j = i)
  BY <1>4, <1>7
<1>14. /\ \A k : HasKind(r, k) <=> HasKind(q, k) \/ k = kind
       /\ Announced(q) /\ (HasKind(q, "NameAcquired") \/ kind # "register") => Announced(r)
  BY <1>3, <1>7, <1>9
<1>15. \A j, s : HasChange(r, j, s) <=> HasChange(q, j, s)
  BY <1>5, <1>7
<1>16. \A j, s, c : Current(r, j, s, c) <=> Current(q, j, s, c)
  BY <1>5, <1>10
<1>17. Elems(r) = Elems(q) \cup {About(kind, i)}
  BY <1>1, <1>6
<1> QED BY <1>6, <1>12, <1>13, <1>14, <1>15, <1>16, <1>17

\* What Quit says.
LEMMA QuitNews ==
  ASSUME Types, NEW i \in Item, Quit(i)
  PROVE  /\ IsSeq(inbox')
         /\ \A kind \in {"owner", "NameAcquired", "register", "registered"} :
              HasKind(inbox', kind) <=> HasKind(inbox, kind)
         /\ Announced(inbox) => Announced(inbox')
         /\ \A j : Has(inbox', "vanished", j) <=> Has(inbox, "vanished", j) \/ j = i
         /\ \A j : Ends(inbox', "register", "vanished", j)
                     <=> Ends(inbox, "register", "vanished", j) /\ j # i
         /\ \A j : Has(inbox', "unregistered", j)
                     <=> Has(inbox, "unregistered", j) \/ (j = i /\ i \in theirs)
         /\ \A j : Ends(inbox', "registered", "unregistered", j)
                     <=> Ends(inbox, "registered", "unregistered", j) /\ ~(j = i /\ i \in theirs)
         /\ \A j : EndsSince(inbox', "registered", "unregistered", j)
                     <=> EndsSince(inbox, "registered", "unregistered", j)
                         /\ ~(j = i /\ i \in theirs)
         /\ \A j : EndsSince(inbox', "unregistered", "registered", j)
                     <=> EndsSince(inbox, "unregistered", "registered", j)
                         \/ (j = i /\ i \in theirs)
         /\ \A j, s : HasChange(inbox', j, s) <=> HasChange(inbox, j, s)
         /\ \A j, s, c : Current(inbox', j, s, c) <=> Current(inbox, j, s, c)
         /\ \A j : Has(inbox', "error", j) => Has(inbox, "error", j) \/ j = i
         /\ \A m \in Elems(inbox') :
              m \in Elems(inbox) \/ (m.kind \in AboutItems \ {"properties"} /\ m.item = i)
<1>1. PICK q : q = inbox'
  OBVIOUS
<1>2. IsSeq(inbox)
  BY DEF Types, TrayTyped
<1>3. PICK p, r :
        /\ OneMore(inbox, About("vanished", i), p)
        /\ IF fetch[i] = "sent" THEN OneMore(p, About("error", i), r) ELSE r = p
        /\ IF i \in theirs THEN OneMore(r, About("unregistered", i), q) ELSE q = r
  BY <1>1, QuitSends
<1>4. /\ IsSeq(p)
      /\ Elems(p) = Elems(inbox) \cup {About("vanished", i)}
      /\ \A k, j : Has(p, k, j) <=> Has(inbox, k, j) \/ (k = "vanished" /\ j = i)
      /\ \A k : HasKind(p, k) <=> HasKind(inbox, k) \/ k = "vanished"
      /\ \A j, s : HasChange(p, j, s) <=> HasChange(inbox, j, s)
      /\ \A on, off, j :
           /\ Ends(p, on, off, j)
                <=> (on = "vanished" /\ j = i)
                    \/ (Ends(inbox, on, off, j) /\ ~(off = "vanished" /\ j = i))
           /\ EndsSince(p, on, off, j)
                <=> \/ on = "vanished" /\ j = i
                    \/ EndsSince(inbox, on, off, j) /\ ~(off = "vanished" /\ j = i)
      /\ Announced(inbox) => Announced(p)
      /\ \A j, s, c : Current(p, j, s, c) <=> Current(inbox, j, s, c)
  BY <1>2, <1>3, AboutIs
<1>5. /\ IsSeq(r)
      /\ Elems(r) \subseteq Elems(p) \cup {About("error", i)}
      /\ \A k, j : k # "error" => (Has(r, k, j) <=> Has(p, k, j))
      /\ \A j : Has(r, "error", j) => Has(p, "error", j) \/ j = i
      /\ \A k : k # "error" => (HasKind(r, k) <=> HasKind(p, k))
      /\ \A j, s : HasChange(r, j, s) <=> HasChange(p, j, s)
      /\ \A on, off, j : on # "error" /\ off # "error" =>
           /\ Ends(r, on, off, j) <=> Ends(p, on, off, j)
           /\ EndsSince(r, on, off, j) <=> EndsSince(p, on, off, j)
      /\ Announced(p) => Announced(r)
      /\ \A j, s, c : Current(r, j, s, c) <=> Current(p, j, s, c)
  <2>1. CASE fetch[i] = "sent"
    BY <1>3, <1>4, <2>1, AboutIs
  <2>2. CASE fetch[i] # "sent"
    BY <1>3, <1>4, <2>2
  <2> QED BY <2>1, <2>2
<1>6. /\ IsSeq(q)
      /\ Elems(q) \subseteq Elems(r) \cup {About("unregistered", i)}
      /\ \A k, j : Has(q, k, j) <=> Has(r, k, j) \/ (k = "unregistered" /\ j = i /\ i \in theirs)
      /\ \A k : k # "unregistered" => (HasKind(q, k) <=> HasKind(r, k))
      /\ \A j, s : HasChange(q, j, s) <=> HasChange(r, j, s)
      /\ \A on, off, j :
           /\ Ends(q, on, off, j)
                <=> (on = "unregistered" /\ j = i /\ i \in theirs)
                    \/ (Ends(r, on, off, j) /\ ~(off = "unregistered" /\ j = i /\ i \in theirs))
           /\ EndsSince(q, on, off, j)
                <=> \/ on = "unregistered" /\ j = i /\ i \in theirs
                    \/ EndsSince(r, on, off, j)
                       /\ ~(off = "unregistered" /\ j = i /\ i \in theirs)
      /\ Announced(r) => Announced(q)
      /\ \A j, s, c : Current(q, j, s, c) <=> Current(r, j, s, c)
  <2>1. CASE i \in theirs
    BY <1>3, <1>5, <2>1, AboutIs
  <2>2. CASE i \notin theirs
    BY <1>3, <1>5, <2>2
  <2> QED BY <2>1, <2>2
<1>7. /\ \A kind \in {"owner", "NameAcquired", "register", "registered"} :
           HasKind(q, kind) <=> HasKind(inbox, kind)
      /\ Announced(inbox) => Announced(q)
  BY <1>4, <1>5, <1>6
<1>8. /\ \A j : Has(q, "vanished", j) <=> Has(inbox, "vanished", j) \/ j = i
      /\ \A j : Has(q, "unregistered", j)
                  <=> Has(inbox, "unregistered", j) \/ (j = i /\ i \in theirs)
      /\ \A j : Has(q, "error", j) => Has(inbox, "error", j) \/ j = i
  BY <1>4, <1>5, <1>6
<1>9. /\ \A j : Ends(q, "register", "vanished", j)
                  <=> Ends(inbox, "register", "vanished", j) /\ j # i
      /\ \A j : Ends(q, "registered", "unregistered", j)
                  <=> Ends(inbox, "registered", "unregistered", j) /\ ~(j = i /\ i \in theirs)
  BY <1>4, <1>5, <1>6
<1>10. /\ \A j : EndsSince(q, "registered", "unregistered", j)
                   <=> EndsSince(inbox, "registered", "unregistered", j)
                       /\ ~(j = i /\ i \in theirs)
       /\ \A j : EndsSince(q, "unregistered", "registered", j)
                   <=> EndsSince(inbox, "unregistered", "registered", j)
                       \/ (j = i /\ i \in theirs)
  BY <1>4, <1>5, <1>6
<1>11. /\ \A j, s : HasChange(q, j, s) <=> HasChange(inbox, j, s)
       /\ \A j, s, c : Current(q, j, s, c) <=> Current(inbox, j, s, c)
  BY <1>4, <1>5, <1>6
<1>12. \A m \in Elems(q) :
         m \in Elems(inbox) \/ (m.kind \in AboutItems \ {"properties"} /\ m.item = i)
  <2>1. \A kind \in {"vanished", "error", "unregistered"} :
          About(kind, i).kind \in AboutItems \ {"properties"} /\ About(kind, i).item = i
    BY MessagesAre DEF AboutItems, OfItems
  <2> QED BY <1>4, <1>5, <1>6, <2>1
<1> QED BY <1>1, <1>6, <1>7, <1>8, <1>9, <1>10, <1>11, <1>12

\* The messages that others send one at a time.
LEMMA SendIs ==
  ASSUME NEW i \in Item, Register(i) \/ ChangeIcon(i) \/ AnswerGetAll(i) \/ TimeOutGetAll(i)
  PROVE  \E m : /\ OneMore(inbox, m, inbox')
                /\ \/ Register(i) /\ Owner = Tray /\ m = About("register", i)
                   \/ Register(i) /\ Owner # Tray /\ m = About("registered", i)
                   \/ ChangeIcon(i) /\ m = NewIcon(i)
                   \/ AnswerGetAll(i) /\ m = Properties(i)
                   \/ TimeOutGetAll(i) /\ m = About("error", i)
<1>1. CASE Register(i) /\ Owner = Tray
  <2>1. OneMore(inbox, About("register", i), inbox')
    BY <1>1 DEF Register, Sent, OneMore
  <2> QED BY <1>1, <2>1
<1>2. CASE Register(i) /\ Owner # Tray
  <2>1. OneMore(inbox, About("registered", i), inbox')
    BY <1>2 DEF Register, Sent, OneMore
  <2> QED BY <1>2, <2>1
<1>3. CASE ChangeIcon(i)
  <2>1. OneMore(inbox, NewIcon(i), inbox')
    BY <1>3 DEF ChangeIcon, Sent, OneMore
  <2> QED BY <1>3, <2>1
<1>4. CASE AnswerGetAll(i)
  <2>1. OneMore(inbox, Properties(i), inbox')
    BY <1>4 DEF AnswerGetAll, Sent, OneMore
  <2> QED BY <1>4, <2>1
<1>5. CASE TimeOutGetAll(i)
  <2>1. OneMore(inbox, About("error", i), inbox')
    BY <1>5 DEF TimeOutGetAll, Sent, OneMore
  <2> QED BY <1>5, <2>1
<1> QED BY <1>1, <1>2, <1>3, <1>4, <1>5

\* Only reading that the name is its own makes the tray the watcher.
LEMMA TrayModeIs ==
  ASSUME TrayNext
  PROVE  /\ UNCHANGED bus
         /\ \/ Dispatch("NameAcquired") /\ mode' = "Watcher"
            \/ mode' = mode /\ (Refresh \/ Refreshed)
            \/ mode' = mode /\ ~Dispatch("NameAcquired")
BY DEF TrayNext, BecomeWatcher, WatcherChanges, ProgramVanishes, RegisterItem, MirrorRegistered,
       MirrorUnregistered, ItemSignal, PropertiesReply, PropertiesError, UnexpectedReply,
       Refresh, Refreshed, Dispatch

\* Other news do not matter.
LEMMA NameKept ==
  ASSUME NameInv, UNCHANGED <<line, mode>>,
         HasKind(inbox', "NameAcquired") <=> HasKind(inbox, "NameAcquired"),
         Announced(inbox) => Announced(inbox')
  PROVE  NameInv'
BY DEF NameInv, Owner

\* NameInv is inductive, given Ready.
LEMMA NameHolds ==
  /\ Init => NameInv
  /\ Ready /\ NameInv /\ [Next]_vars => NameInv'
<1>1. Init => NameInv
  BY NothingIs DEF Init, NameInv
<1>2. ASSUME Ready, NameInv, [Next]_vars
      PROVE  NameInv'
  <2> USE <1>2
  <2>1. Types /\ IsSeq(inbox)
    BY DEF Ready, Types, TrayTyped
  <2>2. CASE UNCHANGED vars
    <3>1. inbox' = inbox /\ UNCHANGED <<line, mode>>
      BY <2>2 DEF vars, bus
    <3> QED BY <3>1, NameKept
  <2>3. CASE Connect
    <3>1. inbox = <<>> /\ line' = Append(line, Tray) /\ line \in Seq(Watcher \cup {Tray})
      BY <2>1, <2>3 DEF Connect, Ready, Offline, Types
    <3>2. Tray \in ToSet(line') /\ line' # <<>>
      <4>1. line'[Len(line')] = Tray /\ Len(line') = Len(line) + 1 /\ Len(line) \in Nat
        BY <3>1
      <4> QED BY <4>1 DEF ToSet
    <3>3. CASE line = <<>>
      <4>1. inbox' = <<Message("NameAcquired")>> /\ mode' = "Watcher" /\ Owner' = Tray
        BY <2>3, <3>1, <3>3 DEF Connect, Owner
      <4> QED BY <3>2, <4>1 DEF NameInv
    <3>4. CASE line # <<>>
      <4>1. inbox' = <<>> /\ mode' = "Host"
        BY <2>3, <3>1, <3>4 DEF Connect
      <4>2. Owner' = Head(line) /\ Head(line) = line[1] /\ 1 \in 1 .. Len(line)
        BY <3>1, <3>2, <3>4 DEF Owner
      <4>3. Owner' # Tray
        BY <2>3, <4>2 DEF Connect, Contains
      <4> QED BY <3>2, <4>1, <4>3, NothingIs DEF NameInv
    <3> QED BY <3>3, <3>4
  <2>4. CASE TrayNext
    <3>1. UNCHANGED line /\ Owner' = Owner /\ mode # "Disconnected"
      BY <2>4, TrayModeIs, OnTheBus DEF bus, Owner
    <3>2. CASE Refresh \/ Refreshed
      <4>1. mode' = mode
        BY <3>2 DEF Refresh, Refreshed
      <4>2. SameNews(inbox, inbox')
        <5>1. CASE Refresh
          BY <5>1 DEF Refresh, SameNews
        <5>2. CASE Refreshed
          BY <2>1, <5>2, RelistIs DEF Refreshed, Types
        <5> QED BY <3>2, <5>1, <5>2
      <4> QED BY <3>1, <4>1, <4>2, NameKept DEF SameNews, News
    <3>3. CASE ~(Refresh \/ Refreshed)
      <4>1. PICK m, rest :
              /\ m = Head(inbox) /\ Dispatch(m.kind)
              /\ Joined(<<m>>, rest, inbox)
              /\ SameNews(rest, inbox')
        BY <2>4, <3>3, TrayReads
      <4>2. /\ HasKind(inbox, "NameAcquired")
                 <=> m.kind = "NameAcquired" \/ HasKind(inbox', "NameAcquired")
            /\ Announced(inbox) /\ m.kind # "NameAcquired" => Announced(inbox')
        BY <4>1, ReadIs DEF SameNews, News
      <4>3. CASE m.kind = "NameAcquired"
        <5>1. mode' = "Watcher"
          BY <2>4, <3>3, <4>1, <4>3, TrayModeIs
        <5> QED BY <3>1, <4>2, <4>3, <5>1 DEF NameInv
      <4>4. CASE m.kind # "NameAcquired"
        <5>1. mode' = mode
          BY <2>4, <4>1, <4>4, TrayModeIs DEF Dispatch
        <5> QED BY <3>1, <4>2, <4>4, <5>1, NameKept
      <4> QED BY <4>3, <4>4
    <3> QED BY <3>2, <3>3
  <2>5. CASE LoseBus
    <3>1. IsSeq(<<>>) /\ {} \in SUBSET Item /\ Relist({}, <<>>)
      BY <2>5 DEF LoseBus, IsSeq
    <3>2. SameNews(<<>>, inbox')
      BY <2>1, <3>1, RelistIs
    <3>3. ~HasKind(inbox', "NameAcquired")
      BY <3>2, NothingIs DEF SameNews, News
    <3> QED BY <2>5, <3>3 DEF LoseBus, NameInv
  <2>6. CASE Elsewhere
    <3>1. mode # "Disconnected" /\ UNCHANGED mode
      BY <2>6 DEF Elsewhere, AnswerRefresh, TimeOutRefresh, WatcherExits, WatcherGivesUp, Start,
                  Quit, Register, ChangeIcon, AnswerGetAll, TimeOutGetAll, tray
    <3>2. CASE AnswerRefresh \/ TimeOutRefresh \/ \E i \in Item : Start(i)
      <4>1. UNCHANGED <<line, inbox>>
        BY <3>2 DEF AnswerRefresh, TimeOutRefresh, Start, bus
      <4> QED BY <3>1, <4>1, NameKept
    <3>3. CASE WatcherExits
      <4>1. PICK p : /\ OneMore(inbox, NameOwnerChanged(Head(line')), p)
                     /\ IF Owner' = Tray THEN OneMore(p, Message("NameAcquired"), inbox')
                        ELSE inbox' = p
        BY <3>1, <3>3, ExitIs
      <4>2. Tray \in ToSet(line') /\ ~HasKind(inbox, "NameAcquired") /\ mode = "Host"
        BY <3>1, <3>3, ExitIs
      <4>3. PICK m, n : m = NameOwnerChanged(Head(line')) /\ n = Message("NameAcquired")
        OBVIOUS
      <4>4. m.kind = "owner" /\ n.kind = "NameAcquired"
        BY <4>3, MessagesAre
      <4>5. OneMore(inbox, m, p) /\ IF Owner' = Tray THEN OneMore(p, n, inbox') ELSE inbox' = p
        BY <4>1, <4>3
      <4>6. IsSeq(p) /\ ~HasKind(p, "NameAcquired") /\ (Announced(inbox) => Announced(p))
        BY <2>1, <4>2, <4>4, <4>5, SentIs
      <4>7. /\ HasKind(inbox', "NameAcquired") <=> Owner' = Tray
            /\ Announced(p) => Announced(inbox')
        BY <4>4, <4>5, <4>6, SentIs
      <4> QED BY <3>1, <4>2, <4>6, <4>7 DEF NameInv
    <3>4. CASE WatcherGivesUp
      <4>1. Owner' = Owner /\ inbox' = inbox /\ Tray \in ToSet(line')
        BY <2>1, <3>1, <3>4, GivesUpIs DEF Owner, WatcherGivesUp, NameInv
      <4> QED BY <3>1, <4>1 DEF NameInv
    <3>5. ASSUME NEW i \in Item, Quit(i)
          PROVE  NameInv'
      <4>1. UNCHANGED line
        BY <3>5 DEF Quit
      <4> QED BY <2>1, <3>1, <3>5, <4>1, QuitNews, NameKept
    <3>6. ASSUME NEW i \in Item,
                 Register(i) \/ ChangeIcon(i) \/ AnswerGetAll(i) \/ TimeOutGetAll(i)
          PROVE  NameInv'
      <4>1. PICK m : /\ OneMore(inbox, m, inbox')
                     /\ \/ Register(i) /\ Owner = Tray /\ m = About("register", i)
                        \/ Register(i) /\ Owner # Tray /\ m = About("registered", i)
                        \/ ChangeIcon(i) /\ m = NewIcon(i)
                        \/ AnswerGetAll(i) /\ m = Properties(i)
                        \/ TimeOutGetAll(i) /\ m = About("error", i)
        BY <3>6, SendIs
      <4>2. /\ m.kind # "NameAcquired"
            /\ m.kind # "register" \/ Owner = Tray
        BY <4>1, MessagesAre
      <4>3. /\ HasKind(inbox', "NameAcquired") <=> HasKind(inbox, "NameAcquired")
            /\ Announced(inbox) /\ (HasKind(inbox, "NameAcquired") \/ m.kind # "register")
                 => Announced(inbox')
        BY <2>1, <4>1, <4>2, SentIs
      <4>4. UNCHANGED line
        BY <3>6 DEF Register, ChangeIcon, AnswerGetAll, TimeOutGetAll, bus
      <4>5. CASE mode = "Host"
        <5>1. Announced(inbox')
          BY <4>2, <4>3, <4>5 DEF NameInv
        <5> QED BY <3>1, <4>3, <4>4, <5>1, NameKept
      <4>6. CASE mode # "Host"
        BY <3>1, <4>3, <4>4, <4>6 DEF NameInv, Owner
      <4> QED BY <4>5, <4>6
    <3> QED BY <2>6, <3>2, <3>3, <3>4, <3>5, <3>6 DEF Elsewhere
  <2> QED BY <2>2, <2>3, <2>4, <2>5, <2>6 DEF Next
<1> QED BY <1>1, <1>2

\* It always holds.
LEMMA AlwaysNamed == Spec => [](Ready /\ NameInv)
<1>1. Init => Ready /\ NameInv
  BY ReadyHolds, NameHolds
<1>2. Ready /\ NameInv /\ [Next]_vars => (Ready /\ NameInv)'
  BY ReadyHolds, NameHolds
<1> QED BY <1>1, <1>2, PTL DEF Spec

\* The tray is the watcher only with the name, and reads that the name is its own before
\* any program's registration.
THEOREM RegistrationsHeardHolds == Spec => []RegistrationsHeard
<1>1. NameInv => RegistrationsHeard
  BY DEF NameInv, RegistrationsHeard, Announced
<1> QED BY <1>1, AlwaysNamed, PTL

(***************************************************************************)
(* The list.                                                               *)
(***************************************************************************)
\* The call for another watcher's list.
CallInv ==
  /\ get # "no" => mode = "Host" /\ ~needsRefresh
  /\ get # "answered" => ids = {}
  /\ get = "self" => Owner = Tray
  /\ mode = "Watcher" => ~needsRefresh

\* Until the tray first connects.
BeforeConnect ==
  mode = "Disconnected" /\ Tray \notin ToSet(line) =>
    /\ ~needsRefresh /\ ~unanswered
    /\ theirs = (IF line = <<>> THEN {} ELSE alive)
    /\ due = alive \ theirs

\* That the tray has the name is said to the tray when it does.
Told(q) == \E m \in Elems(q) : m.kind = "owner" /\ m.new = Tray
ToldInv == Told(inbox) => Owner = Tray

\* Whether i is listed once q has been read, if S is listed now.
Final(q, S, on, off, i) == Ends(q, on, off, i) \/ (i \in S /\ ~Has(q, off, i))

\* What the tray as the watcher lists once it has read its messages.
TrayList ==
  mode # "Disconnected" /\ Owner = Tray =>
    \A i \in Item :
      Final(inbox, IF mode = "Watcher" THEN items ELSE {}, "register", "vanished", i)
        <=> i \in alive \ due

\* What the tray lists when its call is over.
Mirrored == IF get = "no" THEN items ELSE ids
Unsure == IF get = "no" THEN unanswered ELSE get = "error"

\* The same when it mirrors another watcher's list, and when its call can be trusted.
OthersList ==
  mode = "Host" /\ Owner # Tray =>
    /\ theirs = alive \ due
    /\ \A i \in Item :
         /\ EndsSince(inbox, "registered", "unregistered", i) => i \in theirs
         /\ EndsSince(inbox, "unregistered", "registered", i) => i \notin theirs
    /\ ~needsRefresh /\ ~HasKind(inbox, "owner") /\ get # "asked" =>
         \A i \in Item :
           /\ Final(inbox, Mirrored, "registered", "unregistered", i) => i \in theirs
           /\ i \in theirs =>
                Unsure \/ Final(inbox, Mirrored, "registered", "unregistered", i)

ListInv == CallInv /\ BeforeConnect /\ ToldInv /\ TrayList /\ OthersList

\* Reading about items lists them.
LEMMA ReadFinal ==
  ASSUME NEW q, NEW m, NEW rest, Joined(<<m>>, rest, q), NEW S, NEW T, NEW on, NEW off, NEW i,
         on # off, i \in T <=> Is(m, on, i) \/ (i \in S /\ ~Is(m, off, i))
  PROVE  Final(q, S, on, off, i) <=> Final(rest, T, on, off, i)
<1>1. Ends(q, on, off, i) <=> Ends(rest, on, off, i) \/ (Is(m, on, i) /\ ~Has(rest, off, i))
  BY ReadIs
<1>2. Has(q, off, i) <=> Is(m, off, i) \/ Has(rest, off, i)
  BY ReadIs
<1>3. ~(Is(m, on, i) /\ Is(m, off, i))
  BY DEF Is
<1> QED BY <1>1, <1>2, <1>3 DEF Final

\* The same news make the same list.
LEMMA SameFinal ==
  ASSUME NEW q, NEW r, SameNews(q, r), NEW S, NEW on \in OfItems, NEW off \in OfItems, NEW i
  PROVE  Final(q, S, on, off, i) <=> Final(r, S, on, off, i)
BY DEF SameNews, Final

\* The tray takes itself for the watcher, or lists what the message says.
LEMMA ReadLists ==
  ASSUME Ready, TrayNext, ~(Refresh \/ Refreshed), NEW m, m = Head(inbox), Dispatch(m.kind)
  PROVE  /\ UNCHANGED call /\ get = "no"
         /\ \/ /\ m.kind = "NameAcquired" /\ mode = "Host" /\ mode' = "Watcher"
               /\ items' = {} /\ ~needsRefresh'
            \/ /\ m.kind = "NameAcquired" => mode = "Watcher"
               /\ mode' = mode /\ unanswered' = unanswered
               /\ needsRefresh' = (needsRefresh \/ (mode = "Host" /\ m.kind = "owner" /\ m.new # Tray))
               /\ \A i \in Item :
                    /\ mode = "Watcher" =>
                         (i \in items' <=> \/ Is(m, "register", i) /\ i \in alive
                                           \/ i \in items /\ ~Is(m, "vanished", i))
                    /\ mode = "Host" =>
                         (i \in items' <=> \/ Is(m, "registered", i)
                                           \/ i \in items /\ ~Is(m, "unregistered", i))
<1>1. /\ Types /\ mode \in {"Watcher", "Host"} /\ get = "no" /\ items \subseteq Item
      /\ needsRefresh \in BOOLEAN
  BY DEF Ready, Types, TrayTyped, Dispatch
<1>2. \A kind : Dispatch(kind) => m.kind = kind
  BY DEF Dispatch
<1>3. CASE BecomeWatcher
  <2>1. m.kind = "NameAcquired" /\ UNCHANGED call
    BY <1>2, <1>3 DEF BecomeWatcher
  <2> QED BY <1>1, <1>3, <2>1 DEF BecomeWatcher, list, Is, Relist
<1>4. CASE WatcherChanges
  <2>1. m.kind = "owner"
    BY <1>2, <1>4 DEF WatcherChanges
  <2> QED BY <1>1, <1>4, <2>1 DEF WatcherChanges, list, Is, history
<1>5. CASE ProgramVanishes
  <2>1. m.kind = "vanished" /\ UNCHANGED <<mode, needsRefresh, call, unanswered>>
    BY <1>2, <1>5 DEF ProgramVanishes, history
  <2>2. items' = IF mode = "Watcher" THEN items \ {m.item} ELSE items
    BY <1>5 DEF ProgramVanishes, Relist
  <2> QED BY <1>1, <2>1, <2>2 DEF Is
<1>6. CASE RegisterItem
  <2>1. m.kind = "register" /\ UNCHANGED <<mode, needsRefresh, call, unanswered>>
    BY <1>2, <1>6 DEF RegisterItem, history
  <2>2. items' = IF mode = "Watcher" THEN items \cup ({m.item} \cap alive) ELSE items
    BY <1>6 DEF RegisterItem, Relist
  <2> QED BY <1>1, <2>1, <2>2 DEF Is
<1>7. CASE MirrorRegistered
  <2>1. m.kind = "registered" /\ UNCHANGED <<mode, needsRefresh, call, unanswered>>
    BY <1>2, <1>7 DEF MirrorRegistered, history
  <2>2. items' = IF mode = "Host" THEN items \cup {m.item} ELSE items
    BY <1>7 DEF MirrorRegistered, Relist
  <2> QED BY <1>1, <2>1, <2>2 DEF Is
<1>8. CASE MirrorUnregistered
  <2>1. m.kind = "unregistered" /\ UNCHANGED <<mode, needsRefresh, call, unanswered>>
    BY <1>2, <1>8 DEF MirrorUnregistered, history
  <2>2. items' = IF mode = "Host" THEN items \ {m.item} ELSE items
    BY <1>8 DEF MirrorUnregistered, Relist
  <2> QED BY <1>1, <2>1, <2>2 DEF Is
<1>9. CASE ItemSignal \/ PropertiesReply \/ PropertiesError \/ UnexpectedReply
  <2>1. m.kind \in {"NewIcon", "properties", "error", "unexpected"}
    BY <1>2, <1>9 DEF ItemSignal, PropertiesReply, PropertiesError, UnexpectedReply
  <2>2. UNCHANGED <<items, mode, needsRefresh, call, unanswered>>
    BY <1>9 DEF ItemSignal, PropertiesReply, PropertiesError, UnexpectedReply, history, list
  <2> QED BY <1>1, <2>1, <2>2 DEF Is
<1> QED BY <1>3, <1>4, <1>5, <1>6, <1>7, <1>8, <1>9 DEF TrayNext

\* Reading adds nothing to what the tray was told.
LEMMA ToldIs ==
  ASSUME NEW q, NEW r, NEW is, Elems(r) \subseteq Elems(q) \/ OnlyErrors(q, r, is), Told(r)
  PROVE  Told(q)
BY DEF Told, OnlyErrors

\* Reading a message keeps what the list will be.
LEMMA TrayReadsLists ==
  ASSUME Ready, NameInv, ListInv, TrayNext, ~(Refresh \/ Refreshed)
  PROVE  ListInv'
<1>1. PICK m, rest :
        /\ m = Head(inbox) /\ Dispatch(m.kind) /\ m \in Elems(inbox)
        /\ Joined(<<m>>, rest, inbox)
        /\ SameNews(rest, inbox') /\ OnlyErrors(rest, inbox', items')
  BY TrayReads
<1>2. /\ UNCHANGED <<line, alive, due, theirs>> /\ Owner' = Owner /\ mode # "Disconnected"
      /\ Types /\ CallInv /\ ToldInv /\ TrayList /\ OthersList
  BY TrayModeIs, OnTheBus DEF bus, Owner, Ready, ListInv
<1>3. UNCHANGED call /\ get = "no"
  BY <1>1, ReadLists
<1>4. PICK q : q = inbox'
  OBVIOUS
<1>5. SameNews(rest, q)
  BY <1>1, <1>4
<1>6. CASE m.kind = "NameAcquired" /\ mode = "Host" /\ mode' = "Watcher"
           /\ items' = {} /\ ~needsRefresh'
  <2>1. Owner = Tray
    BY <1>1, <1>6, ReadIs DEF NameInv
  <2>2. CallInv' /\ BeforeConnect'
    BY <1>2, <1>3, <1>6 DEF CallInv, BeforeConnect, call
  <2>3. ToldInv' /\ OthersList'
    BY <1>2, <1>6, <2>1 DEF ToldInv, OthersList
  <2>4. ASSUME NEW i \in Item
        PROVE  Final(q, {}, "register", "vanished", i) <=> i \in alive \ due
    <3>1. Final(inbox, {}, "register", "vanished", i) <=> i \in alive \ due
      BY <1>2, <1>6, <2>1 DEF TrayList
    <3>2. Final(inbox, {}, "register", "vanished", i) <=> Final(rest, {}, "register", "vanished", i)
      BY <1>1, <1>6, ReadFinal DEF Is
    <3>3. Final(rest, {}, "register", "vanished", i) <=> Final(q, {}, "register", "vanished", i)
      BY <1>5, SameFinal DEF OfItems
    <3> QED BY <3>1, <3>2, <3>3
  <2>5. TrayList'
    BY <1>2, <1>4, <1>6, <2>4 DEF TrayList
  <2> QED BY <2>2, <2>3, <2>5 DEF ListInv
<1>7. CASE /\ m.kind = "NameAcquired" => mode = "Watcher"
           /\ mode' = mode /\ unanswered' = unanswered
           /\ needsRefresh' = (needsRefresh \/ (mode = "Host" /\ m.kind = "owner" /\ m.new # Tray))
           /\ \A i \in Item :
                /\ mode = "Watcher" =>
                     (i \in items' <=> \/ Is(m, "register", i) /\ i \in alive
                                       \/ i \in items /\ ~Is(m, "vanished", i))
                /\ mode = "Host" =>
                     (i \in items' <=> \/ Is(m, "registered", i)
                                       \/ i \in items /\ ~Is(m, "unregistered", i))
  <2>1. CallInv' /\ BeforeConnect'
    BY <1>2, <1>3, <1>7 DEF CallInv, BeforeConnect, call
  <2>2. ToldInv'
    <3>1. Told(inbox') => Told(inbox)
      BY <1>1, ToldIs, ReadIs
    <3> QED BY <1>2, <3>1 DEF ToldInv
  <2>3. ASSUME Owner = Tray, NEW i \in Item
        PROVE  Final(q, IF mode = "Watcher" THEN items' ELSE {}, "register", "vanished", i)
                 <=> i \in alive \ due
    <3>1. PICK S : S = IF mode = "Watcher" THEN items ELSE {}
      OBVIOUS
    <3>2. PICK T : T = IF mode = "Watcher" THEN items' ELSE {}
      OBVIOUS
    <3>3. Final(inbox, S, "register", "vanished", i) <=> i \in alive \ due
      BY <1>2, <2>3, <3>1 DEF TrayList
    <3>4. Final(rest, T, "register", "vanished", i) <=> Final(q, T, "register", "vanished", i)
      BY <1>5, SameFinal DEF OfItems
    <3>5. Final(inbox, S, "register", "vanished", i) <=> Final(rest, T, "register", "vanished", i)
      <4>1. CASE mode = "Watcher" /\ Is(m, "register", i) /\ i \notin alive
        <5>1. PICK U : U = T \cup {i}
          OBVIOUS
        <5>2. i \in U <=> Is(m, "register", i) \/ (i \in S /\ ~Is(m, "vanished", i))
          BY <4>1, <5>1
        <5>3. Final(inbox, S, "register", "vanished", i) <=> Final(rest, U, "register", "vanished", i)
          BY <1>1, <5>2, ReadFinal
        <5>4. Final(rest, T, "register", "vanished", i) => Final(rest, U, "register", "vanished", i)
          BY <5>1 DEF Final
        <5> QED BY <3>3, <4>1, <5>3, <5>4
      <4>2. CASE ~(mode = "Watcher" /\ Is(m, "register", i) /\ i \notin alive)
        <5>1. mode = "Host" => ~Is(m, "register", i)
          BY <1>1, ReadIs DEF NameInv, Is
        <5>2. mode \in {"Watcher", "Host"}
          BY <1>2 DEF Types
        <5>3. i \in T <=> Is(m, "register", i) \/ (i \in S /\ ~Is(m, "vanished", i))
          BY <1>7, <3>1, <3>2, <4>2, <5>1, <5>2
        <5> QED BY <1>1, <5>3, ReadFinal
      <4> QED BY <4>1, <4>2
    <3> QED BY <3>2, <3>3, <3>4, <3>5
  <2>4. TrayList'
    BY <1>2, <1>4, <1>7, <2>3 DEF TrayList
  <2>5. ASSUME mode = "Host", Owner # Tray
        PROVE  OthersList'
    <3>1. /\ theirs = alive \ due
          /\ \A i \in Item :
               /\ EndsSince(inbox, "registered", "unregistered", i) => i \in theirs
               /\ EndsSince(inbox, "unregistered", "registered", i) => i \notin theirs
      BY <1>2, <2>5 DEF OthersList
    <3>2. \A i \in Item :
            /\ EndsSince(q, "registered", "unregistered", i) => i \in theirs
            /\ EndsSince(q, "unregistered", "registered", i) => i \notin theirs
      <4>1. \A i \in Item :
              /\ EndsSince(q, "registered", "unregistered", i)
                   <=> EndsSince(rest, "registered", "unregistered", i)
              /\ EndsSince(q, "unregistered", "registered", i)
                   <=> EndsSince(rest, "unregistered", "registered", i)
        BY <1>5 DEF SameNews, OfItems
      <4>2. \A i \in Item :
              /\ EndsSince(rest, "registered", "unregistered", i)
                   => EndsSince(inbox, "registered", "unregistered", i)
              /\ EndsSince(rest, "unregistered", "registered", i)
                   => EndsSince(inbox, "unregistered", "registered", i)
        BY <1>1, ReadIs
      <4> QED BY <3>1, <4>1, <4>2
    <3>3. ASSUME ~needsRefresh', ~HasKind(q, "owner"), NEW i \in Item
          PROVE  /\ Final(q, items', "registered", "unregistered", i) => i \in theirs
                 /\ i \in theirs =>
                      unanswered \/ Final(q, items', "registered", "unregistered", i)
      <4>1. HasKind(inbox, "owner") <=> m.kind = "owner" \/ HasKind(q, "owner")
        BY <1>1, <1>5, ReadIs DEF SameNews, News
      <4>2. m.kind = "owner" => m.new # Tray
        BY <1>1, <1>2, <2>5 DEF ToldInv, Told
      <4>3. ~needsRefresh /\ ~HasKind(inbox, "owner")
        BY <1>7, <2>5, <3>3, <4>1, <4>2
      <4>4. /\ Final(inbox, items, "registered", "unregistered", i) => i \in theirs
            /\ i \in theirs =>
                 unanswered \/ Final(inbox, items, "registered", "unregistered", i)
        BY <1>2, <1>3, <2>5, <4>3 DEF OthersList, Mirrored, Unsure
      <4>5. PICK S, T : S = items /\ T = items'
        OBVIOUS
      <4>6. i \in T <=> Is(m, "registered", i) \/ (i \in S /\ ~Is(m, "unregistered", i))
        BY <1>7, <2>5, <4>5
      <4>7. Final(inbox, S, "registered", "unregistered", i)
              <=> Final(rest, T, "registered", "unregistered", i)
        BY <1>1, <4>6, ReadFinal
      <4>8. Final(rest, T, "registered", "unregistered", i)
              <=> Final(q, T, "registered", "unregistered", i)
        BY <1>5, SameFinal DEF OfItems
      <4> QED BY <4>4, <4>5, <4>7, <4>8
    <3>4. get' = "no"
      BY <1>3 DEF call
    <3> QED BY <1>2, <1>4, <1>7, <3>1, <3>2, <3>3, <3>4 DEF OthersList, Mirrored, Unsure
  <2>6. OthersList'
    BY <1>2, <1>7, <2>5 DEF OthersList
  <2> QED BY <2>1, <2>2, <2>4, <2>6 DEF ListInv
<1> QED BY <1>1, <1>6, <1>7, ReadLists

\* The call and its end.
LEMMA RefreshKeepsList ==
  ASSUME Ready, NameInv, ListInv, Refresh \/ Refreshed
  PROVE  ListInv'
<1>1. /\ Types /\ CallInv /\ ToldInv /\ TrayList /\ OthersList
      /\ mode = "Host" /\ mode' = mode /\ UNCHANGED <<line, alive, due, theirs>> /\ Owner' = Owner
  BY DEF Ready, ListInv, CallInv, Refresh, Refreshed, bus, Owner
<1>2. CallInv' /\ BeforeConnect'
  <2>1. CASE Refresh
    BY <1>1, <2>1 DEF CallInv, BeforeConnect, Refresh
  <2>2. CASE Refreshed
    BY <1>1, <2>2 DEF CallInv, BeforeConnect, Refreshed
  <2> QED BY <2>1, <2>2
<1>3. SameNews(inbox, inbox') /\ OnlyErrors(inbox, inbox', items')
  <2>1. CASE Refresh
    BY <2>1 DEF Refresh, SameNews, OnlyErrors
  <2>2. CASE Refreshed
    BY <1>1, <2>2, RelistIs DEF Refreshed, Types, TrayTyped, OnlyErrors
  <2> QED BY <2>1, <2>2
<1>4. ToldInv'
  BY <1>1, <1>3, ToldIs DEF ToldInv
<1>5. PICK q : q = inbox'
  OBVIOUS
<1>6. SameNews(inbox, q)
  BY <1>3, <1>5
<1>7. TrayList'
  <2>1. \A i \in Item :
          Final(inbox, {}, "register", "vanished", i) <=> Final(q, {}, "register", "vanished", i)
    BY <1>6, SameFinal DEF OfItems
  <2> QED BY <1>1, <1>5, <2>1 DEF TrayList
<1>8. ASSUME Owner # Tray
      PROVE  OthersList'
  <2>1. \A i \in Item :
          /\ EndsSince(q, "registered", "unregistered", i)
               <=> EndsSince(inbox, "registered", "unregistered", i)
          /\ EndsSince(q, "unregistered", "registered", i)
               <=> EndsSince(inbox, "unregistered", "registered", i)
    BY <1>6 DEF SameNews, OfItems
  <2>2. HasKind(q, "owner") <=> HasKind(inbox, "owner")
    BY <1>6 DEF SameNews, News
  <2>3. CASE Refresh
    <3>1. get' = "asked"
      BY <1>8, <2>3 DEF Refresh
    <3> QED BY <1>1, <1>5, <1>8, <2>1, <3>1 DEF OthersList
  <2>4. CASE Refreshed
    <3>1. get \in {"answered", "error"} /\ needsRefresh' = needsRefresh /\ get' = "no"
          /\ unanswered' = (get = "error") /\ items' = ids
      BY <2>4 DEF Refreshed, Relist
    <3>2. PICK S : S = ids
      OBVIOUS
    <3>3. \A i \in Item :
            Final(inbox, S, "registered", "unregistered", i)
              <=> Final(q, S, "registered", "unregistered", i)
      BY <1>6, SameFinal DEF OfItems
    <3>4. Mirrored = S /\ Mirrored' = S /\ Unsure' = Unsure
      BY <3>1, <3>2 DEF Mirrored, Unsure
    <3> QED BY <1>1, <1>5, <1>8, <2>1, <2>2, <3>1, <3>3, <3>4 DEF OthersList
  <2> QED BY <2>3, <2>4
<1>9. OthersList'
  BY <1>1, <1>8 DEF OthersList
<1> QED BY <1>2, <1>4, <1>7, <1>9 DEF ListInv

\* Connecting, and losing the connection.
LEMMA ConnectionKeepsList ==
  ASSUME Ready, NameInv, ListInv, Connect \/ LoseBus
  PROVE  ListInv'
<1>1. Types /\ CallInv /\ ToldInv /\ BeforeConnect
  BY DEF Ready, ListInv
<1>2. CASE Connect
  <2>1. /\ inbox = <<>> /\ items = {} /\ get = "no" /\ line' = Append(line, Tray)
        /\ line \in Seq(Watcher \cup {Tray}) /\ mode = "Disconnected"
        /\ UNCHANGED <<alive, due, theirs, items, call, unanswered>>
    BY <1>1, <1>2 DEF Connect, Ready, Offline, Types, list, history
  <2>2. Tray \notin ToSet(line)
    BY <1>2, <2>1 DEF Connect, Contains, ToSet
  <2>3. ~needsRefresh /\ theirs = (IF line = <<>> THEN {} ELSE alive) /\ due = alive \ theirs
    BY <1>1, <2>1, <2>2 DEF BeforeConnect
  <2>4. CASE line = <<>>
    <3>1. /\ inbox' = <<Message("NameAcquired")>> /\ mode' = "Watcher" /\ ~needsRefresh'
          /\ Owner' = Tray
      BY <1>2, <2>1, <2>3, <2>4 DEF Connect, Owner
    <3>2. PICK m, q : m = Message("NameAcquired") /\ q = inbox'
      OBVIOUS
    <3>3. q = <<m>> /\ m.kind = "NameAcquired"
      BY <3>1, <3>2, MessagesAre
    <3>4. \A i : ~Final(q, {}, "register", "vanished", i)
      BY <3>3, AloneIs DEF Final, Is
    <3>5. CallInv' /\ BeforeConnect' /\ ToldInv' /\ OthersList'
      BY <1>1, <2>1, <3>1 DEF CallInv, BeforeConnect, ToldInv, OthersList, call
    <3>6. TrayList'
      BY <2>1, <2>3, <2>4, <3>1, <3>2, <3>4 DEF TrayList
    <3> QED BY <3>5, <3>6 DEF ListInv
  <2>5. CASE line # <<>>
    <3>1. inbox' = <<>> /\ mode' = "Host" /\ needsRefresh'
      BY <1>2, <2>1, <2>5 DEF Connect
    <3>2. Owner' = Head(line) /\ Head(line) = line[1] /\ 1 \in 1 .. Len(line)
      BY <2>1, <2>5 DEF Owner
    <3>3. Owner' # Tray
      BY <2>2, <3>2 DEF ToSet
    <3>4. CallInv' /\ BeforeConnect' /\ TrayList'
      BY <1>1, <2>1, <3>1, <3>3 DEF CallInv, BeforeConnect, TrayList, call
    <3>5. ToldInv'
      BY <3>1, NothingIs DEF ToldInv, Told
    <3>6. OthersList'
      BY <2>1, <2>3, <2>5, <3>1, NothingIs DEF OthersList
    <3> QED BY <3>4, <3>5, <3>6 DEF ListInv
  <2> QED BY <2>4, <2>5
<1>3. CASE LoseBus
  <2>1. /\ mode' = "Disconnected" /\ UNCHANGED <<line, get, ids, needsRefresh>> /\ get = "no"
        /\ mode # "Disconnected"
    BY <1>3 DEF LoseBus, call, bus
  <2>2. CallInv' /\ TrayList' /\ OthersList'
    BY <1>1, <2>1 DEF CallInv, TrayList, OthersList
  <2>3. BeforeConnect'
    BY <2>1 DEF NameInv, BeforeConnect
  <2>4. ToldInv'
    <3>1. IsSeq(<<>>) /\ {} \in SUBSET Item /\ Relist({}, <<>>)
      BY <1>3 DEF LoseBus, IsSeq
    <3>2. OnlyErrors(<<>>, inbox', {})
      BY <1>1, <3>1, RelistIs DEF OnlyErrors
    <3>3. ~Told(inbox')
      BY <3>2, ToldIs, NothingIs DEF Told
    <3> QED BY <3>3 DEF ToldInv
  <2> QED BY <2>2, <2>3, <2>4 DEF ListInv
<1> QED BY <1>2, <1>3

\* Messages that say nothing of the list.
LEMMA ListKept ==
  ASSUME NameInv, ListInv, mode # "Disconnected",
         UNCHANGED <<line, due, theirs, mode, items, needsRefresh, call, unanswered>>,
         alive' \ due' = alive \ due, NEW q, q = inbox',
         Told(q) => Told(inbox),
         HasKind(q, "owner") <=> HasKind(inbox, "owner"),
         \A on, off \in {"register", "registered", "unregistered", "vanished"} : \A i :
           /\ Has(q, off, i) <=> Has(inbox, off, i)
           /\ Ends(q, on, off, i) <=> Ends(inbox, on, off, i)
           /\ EndsSince(q, on, off, i) <=> EndsSince(inbox, on, off, i)
  PROVE  ListInv'
<1>1. CallInv' /\ BeforeConnect' /\ ToldInv'
  BY DEF ListInv, CallInv, BeforeConnect, ToldInv, Owner, call
<1>2. \A i, S : /\ Final(q, S, "register", "vanished", i)
                     <=> Final(inbox, S, "register", "vanished", i)
                /\ Final(q, S, "registered", "unregistered", i)
                     <=> Final(inbox, S, "registered", "unregistered", i)
  BY DEF Final
<1>3. TrayList'
  BY <1>2 DEF ListInv, TrayList, Owner
<1>4. Mirrored' = Mirrored /\ Unsure' = Unsure
  BY DEF Mirrored, Unsure, call
<1>5. OthersList'
  BY <1>2, <1>4 DEF ListInv, OthersList, Owner, call
<1> QED BY <1>1, <1>3, <1>5 DEF ListInv

\* A watcher is replaced, or the tray is to replace it.
LEMMA ExitKeepsList ==
  ASSUME Ready, NameInv, ListInv, mode # "Disconnected", WatcherExits
  PROVE  ListInv'
<1>1. /\ Types /\ CallInv /\ ToldInv /\ TrayList /\ OthersList /\ Tray \in ToSet(line)
      /\ IsSeq(inbox)
  BY DEF Ready, ListInv, NameInv, Types, TrayTyped
<1>2. /\ mode = "Host" /\ Owner # Tray /\ Owner' = Head(line') /\ Tray \in ToSet(line')
      /\ ~HasKind(inbox, "register")
  BY ExitIs
<1>3. PICK q, m, n : q = inbox' /\ m = NameOwnerChanged(Owner') /\ n = Message("NameAcquired")
  OBVIOUS
<1>4. PICK p : /\ OneMore(inbox, m, p)
               /\ IF Owner' = Tray THEN OneMore(p, n, q) ELSE q = p
  BY <1>2, <1>3, ExitIs
<1>5. m.kind = "owner" /\ m.new = Owner' /\ n.kind = "NameAcquired"
  BY <1>3 DEF NameOwnerChanged, Message
<1>6. /\ mode' = mode /\ theirs' = {} /\ due' = alive /\ alive' = alive
      /\ UNCHANGED <<items, needsRefresh, ids, unanswered>>
      /\ get' = IF get = "asked" THEN "error" ELSE get
  BY DEF WatcherExits, tray, history
<1>7. CallInv' /\ BeforeConnect'
  BY <1>1, <1>2, <1>6 DEF CallInv, BeforeConnect
<1>8. IsSeq(p) /\ HasKind(p, "owner") /\ ~HasKind(p, "register")
      /\ \A i : ~EndsSince(p, "registered", "unregistered", i)
                /\ ~EndsSince(p, "unregistered", "registered", i)
  <2>1. \A k, i : k # "owner" => ~Is(m, k, i)
    BY <1>5 DEF Is
  <2>2. IsSeq(p)
    BY <1>1, <1>4, SentIs
  <2>3. HasKind(p, "owner") /\ ~HasKind(p, "register")
    BY <1>1, <1>2, <1>4, <1>5, SentIs
  <2>4. \A on, off, i : EndsSince(p, on, off, i)
          <=> \/ Is(m, on, i)
              \/ EndsSince(inbox, on, off, i) /\ ~Is(m, off, i) /\ m.kind # "owner"
    BY <1>1, <1>4, SentIs
  <2> QED BY <1>5, <2>1, <2>2, <2>3, <2>4
<1>9. CASE Owner' = Tray
  <2>1. OneMore(p, n, q)
    BY <1>4, <1>9
  <2>2. ~HasKind(q, "register")
    BY <1>5, <1>8, <2>1, SentIs
  <2>3. \A i : ~Ends(q, "register", "vanished", i)
    <3> SUFFICES ASSUME NEW i, Ends(q, "register", "vanished", i) PROVE FALSE
      OBVIOUS
    <3>1. PICK k \in 1 .. Len(q) : Is(q[k], "register", i)
      BY DEF Ends
    <3> QED BY <2>2, <3>1 DEF HasKind, Elems, Is
  <2>4. TrayList'
    BY <1>2, <1>3, <1>6, <2>3 DEF TrayList, Final
  <2>5. ToldInv' /\ OthersList'
    BY <1>9 DEF ToldInv, OthersList
  <2> QED BY <1>7, <2>4, <2>5 DEF ListInv
<1>10. CASE Owner' # Tray
  <2>1. OneMore(inbox, m, q)
    BY <1>4, <1>10
  <2>2. HasKind(q, "owner")
        /\ \A i : ~EndsSince(q, "registered", "unregistered", i)
                  /\ ~EndsSince(q, "unregistered", "registered", i)
    BY <1>4, <1>8, <1>10
  <2>3. Elems(q) = Elems(inbox) \cup {m}
    BY <1>1, <2>1, SentIs
  <2>4. ToldInv'
    <3>1. ~Told(q)
      BY <1>1, <1>2, <1>5, <1>10, <2>3 DEF ToldInv, Told
    <3> QED BY <1>3, <3>1 DEF ToldInv
  <2>5. TrayList'
    BY <1>10 DEF TrayList
  <2>6. OthersList'
    BY <1>1, <1>3, <1>6, <2>2 DEF OthersList, Types
  <2> QED BY <1>7, <2>4, <2>5, <2>6 DEF ListInv
<1> QED BY <1>9, <1>10

\* A program leaves the bus.
LEMMA QuitKeepsList ==
  ASSUME Ready, NameInv, ListInv, mode # "Disconnected", NEW i \in Item, Quit(i)
  PROVE  ListInv'
<1>1. /\ Types /\ CallInv /\ ToldInv /\ TrayList /\ OthersList
  BY DEF Ready, ListInv
<1>2. /\ UNCHANGED <<line, mode, items, needsRefresh, call, unanswered>> /\ Owner' = Owner
      /\ alive' = alive \ {i} /\ due' = due \ {i} /\ theirs' = theirs \ {i}
  BY DEF Quit, tray, history, Owner
<1>3. CallInv' /\ BeforeConnect'
  BY <1>1, <1>2 DEF CallInv, BeforeConnect, call
<1>4. PICK q : q = inbox'
  OBVIOUS
<1>5. /\ HasKind(q, "owner") <=> HasKind(inbox, "owner")
      /\ \A j : Has(q, "vanished", j) <=> Has(inbox, "vanished", j) \/ j = i
      /\ \A j : Ends(q, "register", "vanished", j)
                  <=> Ends(inbox, "register", "vanished", j) /\ j # i
      /\ \A j : Has(q, "unregistered", j)
                  <=> Has(inbox, "unregistered", j) \/ (j = i /\ i \in theirs)
      /\ \A j : Ends(q, "registered", "unregistered", j)
                  <=> Ends(inbox, "registered", "unregistered", j) /\ ~(j = i /\ i \in theirs)
  BY <1>1, <1>4, QuitNews
<1>6. /\ \A j : EndsSince(q, "registered", "unregistered", j)
                  <=> EndsSince(inbox, "registered", "unregistered", j)
                      /\ ~(j = i /\ i \in theirs)
      /\ \A j : EndsSince(q, "unregistered", "registered", j)
                  <=> EndsSince(inbox, "unregistered", "registered", j)
                      \/ (j = i /\ i \in theirs)
  BY <1>1, <1>4, QuitNews
<1>7. ToldInv'
  <2>1. \A m \in Elems(q) : m \in Elems(inbox) \/ m.kind \in AboutItems
    BY <1>1, <1>4, QuitNews
  <2>2. Told(q) => Told(inbox)
    BY <2>1 DEF Told, AboutItems, OfItems
  <2> QED BY <1>1, <1>2, <1>4, <2>2 DEF ToldInv
<1>8. TrayList'
  <2> SUFFICES ASSUME mode # "Disconnected", Owner = Tray, NEW j \in Item
               PROVE  Final(q, IF mode = "Watcher" THEN items ELSE {}, "register", "vanished", j)
                        <=> j \in (alive \ {i}) \ (due \ {i})
    BY <1>2, <1>4 DEF TrayList
  <2>1. PICK S : S = IF mode = "Watcher" THEN items ELSE {}
    OBVIOUS
  <2>2. Final(inbox, S, "register", "vanished", j) <=> j \in alive \ due
    BY <1>1, <2>1 DEF TrayList
  <2>3. Final(q, S, "register", "vanished", j)
          <=> Final(inbox, S, "register", "vanished", j) /\ j # i
    BY <1>5 DEF Final
  <2> QED BY <2>1, <2>2, <2>3
<1>9. OthersList'
  <2> SUFFICES ASSUME mode = "Host", Owner # Tray
               PROVE  OthersList'
    BY <1>2 DEF OthersList
  <2>1. theirs = alive \ due
    BY <1>1 DEF OthersList
  <2>2. \A j \in Item :
          /\ EndsSince(inbox, "registered", "unregistered", j) => j \in theirs
          /\ EndsSince(inbox, "unregistered", "registered", j) => j \notin theirs
    BY <1>1 DEF OthersList
  <2>3. theirs' = alive' \ due'
    BY <1>2, <2>1
  <2>4. \A j \in Item :
          /\ EndsSince(q, "registered", "unregistered", j) => j \in theirs \ {i}
          /\ EndsSince(q, "unregistered", "registered", j) => j \notin theirs \ {i}
    BY <1>6, <2>2
  <2>5. \A S, j : Final(q, S, "registered", "unregistered", j)
          <=> Final(inbox, S, "registered", "unregistered", j) /\ ~(j = i /\ i \in theirs)
    BY <1>5 DEF Final
  <2>6. Mirrored' = Mirrored /\ Unsure' = Unsure
    BY <1>2 DEF Mirrored, Unsure, call
  <2>7. ~needsRefresh /\ ~HasKind(q, "owner") /\ get # "asked" =>
          \A j \in Item :
            /\ Final(q, Mirrored, "registered", "unregistered", j) => j \in theirs \ {i}
            /\ j \in theirs \ {i} =>
                 Unsure \/ Final(q, Mirrored, "registered", "unregistered", j)
    BY <1>1, <1>5, <2>5 DEF OthersList
  <2> QED BY <1>2, <1>4, <2>3, <2>4, <2>6, <2>7 DEF OthersList, call
<1> QED BY <1>3, <1>7, <1>8, <1>9 DEF ListInv

\* A program registers.
LEMMA RegisterKeepsList ==
  ASSUME Ready, NameInv, ListInv, mode # "Disconnected", NEW i \in Item, Register(i)
  PROVE  ListInv'
<1>1. /\ Types /\ CallInv /\ ToldInv /\ TrayList /\ OthersList /\ IsSeq(inbox)
  BY DEF Ready, ListInv, Types, TrayTyped
<1>2. /\ UNCHANGED <<line, alive, mode, items, needsRefresh, call, unanswered>> /\ Owner' = Owner
      /\ i \in due /\ due' = due \ {i} /\ due \subseteq alive
  BY <1>1 DEF Register, tray, history, Owner, Types
<1>3. CallInv' /\ BeforeConnect'
  BY <1>1, <1>2 DEF CallInv, BeforeConnect, call
<1>4. PICK q : q = inbox'
  OBVIOUS
<1>5. CASE Owner = Tray
  <2>1. OneMore(inbox, About("register", i), q)
    BY <1>4, <1>5 DEF Register, Sent, OneMore
  <2>2. /\ Elems(q) = Elems(inbox) \cup {About("register", i)}
        /\ \A k, j : Has(q, k, j) <=> Has(inbox, k, j) \/ (k = "register" /\ j = i)
        /\ \A on, off, j : Ends(q, on, off, j)
             <=> (on = "register" /\ j = i)
                 \/ (Ends(inbox, on, off, j) /\ ~(off = "register" /\ j = i))
    BY <1>1, <2>1, AboutIs
  <2>3. ToldInv' /\ OthersList'
    BY <1>2, <1>5 DEF ToldInv, OthersList
  <2>4. \A S, j : Final(q, S, "register", "vanished", j)
          <=> Final(inbox, S, "register", "vanished", j) \/ j = i
    BY <2>2 DEF Final
  <2>5. TrayList'
    BY <1>1, <1>2, <1>4, <2>4 DEF TrayList
  <2> QED BY <1>3, <2>3, <2>5 DEF ListInv
<1>6. CASE Owner # Tray
  <2>1. OneMore(inbox, About("registered", i), q) /\ theirs' = theirs \cup {i}
    BY <1>4, <1>6 DEF Register, Sent, OneMore
  <2>2. /\ Elems(q) = Elems(inbox) \cup {About("registered", i)}
        /\ \A k : HasKind(q, k) <=> HasKind(inbox, k) \/ k = "registered"
        /\ \A k, j : Has(q, k, j) <=> Has(inbox, k, j) \/ (k = "registered" /\ j = i)
        /\ \A on, off, j :
             /\ Ends(q, on, off, j)
                  <=> (on = "registered" /\ j = i)
                      \/ (Ends(inbox, on, off, j) /\ ~(off = "registered" /\ j = i))
             /\ EndsSince(q, on, off, j)
                  <=> \/ on = "registered" /\ j = i
                      \/ EndsSince(inbox, on, off, j) /\ ~(off = "registered" /\ j = i)
    BY <1>1, <2>1, AboutIs
  <2>3. TrayList'
    BY <1>2, <1>6 DEF TrayList
  <2>4. ToldInv'
    <3>1. Told(q) => Told(inbox)
      BY <2>2, MessagesAre DEF Told
    <3> QED BY <1>1, <1>2, <1>4, <3>1 DEF ToldInv
  <2>5. OthersList'
    <3> SUFFICES ASSUME mode = "Host"
                 PROVE  OthersList'
      BY <1>2 DEF OthersList
    <3>1. theirs = alive \ due
          /\ \A j \in Item :
               /\ EndsSince(inbox, "registered", "unregistered", j) => j \in theirs
               /\ EndsSince(inbox, "unregistered", "registered", j) => j \notin theirs
      BY <1>1, <1>6 DEF OthersList
    <3>2. theirs' = alive' \ due'
      BY <1>2, <2>1, <3>1
    <3>3. \A j \in Item :
            /\ EndsSince(q, "registered", "unregistered", j) => j \in theirs \cup {i}
            /\ EndsSince(q, "unregistered", "registered", j) => j \notin theirs \cup {i}
      BY <2>2, <3>1
    <3>4. \A S, j : Final(q, S, "registered", "unregistered", j)
            <=> Final(inbox, S, "registered", "unregistered", j) \/ j = i
      BY <2>2 DEF Final
    <3>5. Mirrored' = Mirrored /\ Unsure' = Unsure
      BY <1>2 DEF Mirrored, Unsure, call
    <3>6. HasKind(q, "owner") <=> HasKind(inbox, "owner")
      BY <2>2
    <3>7. ~needsRefresh /\ ~HasKind(q, "owner") /\ get # "asked" =>
            \A j \in Item :
              /\ Final(q, Mirrored, "registered", "unregistered", j) => j \in theirs \cup {i}
              /\ j \in theirs \cup {i} =>
                   Unsure \/ Final(q, Mirrored, "registered", "unregistered", j)
      BY <1>1, <1>6, <3>4, <3>6 DEF OthersList
    <3> QED BY <1>2, <1>4, <2>1, <3>2, <3>3, <3>5, <3>7 DEF OthersList, call
  <2> QED BY <1>3, <2>3, <2>4, <2>5 DEF ListInv
<1> QED BY <1>5, <1>6

\* The call is answered, or not.
LEMMA AnswerKeepsList ==
  ASSUME Ready, NameInv, ListInv, AnswerRefresh \/ TimeOutRefresh
  PROVE  ListInv'
<1>1. /\ Types /\ CallInv /\ ToldInv /\ TrayList /\ OthersList /\ IsSeq(inbox)
  BY DEF Ready, ListInv, Types, TrayTyped
<1>2. /\ UNCHANGED <<line, alive, due, theirs, mode, items, needsRefresh, inbox, unanswered>>
      /\ Owner' = Owner /\ get \in {"asked", "self"}
  BY DEF AnswerRefresh, TimeOutRefresh, bus, tray, history, Owner
<1>3. /\ mode = "Host" /\ ~needsRefresh /\ ids = {}
  BY <1>1, <1>2 DEF CallInv
<1>4. \/ get' = "answered" /\ ids' = theirs /\ get = "asked"
      \/ get' = "error" /\ ids' = {}
  BY <1>3 DEF AnswerRefresh, TimeOutRefresh
<1>5. CallInv' /\ BeforeConnect' /\ ToldInv' /\ TrayList'
  BY <1>1, <1>2, <1>3, <1>4 DEF CallInv, BeforeConnect, ToldInv, TrayList
<1>6. OthersList'
  <2> SUFFICES ASSUME Owner # Tray
               PROVE  OthersList'
    BY <1>2 DEF OthersList
  <2>1. theirs = alive \ due
        /\ \A i \in Item :
             /\ EndsSince(inbox, "registered", "unregistered", i) => i \in theirs
             /\ EndsSince(inbox, "unregistered", "registered", i) => i \notin theirs
    BY <1>1, <1>3 DEF OthersList
  <2>2. ASSUME ~HasKind(inbox, "owner"), NEW i \in Item
        PROVE  /\ Ends(inbox, "registered", "unregistered", i) => i \in theirs
               /\ Ends(inbox, "unregistered", "registered", i) => i \notin theirs
    <3>1. Len(inbox) \in Nat
      BY <1>1 DEF IsSeq
    <3> QED BY <2>1, <2>2, <3>1, EndsSinceIs
  <2>3. ASSUME ~HasKind(inbox, "owner"), NEW i \in Item
        PROVE  /\ Final(inbox, Mirrored', "registered", "unregistered", i) => i \in theirs
               /\ i \in theirs =>
                    Unsure' \/ Final(inbox, Mirrored', "registered", "unregistered", i)
    <3>1. CASE get' = "answered" /\ ids' = theirs
      <4>1. Mirrored' = theirs
        BY <3>1 DEF Mirrored
      <4>2. i \in theirs => Final(inbox, theirs, "registered", "unregistered", i)
        BY <1>1, <2>2, <2>3, OneEnds DEF Final
      <4>3. Final(inbox, theirs, "registered", "unregistered", i) => i \in theirs
        BY <2>2, <2>3 DEF Final
      <4> QED BY <4>1, <4>2, <4>3
    <3>2. CASE get' = "error" /\ ids' = {}
      <4>1. Mirrored' = {} /\ Unsure'
        BY <3>2 DEF Mirrored, Unsure
      <4>2. Final(inbox, {}, "registered", "unregistered", i) => i \in theirs
        BY <2>2, <2>3 DEF Final
      <4> QED BY <4>1, <4>2
    <3> QED BY <1>4, <3>1, <3>2
  <2> QED BY <1>2, <2>1, <2>3 DEF OthersList
<1> QED BY <1>5, <1>6 DEF ListInv

\* What else programs do.
LEMMA OthersKeepList ==
  ASSUME Ready, NameInv, ListInv, Elsewhere
  PROVE  ListInv'
<1>1. mode # "Disconnected" /\ Types /\ IsSeq(inbox)
  BY DEF Elsewhere, Ready, Types, TrayTyped
<1>2. CASE AnswerRefresh \/ TimeOutRefresh
  BY <1>2, AnswerKeepsList
<1>3. CASE WatcherExits
  BY <1>1, <1>3, ExitKeepsList
<1>4. CASE WatcherGivesUp
  <2>1. Owner' = Owner /\ Tray \in ToSet(line')
        /\ UNCHANGED <<alive, due, theirs, inbox, mode, items, needsRefresh, call, unanswered>>
    BY <1>1, <1>4, GivesUpIs DEF Owner, WatcherGivesUp, NameInv, tray, history
  <2>2. CallInv' /\ BeforeConnect' /\ ToldInv'
    BY <2>1 DEF ListInv, CallInv, BeforeConnect, ToldInv, call
  <2>3. TrayList'
    BY <2>1 DEF ListInv, TrayList
  <2>4. Mirrored' = Mirrored /\ Unsure' = Unsure
    BY <2>1 DEF Mirrored, Unsure, call
  <2>5. OthersList'
    BY <2>1, <2>4 DEF ListInv, OthersList, call
  <2> QED BY <2>2, <2>3, <2>5 DEF ListInv
<1>5. ASSUME NEW i \in Item, Start(i)
      PROVE  ListInv'
  <2>1. /\ UNCHANGED <<line, theirs, inbox, mode, items, needsRefresh, call, unanswered>>
        /\ Owner' = Owner
        /\ i \notin alive /\ alive' = alive \cup {i} /\ due' = due \cup {i}
    BY <1>5 DEF Start, tray, history, Owner
  <2>2. alive' \ due' = alive \ due
    BY <2>1
  <2>3. CallInv' /\ BeforeConnect' /\ ToldInv'
    BY <1>1, <2>1 DEF ListInv, CallInv, BeforeConnect, ToldInv, call
  <2>4. TrayList'
    BY <2>1, <2>2 DEF ListInv, TrayList
  <2>5. Mirrored' = Mirrored /\ Unsure' = Unsure
    BY <2>1 DEF Mirrored, Unsure, call
  <2>6. OthersList'
    BY <2>1, <2>2, <2>5 DEF ListInv, OthersList, call
  <2> QED BY <2>3, <2>4, <2>6 DEF ListInv
<1>6. ASSUME NEW i \in Item, Quit(i)
      PROVE  ListInv'
  BY <1>1, <1>6, QuitKeepsList
<1>7. ASSUME NEW i \in Item, Register(i)
      PROVE  ListInv'
  BY <1>1, <1>7, RegisterKeepsList
<1>8. ASSUME NEW i \in Item, ChangeIcon(i) \/ AnswerGetAll(i) \/ TimeOutGetAll(i)
      PROVE  ListInv'
  <2>1. UNCHANGED <<line, alive, due, theirs, mode, items, needsRefresh, call, unanswered>>
    BY <1>8 DEF ChangeIcon, AnswerGetAll, TimeOutGetAll, bus, tray, history
  <2>2. \E m : OneMore(inbox, m, inbox') /\ m \in {NewIcon(i), Properties(i), About("error", i)}
    <3>1. CASE ChangeIcon(i)
      BY <3>1 DEF ChangeIcon, Sent, OneMore
    <3>2. CASE AnswerGetAll(i)
      BY <3>2 DEF AnswerGetAll, Sent, OneMore
    <3>3. CASE TimeOutGetAll(i)
      BY <3>3 DEF TimeOutGetAll, Sent, OneMore
    <3> QED BY <1>8, <3>1, <3>2, <3>3
  <2>3. PICK q : q = inbox'
    OBVIOUS
  <2>4. PICK m : /\ OneMore(inbox, m, q)
                 /\ m \in {NewIcon(i), Properties(i), About("error", i)}
    BY <2>2, <2>3
  <2>5. m.kind \in {"NewIcon", "properties", "error"}
    BY <2>4, MessagesAre
  <2>6. \A k \in {"register", "registered", "unregistered", "vanished"} : \A j : ~Is(m, k, j)
    BY <2>5 DEF Is
  <2>7. /\ Elems(q) = Elems(inbox) \cup {m}
        /\ HasKind(q, "owner") <=> HasKind(inbox, "owner")
    BY <1>1, <2>4, <2>5, SentIs
  <2>8. Told(q) => Told(inbox)
    BY <2>5, <2>7 DEF Told
  <2>9. \A off, j : Has(q, off, j) <=> Has(inbox, off, j) \/ Is(m, off, j)
    BY <1>1, <2>4, SentIs
  <2>10. \A on, off, j :
           /\ Ends(q, on, off, j)
                <=> Is(m, on, j) \/ (Ends(inbox, on, off, j) /\ ~Is(m, off, j))
           /\ EndsSince(q, on, off, j)
                <=> \/ Is(m, on, j)
                    \/ EndsSince(inbox, on, off, j) /\ ~Is(m, off, j) /\ m.kind # "owner"
    BY <1>1, <2>4, SentIs
  <2>11. \A on, off \in {"register", "registered", "unregistered", "vanished"} : \A j :
           /\ Has(q, off, j) <=> Has(inbox, off, j)
           /\ Ends(q, on, off, j) <=> Ends(inbox, on, off, j)
           /\ EndsSince(q, on, off, j) <=> EndsSince(inbox, on, off, j)
    BY <2>5, <2>6, <2>9, <2>10
  <2> QED BY <1>1, <2>1, <2>3, <2>7, <2>8, <2>11, ListKept
<1> QED BY <1>2, <1>3, <1>4, <1>5, <1>6, <1>7, <1>8 DEF Elsewhere

\* ListInv is inductive, given Ready and NameInv.
LEMMA ListHolds ==
  /\ Init => ListInv
  /\ Ready /\ NameInv /\ ListInv /\ [Next]_vars => ListInv'
<1>1. ASSUME Init
      PROVE  ListInv
  <2>1. /\ mode = "Disconnected" /\ get = "no" /\ ids = {} /\ ~needsRefresh /\ ~unanswered
        /\ theirs = (IF line = <<>> THEN {} ELSE alive) /\ due = alive \ theirs /\ inbox = <<>>
    BY <1>1 DEF Init
  <2>2. ~Told(<<>>)
    BY NothingIs DEF Told
  <2> QED BY <2>1, <2>2
          DEF ListInv, CallInv, BeforeConnect, ToldInv, TrayList, OthersList
<1>2. ASSUME Ready, NameInv, ListInv, [Next]_vars
      PROVE  ListInv'
  <2>1. CASE UNCHANGED vars
    BY <1>2, <2>1 DEF vars, bus, call, list, history, ListInv, CallInv, BeforeConnect, ToldInv,
                      TrayList, OthersList, Mirrored, Unsure, Owner
  <2>2. CASE Connect \/ LoseBus
    BY <1>2, <2>2, ConnectionKeepsList
  <2>3. CASE TrayNext
    BY <1>2, <2>3, TrayReadsLists, RefreshKeepsList
  <2>4. CASE Elsewhere
    BY <1>2, <2>4, OthersKeepList
  <2> QED BY <1>2, <2>1, <2>2, <2>3, <2>4 DEF Next
<1> QED BY <1>1, <1>2

\* It always holds.
LEMMA AlwaysListed == Spec => [](Ready /\ NameInv /\ ListInv)
<1>1. Init => Ready /\ NameInv /\ ListInv
  BY ReadyHolds, NameHolds, ListHolds
<1>2. Ready /\ NameInv /\ ListInv /\ [Next]_vars => (Ready /\ NameInv /\ ListInv)'
  BY ReadyHolds, NameHolds, ListHolds
<1> QED BY <1>1, <1>2, PTL DEF Spec

\* When the tray has read all there is, its icons are those of the programs that have
\* registered, through any sequence of watchers and of programs.
THEOREM ListIsTrueHolds == Spec => []ListIsTrue
<1>1. ASSUME Ready, NameInv, ListInv, Quiet
      PROVE  /\ items \subseteq alive \ due
             /\ unanswered \/ items = alive \ due
  <2>1. /\ items \subseteq Item /\ alive \subseteq Item
        /\ mode \in {"Watcher", "Host"} /\ inbox = <<>> /\ ~needsRefresh /\ get = "no"
    BY <1>1 DEF Ready, Types, TrayTyped, Quiet
  <2>2. \A S, on, off, i : Final(inbox, S, on, off, i) <=> i \in S
    BY <2>1, NothingIs DEF Final
  <2>3. CASE Owner = Tray
    <3>1. mode = "Watcher"
      BY <1>1, <2>1, <2>3, NothingIs DEF NameInv
    <3>2. \A i \in Item : i \in items <=> i \in alive \ due
      BY <1>1, <2>1, <2>2, <2>3, <3>1 DEF ListInv, TrayList
    <3> QED BY <2>1, <3>2
  <2>4. CASE Owner # Tray
    <3>1. mode = "Host"
      BY <1>1, <2>1, <2>4 DEF NameInv
    <3>2. theirs = alive \ due
          /\ \A i \in Item : /\ i \in items => i \in theirs
                             /\ i \in theirs => unanswered \/ i \in items
      BY <1>1, <2>1, <2>2, <2>4, <3>1, NothingIs
         DEF ListInv, OthersList, Mirrored, Unsure
    <3> QED BY <2>1, <3>2
  <2> QED BY <2>3, <2>4
<1>2. Ready /\ NameInv /\ ListInv => ListIsTrue
  BY <1>1 DEF ListIsTrue
<1> QED BY <1>2, AlwaysListed, PTL

(***************************************************************************)
(* The icons.                                                              *)
(***************************************************************************)
\* What is heard of a program is of a start of it, and the owner of an item that is not
\* Named is the program's only one.
OwnersInv ==
  /\ \A i \in items \cup ids \cup theirs \cup alive : instance[i] > 0
  /\ \A i \in Item \ Named : instance[i] <= 1
  /\ \A i \in Item : owner[i] # None => owner[i] <= instance[i]
  /\ \A i \in items \ Named : owner[i] = instance[i]

Heard(m) ==
  /\ m.kind \in AboutItems => instance[m.item] > 0
  /\ m.kind = "properties" => m.sender > 0 /\ m.sender <= instance[m.item]
HeardInv == \A m \in Elems(inbox) : Heard(m)

\* An item is shown as it is, or is excused, or the tray is yet to read that it is not.
Good(i) ==
  \/ shown[i] = icon[i]
  \/ i \in failed \/ i \notin alive \/ (i \in Named /\ owner[i] # instance[i])
  \/ HasChange(inbox, i, instance[i])

IconInv ==
  /\ \A i \in items : fetch[i] = "no" \/ Has(inbox, "error", i) => Good(i)
  /\ \A i \in Item : Current(inbox, i, instance[i], icon[i])

\* Items listed anew.
LEMMA RelistKeepsOwners ==
  ASSUME Types, OwnersInv, NEW q, IsSeq(q), NEW wanted \in SUBSET Item, Relist(wanted, q),
         \A i \in wanted : instance[i] > 0,
         ids' \subseteq ids, UNCHANGED <<instance, theirs, alive>>
  PROVE  OwnersInv'
<1>1. items' = wanted
      /\ \A i \in Item :
           /\ i \in wanted /\ i \in items => owner'[i] = owner[i]
           /\ i \in wanted /\ i \notin items => owner'[i] = FirstOwner(i)
           /\ i \notin wanted => owner'[i] = None
  BY RelistIs
<1>2. \A i \in items' \cup ids' \cup theirs' \cup alive' : instance'[i] > 0
  BY <1>1 DEF OwnersInv
<1>3. instance \in [Item -> Nat] /\ None \notin Nat
  BY ConstantsOK DEF Types
<1>4. ASSUME NEW i \in Item, owner'[i] # None
      PROVE  owner'[i] <= instance'[i]
  <2>1. CASE i \in wanted /\ i \in items
    BY <1>1, <1>4, <2>1 DEF OwnersInv
  <2>2. CASE i \in wanted /\ i \notin items
    BY <1>1, <1>3, <1>4, <2>2 DEF FirstOwner
  <2> QED BY <1>1, <1>4, <2>1, <2>2
<1>5. ASSUME NEW i \in items' \ Named
      PROVE  owner'[i] = instance'[i]
  <2>1. i \in Item /\ i \in wanted
    BY <1>1, <1>5
  <2>2. CASE i \in items
    BY <1>1, <1>5, <2>1, <2>2 DEF OwnersInv
  <2>3. CASE i \notin items
    BY <1>1, <1>5, <2>1, <2>3 DEF FirstOwner
  <2> QED BY <2>2, <2>3
<1> QED BY <1>2, <1>4, <1>5 DEF OwnersInv

\* What the tray lists are programs it has heard of, and their owners.
LEMMA TrayKeepsOwners ==
  ASSUME Ready, OwnersInv, HeardInv, TrayNext
  PROVE  OwnersInv'
<1>1. /\ Types /\ IsSeq(inbox) /\ items \subseteq Item /\ ids \subseteq Item /\ alive \subseteq Item
      /\ UNCHANGED <<instance, theirs, alive>>
  BY TrayModeIs DEF Ready, Types, TrayTyped, bus
<1>2. \A i \in items \cup ids \cup alive : instance[i] > 0
  BY DEF OwnersInv
<1>3. ASSUME NEW kind, Dispatch(kind)
      PROVE  /\ IsSeq(Rest) /\ Head(inbox).kind = kind
             /\ kind \in AboutItems => Head(inbox).item \in Item
             /\ Heard(Head(inbox))
  BY <1>1, <1>3, DispatchIs, HeadIs DEF HeardInv
<1>4. CASE BecomeWatcher
  <2>1. CASE mode = "Watcher"
    BY <1>1, <1>4, <2>1 DEF BecomeWatcher, list, call, OwnersInv
  <2>2. CASE mode # "Watcher"
    <3>1. Relist({}, Rest) /\ ids' = ids /\ IsSeq(Rest)
      BY <1>3, <1>4, <2>2 DEF BecomeWatcher, call
    <3>2. PICK wanted : wanted = {}
      OBVIOUS
    <3>3. Relist(wanted, Rest) /\ wanted \in SUBSET Item /\ \A i \in wanted : instance[i] > 0
      BY <3>1, <3>2
    <3> QED BY <1>1, <3>1, <3>3, RelistKeepsOwners
  <2> QED BY <2>1, <2>2
<1>5. CASE WatcherChanges \/ ItemSignal \/ PropertiesError \/ UnexpectedReply \/ Refresh
  <2>1. UNCHANGED <<items, owner, ids>>
    BY <1>5 DEF WatcherChanges, ItemSignal, PropertiesError, UnexpectedReply, Refresh, list, call
  <2> QED BY <1>1, <2>1 DEF OwnersInv
<1>6. CASE PropertiesReply
  <2>1. PICK m : m = Head(inbox)
    OBVIOUS
  <2>2. m.kind = "properties" /\ m.item \in Item /\ Heard(m) /\ m.sender \in Nat
    BY <1>1, <1>3, <1>6, <2>1, HeadIs DEF PropertiesReply, AboutItems
  <2>3. m.sender > 0 /\ m.sender <= instance[m.item] /\ instance[m.item] \in Nat
    BY <1>1, <2>2 DEF Heard, Types
  <2>4. owner' = [owner EXCEPT ![m.item] = m.sender] /\ UNCHANGED <<items, ids>>
    BY <1>6, <2>1 DEF PropertiesReply, call
  <2>5. \A i \in Item : owner'[i] = IF i = m.item THEN m.sender ELSE owner[i]
    BY <1>1, <2>4 DEF Types, TrayTyped
  <2>6. \A i \in Item : owner'[i] # None => owner'[i] <= instance[i]
    BY <2>3, <2>5 DEF OwnersInv
  <2>7. \A i \in items \ Named : owner'[i] = instance[i]
    <3> SUFFICES ASSUME NEW i \in items \ Named PROVE owner'[i] = instance[i]
      OBVIOUS
    <3>1. i \in Item /\ instance[i] <= 1
      BY <1>1 DEF OwnersInv
    <3>2. CASE i = m.item
      BY <2>2, <2>3, <2>5, <3>1, <3>2
    <3>3. CASE i # m.item
      BY <2>5, <3>1, <3>3 DEF OwnersInv
    <3> QED BY <3>2, <3>3
  <2> QED BY <1>1, <2>4, <2>6, <2>7 DEF OwnersInv
<1>7. ASSUME NEW wanted \in SUBSET Item, NEW kind, Dispatch(kind), Relist(wanted, Rest),
             ids' = ids, \A i \in wanted : instance[i] > 0
      PROVE  OwnersInv'
  BY <1>1, <1>3, <1>7, RelistKeepsOwners
<1>8. CASE ProgramVanishes
  <2>1. PICK wanted : wanted = IF mode = "Watcher" THEN items \ {Head(inbox).item} ELSE items
    OBVIOUS
  <2>2. Relist(wanted, Rest) /\ Dispatch("vanished") /\ ids' = ids
    BY <1>8, <2>1 DEF ProgramVanishes, call
  <2>3. wanted \in SUBSET Item /\ \A i \in wanted : instance[i] > 0
    BY <1>1, <1>2, <2>1
  <2> QED BY <1>7, <2>2, <2>3
<1>9. CASE RegisterItem
  <2>1. PICK wanted : wanted = IF mode = "Watcher" THEN items \cup ({Head(inbox).item} \cap alive)
                               ELSE items
    OBVIOUS
  <2>2. Relist(wanted, Rest) /\ Dispatch("register") /\ ids' = ids
    BY <1>9, <2>1 DEF RegisterItem, call
  <2>3. wanted \in SUBSET Item /\ \A i \in wanted : instance[i] > 0
    BY <1>1, <1>2, <2>1
  <2> QED BY <1>7, <2>2, <2>3
<1>10. CASE MirrorRegistered
  <2>1. PICK wanted : wanted = IF mode = "Host" THEN items \cup {Head(inbox).item} ELSE items
    OBVIOUS
  <2>2. Relist(wanted, Rest) /\ Dispatch("registered") /\ ids' = ids
    BY <1>10, <2>1 DEF MirrorRegistered, call
  <2>3. Head(inbox).item \in Item /\ instance[Head(inbox).item] > 0
    BY <1>3, <2>2 DEF AboutItems, OfItems, Heard
  <2>4. wanted \in SUBSET Item /\ \A i \in wanted : instance[i] > 0
    BY <1>1, <1>2, <2>1, <2>3
  <2> QED BY <1>7, <2>2, <2>4
<1>11. CASE MirrorUnregistered
  <2>1. PICK wanted : wanted = IF mode = "Host" THEN items \ {Head(inbox).item} ELSE items
    OBVIOUS
  <2>2. Relist(wanted, Rest) /\ Dispatch("unregistered") /\ ids' = ids
    BY <1>11, <2>1 DEF MirrorUnregistered, call
  <2>3. wanted \in SUBSET Item /\ \A i \in wanted : instance[i] > 0
    BY <1>1, <1>2, <2>1
  <2> QED BY <1>7, <2>2, <2>3
<1>12. CASE Refreshed
  <2>1. Relist(ids, inbox) /\ ids' = {}
    BY <1>12 DEF Refreshed
  <2>2. PICK wanted, q : wanted = ids /\ q = inbox
    OBVIOUS
  <2>3. wanted \in SUBSET Item /\ IsSeq(q) /\ Relist(wanted, q)
        /\ \A i \in wanted : instance[i] > 0
    BY <1>1, <1>2, <2>1, <2>2
  <2> QED BY <1>1, <2>1, <2>3, RelistKeepsOwners
<1> QED BY <1>4, <1>5, <1>6, <1>8, <1>9, <1>10, <1>11, <1>12 DEF TrayNext

\* The tray's own errors are about what it lists.
LEMMA TrayKeepsHeard ==
  ASSUME Ready, OwnersInv, HeardInv, TrayNext
  PROVE  HeardInv'
<1>1. UNCHANGED instance /\ OwnersInv'
  BY TrayModeIs, TrayKeepsOwners DEF bus
<1>2. \A x \in Elems(inbox') :
        x \in Elems(inbox) \/ x.kind = "unexpected" \/ (x.kind = "error" /\ x.item \in items')
  <2>1. CASE OnlyErrors(inbox, inbox', items')
    BY <2>1 DEF OnlyErrors
  <2>2. CASE \E m, rest : Joined(<<m>>, rest, inbox) /\ OnlyErrors(rest, inbox', items')
    BY <2>2, ReadIs DEF OnlyErrors
  <2> QED BY <2>1, <2>2, TrayReads
<1>3. \A i \in items' : instance'[i] > 0
  BY <1>1 DEF OwnersInv
<1>4. ASSUME NEW x \in Elems(inbox')
      PROVE  Heard(x)'
  <2>1. CASE x \in Elems(inbox)
    BY <1>1, <2>1 DEF HeardInv, Heard
  <2>2. CASE x.kind = "unexpected"
    BY <2>2 DEF Heard, AboutItems, OfItems
  <2>3. CASE x.kind = "error" /\ x.item \in items'
    BY <1>3, <2>3 DEF Heard
  <2> QED BY <1>2, <2>1, <2>2, <2>3
<1> QED BY <1>4 DEF HeardInv

\* More messages about programs that have started.
LEMMA HeardKept ==
  ASSUME HeardInv, UNCHANGED instance,
         \A m \in Elems(inbox') :
           \/ m \in Elems(inbox) \/ m.kind \notin AboutItems
           \/ instance[m.item] > 0 /\ m.kind # "properties"
  PROVE  HeardInv'
<1>1. ASSUME NEW m \in Elems(inbox')
      PROVE  Heard(m)'
  BY <1>1 DEF HeardInv, Heard, AboutItems
<1> QED BY <1>1 DEF HeardInv

\* What the others say is of programs that have started.
LEMMA OthersKeepHeard ==
  ASSUME Ready, NameInv, OwnersInv, HeardInv, Elsewhere
  PROVE  OwnersInv' /\ HeardInv'
<1>1. /\ mode # "Disconnected" /\ Types /\ IsSeq(inbox) /\ due \subseteq alive
      /\ theirs \subseteq Item /\ alive \subseteq Item /\ items \subseteq Item /\ ids \subseteq Item
      /\ instance \in [Item -> Nat] /\ Replies
  BY DEF Elsewhere, Ready, Types, TrayTyped
<1>2. \A i \in items \cup ids \cup theirs \cup alive : instance[i] > 0
  BY DEF OwnersInv
<1>3. CASE AnswerRefresh \/ TimeOutRefresh \/ WatcherGivesUp
  <2>1. UNCHANGED <<instance, inbox, items, owner, theirs, alive>> /\ ids' \subseteq ids \cup theirs
    BY <1>3 DEF AnswerRefresh, TimeOutRefresh, WatcherGivesUp, bus, tray, call
  <2> QED BY <1>2, <2>1 DEF OwnersInv, HeardInv, Heard
<1>4. CASE WatcherExits
  <2>1. UNCHANGED <<instance, items, owner, alive, ids>> /\ theirs' = {}
    BY <1>4 DEF WatcherExits, tray
  <2>2. PICK q, m, n : q = inbox' /\ m = NameOwnerChanged(Head(line')) /\ n = Message("NameAcquired")
    OBVIOUS
  <2>3. PICK p : /\ OneMore(inbox, m, p)
                 /\ IF Owner' = Tray THEN OneMore(p, n, q) ELSE q = p
    BY <1>1, <1>4, <2>2, ExitIs
  <2>4. m.kind = "owner" /\ n.kind = "NameAcquired"
    BY <2>2, MessagesAre
  <2>5. Elems(p) = Elems(inbox) \cup {m} /\ IsSeq(p)
    BY <1>1, <2>3, SentIs
  <2>6. Elems(q) \subseteq Elems(p) \cup {n}
    BY <2>3, <2>5, SentIs
  <2>7. \A x \in Elems(q) : x \in Elems(inbox) \/ x.kind \notin AboutItems
    BY <2>4, <2>5, <2>6 DEF AboutItems, OfItems
  <2>8. HeardInv'
    BY <2>1, <2>2, <2>7, HeardKept
  <2> QED BY <2>1, <2>8 DEF OwnersInv
<1>5. ASSUME NEW i \in Item, Start(i)
      PROVE  OwnersInv' /\ HeardInv'
  <2>1. /\ UNCHANGED <<inbox, items, owner, theirs, ids>> /\ alive' = alive \cup {i}
        /\ i \in Named \/ instance[i] = 0
        /\ instance' = [instance EXCEPT ![i] = @ + 1]
    BY <1>5 DEF Start, tray, call
  <2>2. \A j \in Item : instance'[j] = IF j = i THEN instance[i] + 1 ELSE instance[j]
    BY <1>1, <2>1
  <2>3. \A j \in items' \cup ids' \cup theirs' \cup alive' : instance'[j] > 0
    BY <1>1, <1>2, <2>1, <2>2
  <2>4. \A j \in Item \ Named : instance'[j] <= 1
    BY <2>1, <2>2 DEF OwnersInv
  <2>5. ASSUME NEW j \in Item, owner'[j] # None
        PROVE  owner'[j] <= instance'[j]
    <3>1. owner[j] <= instance[j] /\ owner[j] \in Nat /\ instance[j] \in Nat
      BY <1>1, <2>1, <2>5 DEF OwnersInv, Types, TrayTyped
    <3> QED BY <2>1, <2>2, <3>1
  <2>6. \A j \in items \ Named : j # i
    BY <1>2, <2>1
  <2>7. \A j \in items' \ Named : owner'[j] = instance'[j]
    BY <1>1, <2>1, <2>2, <2>6 DEF OwnersInv
  <2>8. ASSUME NEW m \in Elems(inbox)
        PROVE  Heard(m)'
    <3>1. Heard(m) /\ (m.kind \in AboutItems => m.item \in Item)
          /\ (m.kind = "properties" => m.sender \in Nat)
      BY <1>1, <2>8 DEF HeardInv, Types, TrayTyped, ItemsOK
    <3>2. m.kind = "properties" => m.item \in Item
      BY <3>1 DEF AboutItems
    <3>3. \A j \in Item : instance[j] \in Nat
      BY <1>1
    <3>4. m.kind \in AboutItems => instance'[m.item] > 0
      BY <2>2, <3>1, <3>3 DEF Heard
    <3>5. m.kind = "properties" => m.sender > 0 /\ m.sender <= instance'[m.item]
      BY <2>2, <3>1, <3>2, <3>3 DEF Heard
    <3> QED BY <3>4, <3>5 DEF Heard
  <2>9. HeardInv'
    BY <2>1, <2>8 DEF HeardInv
  <2> QED BY <2>3, <2>4, <2>5, <2>7, <2>9 DEF OwnersInv
<1>6. ASSUME NEW i \in Item, Quit(i)
      PROVE  OwnersInv' /\ HeardInv'
  <2>1. UNCHANGED <<instance, items, owner, ids>> /\ alive' \subseteq alive /\ theirs' \subseteq theirs
        /\ i \in alive
    BY <1>6 DEF Quit, tray, call
  <2>2. \A m \in Elems(inbox') :
          m \in Elems(inbox) \/ (m.kind \in AboutItems \ {"properties"} /\ m.item = i)
    BY <1>1, <1>6, QuitNews
  <2>3. HeardInv'
    BY <1>2, <2>1, <2>2, HeardKept
  <2> QED BY <2>1, <2>3 DEF OwnersInv
<1>7. ASSUME NEW i \in Item,
             Register(i) \/ ChangeIcon(i) \/ AnswerGetAll(i) \/ TimeOutGetAll(i)
      PROVE  OwnersInv' /\ HeardInv'
  <2>1. UNCHANGED <<instance, items, owner, ids, alive>> /\ theirs' \subseteq theirs \cup {i}
        /\ instance[i] > 0
    <3>1. CASE Register(i)
      BY <1>1, <1>2, <3>1 DEF Register, tray, call
    <3>2. CASE ChangeIcon(i)
      BY <1>2, <3>2 DEF ChangeIcon, tray, call
    <3>3. CASE AnswerGetAll(i) \/ TimeOutGetAll(i)
      <4>1. i \in items
        BY <1>1, <3>3 DEF AnswerGetAll, TimeOutGetAll, Replies
      <4> QED BY <1>2, <3>3, <4>1 DEF AnswerGetAll, TimeOutGetAll, tray, call, bus
    <3> QED BY <1>7, <3>1, <3>2, <3>3
  <2>2. OwnersInv'
    BY <1>2, <2>1 DEF OwnersInv
  <2>3. PICK q, m : /\ q = inbox' /\ OneMore(inbox, m, q)
                    /\ \/ m \in {About("register", i), About("registered", i), NewIcon(i),
                                 About("error", i)}
                       \/ m = Properties(i)
    BY <1>7, SendIs
  <2>4. Elems(q) = Elems(inbox) \cup {m}
    BY <1>1, <2>3, SentIs
  <2>5. Heard(m)
    <3>1. m.item = i /\ (m.kind = "properties" => m.sender = instance[i])
      BY <2>3, MessagesAre
    <3>2. instance[i] \in Nat
      BY <1>1
    <3> QED BY <2>1, <3>1, <3>2 DEF Heard
  <2>6. HeardInv'
    BY <2>1, <2>3, <2>4, <2>5 DEF HeardInv, Heard
  <2> QED BY <2>2, <2>6
<1> QED BY <1>3, <1>4, <1>5, <1>6, <1>7 DEF Elsewhere

\* OwnersInv and HeardInv are inductive together.
LEMMA HeardHolds ==
  /\ Init => OwnersInv /\ HeardInv
  /\ Ready /\ NameInv /\ OwnersInv /\ HeardInv /\ [Next]_vars => OwnersInv' /\ HeardInv'
<1>1. ASSUME Init
      PROVE  OwnersInv /\ HeardInv
  <2>1. \A i \in Item : owner[i] = None /\ instance[i] = IF i \in alive THEN 1 ELSE 0
    BY <1>1 DEF Init, NoneOf
  <2>2. items = {} /\ ids = {} /\ theirs \subseteq alive /\ alive \subseteq Item /\ inbox = <<>>
    BY <1>1 DEF Init
  <2> QED BY <2>1, <2>2, NothingIs DEF OwnersInv, HeardInv
<1>2. ASSUME Ready, NameInv, OwnersInv, HeardInv, [Next]_vars
      PROVE  OwnersInv' /\ HeardInv'
  <2>1. CASE UNCHANGED vars
    BY <1>2, <2>1 DEF vars, bus, list, call, OwnersInv, HeardInv, Heard
  <2>2. CASE Connect
    <3>1. UNCHANGED <<instance, items, owner, ids, theirs, alive>>
      BY <2>2 DEF Connect, list, call
    <3>2. inbox' = inbox \/ inbox' = <<Message("NameAcquired")>>
      BY <2>2 DEF Connect
    <3>3. Message("NameAcquired").kind \notin AboutItems
      BY MessagesAre DEF AboutItems, OfItems
    <3>4. HeardInv'
      BY <1>2, <3>1, <3>2, <3>3, AloneIs, HeardKept
    <3> QED BY <1>2, <3>1, <3>4 DEF OwnersInv
  <2>3. CASE LoseBus
    <3>1. PICK wanted, q : wanted = {} /\ q = <<>>
      OBVIOUS
    <3>2. /\ wanted \in SUBSET Item /\ IsSeq(q) /\ Relist(wanted, q) /\ Types
          /\ UNCHANGED <<instance, theirs, alive, ids>>
      BY <1>2, <2>3, <3>1 DEF LoseBus, IsSeq, Ready, bus, call
    <3>3. OwnersInv'
      BY <1>2, <3>1, <3>2, RelistKeepsOwners
    <3>4. \A m \in Elems(inbox') :
            m \in Elems(q) \/ m.kind = "unexpected" \/ (m.kind = "error" /\ m.item \in wanted)
      BY <3>2, RelistIs
    <3>5. \A m \in Elems(inbox') : m.kind \notin AboutItems
      BY <3>1, <3>4, NothingIs DEF AboutItems, OfItems
    <3> QED BY <1>2, <3>2, <3>3, <3>5, HeardKept
  <2>4. CASE TrayNext
    BY <1>2, <2>4, TrayKeepsOwners, TrayKeepsHeard
  <2>5. CASE Elsewhere
    BY <1>2, <2>5, OthersKeepHeard
  <2> QED BY <1>2, <2>1, <2>2, <2>3, <2>4, <2>5 DEF Next
<1> QED BY <1>1, <1>2

\* Items listed anew are being fetched, and the others are as they were.
LEMMA RelistKeepsIcons ==
  ASSUME Ready, IconInv, NEW q, IsSeq(q), NEW wanted \in SUBSET Item, Relist(wanted, q),
         UNCHANGED <<instance, icon, alive, failed>>,
         \A i : Has(q, "error", i) => Has(inbox, "error", i),
         \A i, s : HasChange(q, i, s) <=> HasChange(inbox, i, s),
         \A i \in Item : Current(q, i, instance[i], icon[i])
  PROVE  IconInv'
<1>1. Types /\ Replies
  BY DEF Ready
<1>2. /\ items' = wanted
      /\ \A i \in Item : Has(inbox', "error", i)
                           => Has(q, "error", i) \/ i \in (wanted \ items) \ alive
      /\ \A i, s, c : Current(q, i, s, c) => Current(inbox', i, s, c)
  BY <1>1, RelistIs
<1>3. SameNews(q, inbox')
  BY <1>1, RelistIs
<1>4. \A i \in Item :
        /\ i \in wanted /\ i \in items =>
             owner'[i] = owner[i] /\ fetch'[i] = fetch[i] /\ shown'[i] = shown[i]
        /\ i \in wanted /\ i \notin items => fetch'[i] # "no"
  BY <1>1, RelistIs
<1>5. ASSUME NEW i \in items', fetch'[i] = "no" \/ Has(inbox', "error", i)
      PROVE  Good(i)'
  <2>1. i \in Item /\ i \in wanted
    BY <1>2, <1>5
  <2>2. CASE i \in items
    <3>1. fetch[i] = "no" \/ Has(inbox, "error", i)
      BY <1>2, <1>4, <1>5, <2>1, <2>2
    <3>2. Good(i)
      BY <2>2, <3>1 DEF IconInv
    <3>3. HasChange(inbox', i, instance[i]) <=> HasChange(inbox, i, instance[i])
      BY <1>3 DEF SameNews
    <3> QED BY <1>4, <2>1, <2>2, <3>2, <3>3 DEF Good
  <2>3. CASE i \notin items
    <3>1. ~HasReply(inbox, i)
      BY <1>1, <2>1, <2>3 DEF Replies
    <3>2. ~Has(inbox, "error", i)
      BY <3>1 DEF Has, HasReply, Is, IsReplyOf
    <3>3. i \notin alive
      BY <1>2, <1>4, <1>5, <2>1, <2>3, <3>2
    <3> QED BY <3>3 DEF Good
  <2> QED BY <2>2, <2>3
<1>6. \A i \in Item : Current(inbox', i, instance'[i], icon'[i])
  BY <1>2
<1> QED BY <1>5, <1>6 DEF IconInv

\* A message that is read and not about icons.
LEMMA ReadRelistKeepsIcons ==
  ASSUME Ready, IconInv, NEW kind, kind \notin {"NewIcon", "properties", "error"}, Dispatch(kind),
         NEW wanted \in SUBSET Item, Relist(wanted, Rest),
         UNCHANGED <<instance, icon, alive, failed>>
  PROVE  IconInv'
<1>1. PICK m, q : /\ m.kind = kind /\ q = Rest /\ IsSeq(q) /\ Joined(<<m>>, q, inbox)
  BY DispatchIs DEF Ready
<1>2. \A i : Has(q, "error", i) => Has(inbox, "error", i)
  BY <1>1, ReadIs
<1>3. \A i, s : HasChange(q, i, s) <=> HasChange(inbox, i, s)
  BY <1>1, ReadIs DEF IsChange, Is
<1>4. \A i \in Item : Current(q, i, instance[i], icon[i])
  BY <1>1, ReadIs DEF IconInv
<1>5. Relist(wanted, q)
  BY <1>1
<1> QED BY <1>1, <1>2, <1>3, <1>4, <1>5, RelistKeepsIcons

\* The icons do not depend on other news.
LEMMA IconsKept ==
  ASSUME IconInv, UNCHANGED <<items, owner, shown, instance, icon>>,
         failed \subseteq failed', alive' \subseteq alive,
         \A i \in items : fetch'[i] = "no" \/ Has(inbox', "error", i) =>
           \/ fetch[i] = "no" \/ Has(inbox, "error", i)
           \/ i \in failed' \/ i \notin alive',
         \A i : HasChange(inbox, i, instance[i]) => HasChange(inbox', i, instance[i]),
         \A i \in Item : Current(inbox, i, instance[i], icon[i])
                           => Current(inbox', i, instance[i], icon[i])
  PROVE  IconInv'
<1>1. ASSUME NEW i \in items', fetch'[i] = "no" \/ Has(inbox', "error", i)
      PROVE  Good(i)'
  <2>1. CASE i \in failed' \/ i \notin alive'
    BY <2>1 DEF Good
  <2>2. CASE fetch[i] = "no" \/ Has(inbox, "error", i)
    <3>1. Good(i)
      BY <2>2 DEF IconInv
    <3> QED BY <3>1 DEF Good
  <2> QED BY <1>1, <2>1, <2>2
<1>2. \A i \in Item : Current(inbox', i, instance'[i], icon'[i])
  BY DEF IconInv
<1> QED BY <1>1, <1>2 DEF IconInv

\* A signal of a change: it is fetched, or cannot be told to be the item's.
LEMMA SignalKeepsIcons ==
  ASSUME Ready, OwnersInv, IconInv, ItemSignal
  PROVE  IconInv'
<1>1. Types /\ items \subseteq Item /\ fetch \in [Item -> {"no", "sent", "answered"}]
      /\ UNCHANGED <<items, owner, shown, instance, icon, failed, alive>>
  BY DEF Ready, Types, TrayTyped, ItemSignal, bus, history
<1>2. PICK m, rest : /\ m = Head(inbox) /\ m.kind = "NewIcon" /\ m \in Elems(inbox)
                     /\ rest = Rest /\ IsSeq(rest) /\ Joined(<<m>>, rest, inbox)
  BY <1>1, DispatchIs DEF ItemSignal
<1>3. /\ \A i : Has(inbox, "error", i) <=> Has(rest, "error", i)
      /\ \A i, s : HasChange(inbox, i, s)
                     <=> (m.item = i /\ m.sender = s) \/ HasChange(rest, i, s)
  BY <1>2, ReadIs DEF IsChange, Is
<1>4. \A i \in Item : Current(rest, i, instance[i], icon[i])
  BY <1>2, ReadIs DEF IconInv
<1>5. CASE IsFrom(m)
  <2>1. PICK D : D = {m.item}
    OBVIOUS
  <2>2. D \in SUBSET Item
    BY <1>1, <1>5, <2>1 DEF IsFrom
  <2>3. Refetched(rest, D, D, inbox')
    BY <1>2, <1>5, <2>1 DEF ItemSignal, Refetched
  <2>4. /\ \A i, s : HasChange(inbox', i, s) <=> HasChange(rest, i, s)
        /\ \A i : Has(inbox', "error", i) => (Has(rest, "error", i) /\ i \notin D) \/ i \in D \ alive
        /\ \A i, s, c : Current(rest, i, s, c) => Current(inbox', i, s, c)
    <3>1. PICK r : r = inbox'
      OBVIOUS
    <3>2. Refetched(rest, D, D, r)
      BY <2>3, <3>1
    <3>3. SameNews(rest, r)
      BY <1>2, <2>2, <3>2, RefetchIs
    <3>4. \A i : Has(r, "error", i) => (Has(rest, "error", i) /\ i \notin D) \/ i \in D \ alive
      BY <1>2, <2>2, <3>2, RefetchIs, ZenonT(60)
    <3>5. \A i, s, c : Current(rest, i, s, c) => Current(r, i, s, c)
      BY <1>2, <2>2, <3>2, RefetchIs
    <3>6. \A i, s : HasChange(r, i, s) <=> HasChange(rest, i, s)
      BY <3>3 DEF SameNews
    <3> QED BY <3>1, <3>4, <3>5, <3>6
  <2>5. \A i \in Item : fetch'[i] = IF i = m.item THEN Calls(D)[i] ELSE fetch[i]
    BY <1>1, <1>2, <1>5, <2>1, <2>2 DEF ItemSignal
  <2>6. \A i \in D : Calls(D)[i] # "no"
    BY DEF Calls
  <2>7. ASSUME NEW i \in items, fetch'[i] = "no" \/ Has(inbox', "error", i)
        PROVE  Good(i)'
    <3>1. CASE i = m.item
      BY <1>1, <2>1, <2>4, <2>5, <2>6, <2>7, <3>1 DEF Good
    <3>2. CASE i # m.item
      <4>1. fetch[i] = "no" \/ Has(inbox, "error", i)
        BY <1>1, <1>3, <2>1, <2>4, <2>5, <2>7, <3>2
      <4>2. Good(i)
        BY <4>1 DEF IconInv
      <4>3. HasChange(inbox', i, instance[i]) <=> HasChange(inbox, i, instance[i])
        BY <1>3, <2>4, <3>2
      <4> QED BY <1>1, <4>2, <4>3 DEF Good
    <3> QED BY <3>1, <3>2
  <2> QED BY <1>1, <1>4, <2>4, <2>7 DEF IconInv
<1>6. CASE ~IsFrom(m)
  <2>1. inbox' = rest /\ fetch' = fetch
    BY <1>2, <1>6 DEF ItemSignal
  <2>2. ASSUME NEW i \in items, fetch'[i] = "no" \/ Has(inbox', "error", i)
        PROVE  Good(i)'
    <3>1. Good(i)
      BY <1>3, <2>1, <2>2 DEF IconInv
    <3>2. CASE m.item = i /\ m.sender = instance[i]
      <4>1. owner[i] # instance[i]
        BY <1>6, <2>2, <3>2 DEF IsFrom
      <4>2. i \in Named
        BY <4>1 DEF OwnersInv
      <4> QED BY <1>1, <4>1, <4>2 DEF Good
    <3>3. CASE ~(m.item = i /\ m.sender = instance[i])
      <4>1. HasChange(inbox', i, instance[i]) <=> HasChange(inbox, i, instance[i])
        BY <1>3, <2>1, <3>3
      <4> QED BY <1>1, <3>1, <4>1 DEF Good
    <3> QED BY <3>2, <3>3
  <2> QED BY <1>1, <1>4, <2>1, <2>2 DEF IconInv
<1> QED BY <1>2, <1>5, <1>6

\* A reply: it is as the program was, and if that has changed the change comes later.
LEMMA ReplyKeepsIcons ==
  ASSUME Ready, OwnersInv, HeardInv, IconInv, PropertiesReply
  PROVE  IconInv'
<1>1. Types /\ items \subseteq Item /\ items' = items
      /\ UNCHANGED <<instance, icon, alive>> /\ DOMAIN shown = Item
      /\ owner \in [Item -> Nat \cup {None}] /\ fetch \in [Item -> {"no", "sent", "answered"}]
      /\ instance \in [Item -> Nat]
  BY DEF Ready, Types, TrayTyped, PropertiesReply, bus
<1>2. PICK m, rest : /\ m = Head(inbox) /\ m.kind = "properties" /\ m \in Elems(inbox)
                     /\ rest = Rest /\ Joined(<<m>>, rest, inbox)
  BY <1>1, DispatchIs DEF PropertiesReply
<1>3. inbox' = rest /\ m.item \in Item /\ Heard(m) /\ m.sender \in Nat
  <2>1. m.item \in Item /\ m.sender \in Nat
    BY <1>1, <1>2 DEF Types, TrayTyped, ItemsOK, AboutItems
  <2> QED BY <1>2, <2>1 DEF HeardInv, PropertiesReply
<1>4. /\ owner' = [owner EXCEPT ![m.item] = m.sender]
      /\ shown' = [shown EXCEPT ![m.item] = m.icon]
      /\ fetch' = [fetch EXCEPT ![m.item] = "no"]
      /\ failed' = failed \ {m.item}
  BY <1>2 DEF PropertiesReply
<1>5. /\ \A i : Has(rest, "error", i) => Has(inbox, "error", i)
      /\ \A i, s : HasChange(inbox, i, s) <=> HasChange(rest, i, s)
  BY <1>2, ReadIs DEF IsChange, Is
<1>6. \A i \in Item : /\ Current(rest, i, instance[i], icon[i])
                      /\ \/ HasChange(rest, i, instance[i])
                         \/ ~Outdated(m, i, instance[i], icon[i])
  BY <1>2, ReadIs DEF IconInv
<1>7. ASSUME NEW i \in items, fetch'[i] = "no" \/ Has(inbox', "error", i)
      PROVE  Good(i)'
  <2>1. CASE i = m.item
    <3>1. shown'[i] = m.icon /\ owner'[i] = m.sender
      BY <1>1, <1>3, <1>4, <2>1
    <3>2. CASE HasChange(rest, i, instance[i])
      BY <1>1, <1>3, <3>2 DEF Good
    <3>3. CASE m.icon = icon[i]
      BY <1>1, <3>1, <3>3 DEF Good
    <3>4. CASE m.sender # instance[i]
      <4>1. m.sender > 0 /\ m.sender <= instance[i] /\ instance[i] \in Nat
        BY <1>1, <1>2, <1>3, <2>1 DEF Heard
      <4>2. instance[i] > 1
        BY <1>3, <3>4, <4>1
      <4>3. i \in Named
        BY <1>1, <4>1, <4>2 DEF OwnersInv
      <4> QED BY <1>1, <3>1, <3>4, <4>3 DEF Good
    <3> QED BY <1>1, <1>2, <1>6, <2>1, <3>2, <3>3, <3>4 DEF Outdated, Is
  <2>2. CASE i # m.item
    <3>1. fetch[i] = "no" \/ Has(inbox, "error", i)
      BY <1>1, <1>3, <1>4, <1>5, <1>7, <2>2
    <3>2. Good(i)
      BY <3>1 DEF IconInv
    <3>3. owner'[i] = owner[i] /\ shown'[i] = shown[i] /\ (i \in failed => i \in failed')
      BY <1>1, <1>4, <2>2
    <3> QED BY <1>1, <1>3, <1>5, <3>2, <3>3 DEF Good
  <2> QED BY <2>1, <2>2
<1>8. \A i \in Item : Current(inbox', i, instance'[i], icon'[i])
  BY <1>1, <1>3, <1>6
<1> QED BY <1>1, <1>7, <1>8 DEF IconInv

\* Each of the tray's steps keeps the icons, or starts to fetch them.
LEMMA TrayKeepsIcons ==
  ASSUME Ready, OwnersInv, HeardInv, IconInv, TrayNext
  PROVE  IconInv'
<1>1. Types /\ UNCHANGED <<instance, icon, alive>> /\ IsSeq(inbox) /\ items \subseteq Item
      /\ ids \subseteq Item /\ alive \subseteq Item
  BY TrayModeIs DEF Ready, Types, TrayTyped, bus
<1>2. ASSUME NEW kind, kind \notin {"NewIcon", "properties"}, Dispatch(kind), inbox' = Rest,
             UNCHANGED <<items, owner, shown, failed>>,
             \A i \in items : fetch'[i] = "no" => fetch[i] = "no" \/ Has(inbox, "error", i)
      PROVE  IconInv'
  <2>1. PICK m, rest : m.kind = kind /\ rest = Rest /\ Joined(<<m>>, rest, inbox)
    BY <1>1, <1>2, DispatchIs
  <2>2. inbox' = rest
    BY <1>2, <2>1
  <2>3. \A i : Has(rest, "error", i) => Has(inbox, "error", i)
    BY <2>1, ReadIs
  <2>4. \A i, s : HasChange(rest, i, s) <=> HasChange(inbox, i, s)
    BY <1>2, <2>1, ReadIs DEF IsChange, Is
  <2>5. \A i, s, c : Current(inbox, i, s, c) => Current(rest, i, s, c)
    BY <2>1, ReadIs
  <2> QED BY <1>1, <1>2, <2>2, <2>3, <2>4, <2>5, IconsKept
<1>3. CASE BecomeWatcher
  <2>1. Dispatch("NameAcquired") /\ failed' = failed
    BY <1>3 DEF BecomeWatcher
  <2>2. CASE mode = "Watcher"
    <3>1. inbox' = Rest /\ UNCHANGED list
      BY <1>3, <2>2 DEF BecomeWatcher
    <3> QED BY <1>2, <2>1, <3>1 DEF list
  <2>3. CASE mode # "Watcher"
    <3>1. Relist({}, Rest) /\ {} \in SUBSET Item
      BY <1>3, <2>3 DEF BecomeWatcher
    <3> QED BY <1>1, <2>1, <3>1, ReadRelistKeepsIcons
  <2> QED BY <2>2, <2>3
<1>4. CASE WatcherChanges
  BY <1>2, <1>4 DEF WatcherChanges, list, history
<1>5. CASE ProgramVanishes
  <2>1. PICK wanted : wanted = IF mode = "Watcher" THEN items \ {Head(inbox).item} ELSE items
    OBVIOUS
  <2>2. Dispatch("vanished") /\ failed' = failed /\ Relist(wanted, Rest) /\ wanted \in SUBSET Item
    BY <1>1, <1>5, <2>1 DEF ProgramVanishes, history
  <2> QED BY <1>1, <2>2, ReadRelistKeepsIcons
<1>6. CASE RegisterItem
  <2>1. PICK wanted : wanted = IF mode = "Watcher" THEN items \cup ({Head(inbox).item} \cap alive)
                               ELSE items
    OBVIOUS
  <2>2. Dispatch("register") /\ failed' = failed /\ Relist(wanted, Rest) /\ wanted \in SUBSET Item
    BY <1>1, <1>6, <2>1 DEF RegisterItem, history
  <2> QED BY <1>1, <2>2, ReadRelistKeepsIcons
<1>7. CASE MirrorRegistered
  <2>1. PICK wanted : wanted = IF mode = "Host" THEN items \cup {Head(inbox).item} ELSE items
    OBVIOUS
  <2>2. Dispatch("registered") /\ failed' = failed /\ Relist(wanted, Rest)
    BY <1>7, <2>1 DEF MirrorRegistered, history
  <2>3. Head(inbox).item \in Item
    BY <1>1, <2>2, HeadIs DEF AboutItems, OfItems
  <2>4. wanted \in SUBSET Item
    BY <1>1, <2>1, <2>3
  <2> QED BY <1>1, <2>2, <2>4, ReadRelistKeepsIcons
<1>8. CASE MirrorUnregistered
  <2>1. PICK wanted : wanted = IF mode = "Host" THEN items \ {Head(inbox).item} ELSE items
    OBVIOUS
  <2>2. Dispatch("unregistered") /\ failed' = failed /\ Relist(wanted, Rest)
        /\ wanted \in SUBSET Item
    BY <1>1, <1>8, <2>1 DEF MirrorUnregistered, history
  <2> QED BY <1>1, <2>2, ReadRelistKeepsIcons
<1>9. CASE ItemSignal
  BY <1>9, SignalKeepsIcons
<1>10. CASE PropertiesReply
  BY <1>10, ReplyKeepsIcons
<1>11. CASE PropertiesError
  <2>1. PICK m : m = Head(inbox) /\ m.kind = "error" /\ m \in Elems(inbox)
    BY <1>1, <1>11, DispatchIs DEF PropertiesError
  <2>2. Has(inbox, "error", m.item)
    BY <2>1 DEF Has, Is
  <2>3. \A i \in Item : i # m.item => fetch'[i] = fetch[i]
    BY <1>1, <1>11, <2>1 DEF PropertiesError, Types, TrayTyped
  <2>4. Dispatch("error") /\ inbox' = Rest /\ UNCHANGED <<items, owner, shown, failed>>
    BY <1>11 DEF PropertiesError, history
  <2> QED BY <1>1, <1>2, <2>2, <2>3, <2>4
<1>12. CASE UnexpectedReply
  BY <1>2, <1>12 DEF UnexpectedReply, list, history
<1>13. CASE Refresh
  BY <1>1, <1>13, IconsKept DEF Refresh, list, history
<1>14. CASE Refreshed
  <2>1. PICK wanted, q : wanted = ids /\ q = inbox
    OBVIOUS
  <2>2. wanted \in SUBSET Item /\ IsSeq(q) /\ Relist(wanted, q) /\ failed' = failed
    BY <1>1, <1>14, <2>1 DEF Refreshed
  <2>3. \A i \in Item : Current(q, i, instance[i], icon[i])
    BY <2>1 DEF IconInv
  <2> QED BY <1>1, <2>1, <2>2, <2>3, RelistKeepsIcons
<1> QED BY <1>3, <1>4, <1>5, <1>6, <1>7, <1>8, <1>9, <1>10, <1>11, <1>12, <1>13, <1>14
        DEF TrayNext

\* A program starts: if its item is still listed, its owner is the former connection.
LEMMA StartKeepsIcons ==
  ASSUME Ready, OwnersInv, HeardInv, IconInv, NEW i \in Item, Start(i)
  PROVE  IconInv'
<1>1. /\ Types /\ items \subseteq Item /\ instance \in [Item -> Nat] /\ None \notin Nat
      /\ owner \in [Item -> Nat \cup {None}]
      /\ UNCHANGED <<inbox, items, owner, shown, fetch, icon, failed>>
      /\ i \notin alive /\ alive' = alive \cup {i} /\ (i \in Named \/ instance[i] = 0)
      /\ instance' = [instance EXCEPT ![i] = @ + 1]
  BY ConstantsOK DEF Ready, Types, TrayTyped, Start, tray, history
<1>2. \A j \in Item : instance'[j] = IF j = i THEN instance[i] + 1 ELSE instance[j]
  BY <1>1
<1>3. ASSUME NEW j \in items, fetch'[j] = "no" \/ Has(inbox', "error", j)
      PROVE  Good(j)'
  <2>1. Good(j) /\ j \in Item
    BY <1>1, <1>3 DEF IconInv
  <2>2. CASE j = i
    <3>1. i \in Named
      BY <1>1, <1>3, <2>2 DEF OwnersInv
    <3>2. owner[i] # instance'[i]
      <4>1. owner[i] # None => owner[i] <= instance[i]
        BY DEF OwnersInv
      <4>2. instance[i] \in Nat /\ owner[i] \in Nat \cup {None}
        BY <1>1
      <4> QED BY <1>1, <1>2, <4>1, <4>2
    <3> QED BY <1>1, <2>2, <3>1, <3>2 DEF Good
  <2>3. CASE j # i
    BY <1>1, <1>2, <2>1, <2>3 DEF Good
  <2> QED BY <2>2, <2>3
<1>4. ASSUME NEW j \in Item
      PROVE  Current(inbox, j, instance'[j], icon[j])
  <2>1. CASE j = i
    <3>1. ASSUME NEW n \in 1 .. Len(inbox)
          PROVE  ~Outdated(inbox[n], j, instance'[j], icon[j])
      <4>1. inbox[n] \in Elems(inbox)
        BY DEF Elems
      <4>2. inbox[n].kind = "properties" /\ inbox[n].item = i =>
              inbox[n].sender \in Nat /\ inbox[n].sender <= instance[i]
        BY <1>1, <4>1 DEF HeardInv, Heard, Types, TrayTyped, ItemsOK
      <4>3. instance[i] \in Nat /\ instance'[j] = instance[i] + 1
        BY <1>1, <1>2, <2>1
      <4>4. ~(inbox[n].kind = "properties" /\ inbox[n].item = i /\ inbox[n].sender = instance'[j])
        BY <4>2, <4>3
      <4> QED BY <2>1, <4>4 DEF Outdated, Is
    <3> QED BY <3>1 DEF Current
  <2>2. CASE j # i
    BY <1>2, <2>2 DEF IconInv
  <2> QED BY <2>1, <2>2
<1> QED BY <1>1, <1>3, <1>4 DEF IconInv

\* A program changes its icon, and says so.
LEMMA ChangeKeepsIcons ==
  ASSUME Ready, IconInv, NEW i \in Item, ChangeIcon(i)
  PROVE  IconInv'
<1>1. /\ IsSeq(inbox) /\ DOMAIN icon = Item /\ items \subseteq Item
      /\ UNCHANGED <<items, owner, shown, fetch, instance, alive>> /\ failed' = failed \ {i}
      /\ \A j \in Item : j # i => icon'[j] = icon[j]
  BY DEF Ready, Types, TrayTyped, ChangeIcon, tray
<1>2. PICK q, m : q = inbox' /\ m = NewIcon(i) /\ OneMore(inbox, m, q)
  BY DEF ChangeIcon, Sent, OneMore
<1>3. m.kind = "NewIcon" /\ m.item = i /\ m.sender = instance[i]
  BY <1>2, MessagesAre
<1>4. IsChange(m, i, instance[i])
  BY <1>3 DEF IsChange, Is
<1>5. /\ \A j : Has(q, "error", j) <=> Has(inbox, "error", j)
      /\ \A j, s : HasChange(q, j, s) <=> HasChange(inbox, j, s) \/ IsChange(m, j, s)
      /\ \A j, s, c : Current(q, j, s, c)
           <=> ~Outdated(m, j, s, c) /\ (IsChange(m, j, s) \/ Current(inbox, j, s, c))
  <2>1. \A j : ~Is(m, "error", j)
    BY <1>3 DEF Is
  <2>2. \A j : Has(q, "error", j) <=> Has(inbox, "error", j) \/ Is(m, "error", j)
    BY <1>1, <1>2, SentIs
  <2>3. \A j, s : HasChange(q, j, s) <=> HasChange(inbox, j, s) \/ IsChange(m, j, s)
    BY <1>1, <1>2, SentIs
  <2>4. \A j, s, c : Current(q, j, s, c)
           <=> ~Outdated(m, j, s, c) /\ (IsChange(m, j, s) \/ Current(inbox, j, s, c))
    BY <1>1, <1>2, SentIs
  <2> QED BY <2>1, <2>2, <2>3, <2>4
<1>6. \A j, s, c : ~Outdated(m, j, s, c)
  BY <1>3 DEF Outdated, Is
<1>7. ASSUME NEW j \in items, fetch'[j] = "no" \/ Has(q, "error", j)
      PROVE  Good(j)'
  <2>1. CASE j = i
    BY <1>1, <1>2, <1>4, <1>5, <2>1 DEF Good
  <2>2. CASE j # i
    <3>1. Good(j) /\ j \in Item
      BY <1>1, <1>5, <1>7 DEF IconInv
    <3>2. HasChange(inbox, j, instance[j]) => HasChange(q, j, instance[j])
      BY <1>5
    <3>3. icon'[j] = icon[j] /\ (j \in failed => j \in failed')
      BY <1>1, <2>2, <3>1
    <3> QED BY <1>1, <1>2, <3>1, <3>2, <3>3 DEF Good
  <2> QED BY <2>1, <2>2
<1>8. ASSUME NEW j \in Item
      PROVE  Current(q, j, instance[j], icon'[j])
  <2>1. CASE j = i
    BY <1>4, <1>5, <1>6, <2>1
  <2>2. CASE j # i
    BY <1>1, <1>5, <1>6, <2>2 DEF IconInv
  <2> QED BY <2>1, <2>2
<1> QED BY <1>1, <1>2, <1>7, <1>8 DEF IconInv

\* What the others change, they say.
LEMMA OthersKeepIcons ==
  ASSUME Ready, NameInv, OwnersInv, HeardInv, IconInv, Elsewhere
  PROVE  IconInv'
<1>1. /\ mode # "Disconnected" /\ Types /\ IsSeq(inbox) /\ items \subseteq Item
      /\ fetch \in [Item -> {"no", "sent", "answered"}]
  BY DEF Elsewhere, Ready, Types, TrayTyped
<1>2. CASE AnswerRefresh \/ TimeOutRefresh \/ WatcherGivesUp
  <2>1. UNCHANGED <<inbox, items, owner, shown, fetch, instance, icon, alive, failed>>
    BY <1>2 DEF AnswerRefresh, TimeOutRefresh, WatcherGivesUp, bus, tray, history
  <2> QED BY <2>1, IconsKept
<1>3. CASE WatcherExits
  <2>1. UNCHANGED <<items, owner, shown, fetch, instance, icon, alive, failed>>
    BY <1>3 DEF WatcherExits, tray, history
  <2>2. PICK q, m, n : q = inbox' /\ m = NameOwnerChanged(Head(line')) /\ n = Message("NameAcquired")
    OBVIOUS
  <2>3. PICK p : /\ OneMore(inbox, m, p)
                 /\ IF Owner' = Tray THEN OneMore(p, n, q) ELSE q = p
    BY <1>1, <1>3, <2>2, ExitIs
  <2>4. m.kind = "owner" /\ n.kind = "NameAcquired"
    BY <2>2, MessagesAre
  <2>5. \A i, s, c : /\ ~Is(m, "error", i) /\ ~IsChange(m, i, s) /\ ~Outdated(m, i, s, c)
                     /\ ~Is(n, "error", i) /\ ~IsChange(n, i, s) /\ ~Outdated(n, i, s, c)
    BY <2>4 DEF Is, IsChange, Outdated
  <2>6. /\ IsSeq(p)
        /\ \A i : Has(p, "error", i) <=> Has(inbox, "error", i)
        /\ \A i, s : HasChange(p, i, s) <=> HasChange(inbox, i, s)
        /\ \A i, s, c : Current(p, i, s, c) <=> Current(inbox, i, s, c)
    BY <1>1, <2>3, <2>5, SentIs
  <2>7. /\ \A i : Has(q, "error", i) <=> Has(p, "error", i)
        /\ \A i, s : HasChange(q, i, s) <=> HasChange(p, i, s)
        /\ \A i, s, c : Current(q, i, s, c) <=> Current(p, i, s, c)
    <3>1. CASE Owner' = Tray
      BY <2>3, <2>5, <2>6, <3>1, SentIs
    <3>2. CASE Owner' # Tray
      BY <2>3, <3>2
    <3> QED BY <3>1, <3>2
  <2> QED BY <2>1, <2>2, <2>6, <2>7, IconsKept
<1>4. ASSUME NEW i \in Item, Start(i)
      PROVE  IconInv'
  BY <1>4, StartKeepsIcons
<1>5. ASSUME NEW i \in Item, Quit(i)
      PROVE  IconInv'
  <2>1. /\ UNCHANGED <<items, owner, shown, instance, icon, failed>>
        /\ alive' = alive \ {i} /\ \A j \in Item : j # i => fetch'[j] = fetch[j]
    BY <1>1, <1>5 DEF Quit, tray, history
  <2>2. /\ \A j : Has(inbox', "error", j) => Has(inbox, "error", j) \/ j = i
        /\ \A j, s : HasChange(inbox', j, s) <=> HasChange(inbox, j, s)
        /\ \A j, s, c : Current(inbox', j, s, c) <=> Current(inbox, j, s, c)
    BY <1>1, <1>5, QuitNews
  <2>3. \A j \in items : fetch'[j] = "no" \/ Has(inbox', "error", j) =>
          fetch[j] = "no" \/ Has(inbox, "error", j) \/ j \notin alive'
    BY <1>1, <2>1, <2>2
  <2> QED BY <2>1, <2>2, <2>3, IconsKept
<1>6. ASSUME NEW i \in Item, ChangeIcon(i)
      PROVE  IconInv'
  BY <1>6, ChangeKeepsIcons
<1>7. ASSUME NEW i \in Item, Register(i) \/ AnswerGetAll(i) \/ TimeOutGetAll(i)
      PROVE  IconInv'
  <2> SUFFICES ASSUME ~ChangeIcon(i)
               PROVE  IconInv'
    BY <1>6
  <2>1. /\ UNCHANGED <<items, owner, shown, instance, icon, alive>> /\ failed \subseteq failed'
        /\ \A j \in Item : fetch'[j] = fetch[j] \/ fetch'[j] = "answered"
        /\ TimeOutGetAll(i) => i \in failed'
    <3>1. CASE Register(i)
      BY <3>1 DEF Register, tray, history, TimeOutGetAll
    <3>2. CASE AnswerGetAll(i)
      BY <1>1, <3>2 DEF AnswerGetAll, tray, history, bus, TimeOutGetAll
    <3>3. CASE TimeOutGetAll(i)
      BY <1>1, <3>3 DEF TimeOutGetAll, tray, bus
    <3> QED BY <1>7, <3>1, <3>2, <3>3
  <2>2. PICK q : q = inbox'
    OBVIOUS
  <2>3. PICK m : /\ OneMore(inbox, m, q)
                 /\ \/ m \in {About("register", i), About("registered", i)}
                    \/ m = Properties(i)
                    \/ m = About("error", i) /\ TimeOutGetAll(i)
    BY <1>7, <2>2, SendIs
  <2>4. \A j, s : ~IsChange(m, j, s)
    BY <2>3, MessagesAre DEF IsChange, Is
  <2>5. \A j \in Item : ~Outdated(m, j, instance[j], icon[j])
    BY <2>3, MessagesAre DEF Outdated, Is
  <2>6. \A j : Is(m, "error", j) => j = i /\ i \in failed'
    BY <2>1, <2>3, MessagesAre DEF Is
  <2>7. /\ \A j : Has(q, "error", j) <=> Has(inbox, "error", j) \/ Is(m, "error", j)
        /\ \A j, s : HasChange(q, j, s) <=> HasChange(inbox, j, s) \/ IsChange(m, j, s)
    BY <1>1, <2>3, SentIs
  <2>8. \A j, s, c : Current(q, j, s, c)
          <=> ~Outdated(m, j, s, c) /\ (IsChange(m, j, s) \/ Current(inbox, j, s, c))
    BY <1>1, <2>3, SentIs
  <2>9. \A j \in items : fetch'[j] = "no" \/ Has(q, "error", j) =>
          fetch[j] = "no" \/ Has(inbox, "error", j) \/ j \in failed'
    BY <1>1, <2>1, <2>6, <2>7
  <2> QED BY <2>1, <2>2, <2>4, <2>5, <2>7, <2>8, <2>9, IconsKept
<1> QED BY <1>2, <1>3, <1>4, <1>5, <1>6, <1>7 DEF Elsewhere

\* IconInv is inductive, given the others.
LEMMA IconsHold ==
  /\ Init => IconInv
  /\ Ready /\ NameInv /\ OwnersInv /\ HeardInv /\ IconInv /\ [Next]_vars => IconInv'
<1>1. Init => IconInv
  BY NothingIs DEF Init, IconInv
<1>2. ASSUME Ready, NameInv, OwnersInv, HeardInv, IconInv, [Next]_vars
      PROVE  IconInv'
  <2>1. CASE UNCHANGED vars
    BY <1>2, <2>1, IconsKept DEF vars, bus, list, history
  <2>2. CASE Connect
    <3>1. UNCHANGED <<items, owner, shown, fetch, instance, icon, alive, failed>>
          /\ items = {} /\ inbox = <<>>
      BY <1>2, <2>2 DEF Connect, list, history, Ready, Offline
    <3>2. PICK m : m = Message("NameAcquired")
      OBVIOUS
    <3>3. inbox' = <<>> \/ inbox' = <<m>>
      BY <2>2, <3>1, <3>2 DEF Connect
    <3>4. \A i, s, c : ~Outdated(m, i, s, c)
      BY <3>2, MessagesAre DEF Outdated, Is
    <3>5. \A i, s, c : Current(inbox', i, s, c)
      BY <3>3, <3>4, NothingIs, AloneIs
    <3> QED BY <3>1, <3>5 DEF IconInv
  <2>3. CASE LoseBus
    <3>1. PICK wanted, q : wanted = {} /\ q = <<>>
      OBVIOUS
    <3>2. wanted \in SUBSET Item /\ IsSeq(q) /\ Relist(wanted, q) /\ Types
      BY <1>2, <2>3, <3>1 DEF LoseBus, IsSeq, Ready
    <3>3. items' = {} /\ \A i, s, c : Current(q, i, s, c) => Current(inbox', i, s, c)
      BY <3>1, <3>2, RelistIs
    <3>4. \A i, s, c : Current(inbox', i, s, c)
      BY <3>1, <3>3, NothingIs
    <3> QED BY <3>3, <3>4 DEF IconInv
  <2>4. CASE TrayNext
    BY <1>2, <2>4, TrayKeepsIcons
  <2>5. CASE Elsewhere
    BY <1>2, <2>5, OthersKeepIcons
  <2> QED BY <1>2, <2>1, <2>2, <2>3, <2>4, <2>5 DEF Next
<1> QED BY <1>1, <1>2

\* They always hold.
LEMMA AlwaysShown ==
  Spec => [](Ready /\ NameInv /\ OwnersInv /\ HeardInv /\ IconInv)
<1>1. Init => Ready /\ NameInv /\ OwnersInv /\ HeardInv /\ IconInv
  BY ReadyHolds, NameHolds, HeardHolds, IconsHold
<1>2. Ready /\ NameInv /\ OwnersInv /\ HeardInv /\ IconInv /\ [Next]_vars
        => (Ready /\ NameInv /\ OwnersInv /\ HeardInv /\ IconInv)'
  BY ReadyHolds, NameHolds, HeardHolds, IconsHold
<1> QED BY <1>1, <1>2, PTL DEF Spec

\* An item that is not being fetched is shown as its program is, through restarts,
\* changes, lost replies and superseded calls, save for the excuses IconsFollow lists.
THEOREM IconsFollowHolds == Spec => []IconsFollow
<1>1. IconInv /\ ListIsTrue => IconsFollow
  <2> SUFFICES ASSUME IconInv, ListIsTrue, Quiet, NEW i \in items
               PROVE  \/ fetch[i] # "no" \/ shown[i] = icon[i]
                      \/ i \in failed \/ (i \in Named /\ owner[i] # instance[i])
    BY DEF IconsFollow
  <2>1. i \in alive /\ ~HasChange(inbox, i, instance[i])
    BY NothingIs DEF ListIsTrue, Quiet
  <2> QED BY <2>1 DEF IconInv, Good
<1> QED BY <1>1, AlwaysShown, ListIsTrueHolds, PTL
=============================================================================
