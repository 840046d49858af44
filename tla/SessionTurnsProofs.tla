------------------------ MODULE SessionTurnsProofs ------------------------
(***************************************************************************)
(* One session's turns and requests keep their invariants: the lemmas on   *)
(* sequences come first, then types, then one lemma per action of Next on  *)
(* the inductive invariant IInv, and the theorems at the end.              *)
(***************************************************************************)
EXTENDS SessionTurns, SequenceTheorems, WellFoundedInduction, TLAPS

\* What a step of a channel or a queue does to its positions.
LEMMA TailFacts ==
  ASSUME NEW S, NEW s \in Seq(S), s # <<>>
  PROVE  /\ Tail(s) \in Seq(S) /\ Head(s) = s[1] /\ Head(s) \in S
         /\ DOMAIN s = 1 .. Len(s) /\ 1 \in DOMAIN s /\ Len(s) \in Nat
         /\ DOMAIN Tail(s) = 1 .. (Len(s) - 1)
         /\ \A i \in DOMAIN Tail(s) : i + 1 \in DOMAIN s /\ Tail(s)[i] = s[i + 1]
         /\ \A i \in DOMAIN s : i = 1 \/ (i - 1 \in DOMAIN Tail(s) /\ Tail(s)[i - 1] = s[i])
<1>1. Len(s) \in Nat /\ DOMAIN s = 1 .. Len(s) /\ Len(s) # 0
  BY LenProperties, EmptySeq
<1>2. /\ Tail(s) \in Seq(S) /\ Len(Tail(s)) = Len(s) - 1
      /\ \A i \in 1 .. Len(Tail(s)) : Tail(s)[i] = s[i + 1]
  BY HeadTailProperties
<1>3. DOMAIN Tail(s) = 1 .. (Len(s) - 1)
  BY <1>2, LenProperties
<1>4. Head(s) = s[1] /\ Head(s) \in S
  BY <1>1, ElementOfSeq
<1> QED
  BY <1>1, <1>2, <1>3, <1>4

LEMMA AppendFacts ==
  ASSUME NEW S, NEW s \in Seq(S), NEW e \in S
  PROVE  /\ Append(s, e) \in Seq(S) /\ Len(s) \in Nat /\ DOMAIN s = 1 .. Len(s)
         /\ Len(Append(s, e)) = Len(s) + 1
         /\ DOMAIN Append(s, e) = 1 .. (Len(s) + 1)
         /\ \A i \in DOMAIN s : i \in DOMAIN Append(s, e) /\ Append(s, e)[i] = s[i]
         /\ Append(s, e)[Len(s) + 1] = e
         /\ \A i \in DOMAIN Append(s, e) : i \in DOMAIN s \/ i = Len(s) + 1
<1>1. Len(s) \in Nat /\ DOMAIN s = 1 .. Len(s)
  BY LenProperties
<1>2. /\ Append(s, e) \in Seq(S) /\ Len(Append(s, e)) = Len(s) + 1
      /\ \A i \in 1 .. Len(s) : Append(s, e)[i] = s[i]
      /\ Append(s, e)[Len(s) + 1] = e
  BY AppendProperties
<1>3. DOMAIN Append(s, e) = 1 .. (Len(s) + 1)
  BY <1>1, <1>2, LenProperties
<1> QED
  BY <1>1, <1>2, <1>3

\* A set of positions has a least one.
LEMMA LeastPosition ==
  ASSUME NEW I \in SUBSET Nat, I # {}
  PROVE  Min(I) \in I /\ \A j \in I : Min(I) <= j
<1>1. PICK i \in I : \A j \in I : <<j, i>> \notin OpToRel(<, Nat)
  BY NatLessThanWellFounded, WFMin, Zenon
<1>2. \A j \in I : ~(j < i)
  BY <1>1 DEF OpToRel
<1>3. \A j \in I : i <= j
  BY <1>2
<1> QED
  BY <1>1, <1>3 DEF Min

\* Removing the element at a position leaves the others, in their order.
LEMMA RemoveAtFacts ==
  ASSUME NEW S, NEW s \in Seq(S), NEW n \in DOMAIN s
  PROVE  /\ RemoveAt(s, n) \in Seq(S) /\ Len(RemoveAt(s, n)) = Len(s) - 1
         /\ Len(s) \in Nat /\ DOMAIN s = 1 .. Len(s) /\ n \in 1 .. Len(s)
         /\ DOMAIN RemoveAt(s, n) = 1 .. (Len(s) - 1)
         /\ \A i \in 1 .. (Len(s) - 1) : RemoveAt(s, n)[i] = IF i < n THEN s[i] ELSE s[i + 1]
<1>1. Len(s) \in Nat /\ DOMAIN s = 1 .. Len(s) /\ n \in 1 .. Len(s)
  BY LenProperties
<1>2. \A i \in 1 .. Len(s) : s[i] \in S
  BY ElementOfSeq
<1> DEFINE front == SubSeq(s, 1, n - 1)
           back == SubSeq(s, n + 1, Len(s))
<1>3. /\ front \in Seq(S) /\ Len(front) = n - 1
      /\ \A i \in 1 .. (n - 1) : front[i] = s[i]
  <2>1. \A i \in 1 .. (n - 1) : s[i] \in S
    BY <1>1, <1>2
  <2>2. n - 1 \in Int /\ 1 \in Int
    BY <1>1
  <2>3. /\ front \in Seq(S) /\ Len(front) = IF 1 <= n - 1 THEN n - 1 - 1 + 1 ELSE 0
        /\ \A i \in 1 .. n - 1 - 1 + 1 : front[i] = s[1 + i - 1]
    BY <2>1, <2>2, SubSeqProperties
  <2> QED
    BY <2>3, <1>1
<1>4. /\ back \in Seq(S) /\ Len(back) = Len(s) - n
      /\ \A i \in 1 .. (Len(s) - n) : back[i] = s[n + i]
  <2>1. \A i \in n + 1 .. Len(s) : s[i] \in S
    BY <1>1, <1>2
  <2>2. n + 1 \in Int /\ Len(s) \in Int
    BY <1>1
  <2>3. /\ back \in Seq(S) /\ Len(back) = IF n + 1 <= Len(s) THEN Len(s) - (n + 1) + 1 ELSE 0
        /\ \A i \in 1 .. Len(s) - (n + 1) + 1 : back[i] = s[n + 1 + i - 1]
    BY <2>1, <2>2, SubSeqProperties
  <2>4. Len(back) = Len(s) - n
    BY <2>3, <1>1
  <2>5. ASSUME NEW i \in 1 .. (Len(s) - n)
        PROVE  back[i] = s[n + i]
    <3>1. i \in 1 .. Len(s) - (n + 1) + 1 /\ n + 1 + i - 1 = n + i
      BY <1>1
    <3>2. back[i] = s[n + 1 + i - 1]
      BY <2>3, <3>1
    <3> QED
      BY <3>1, <3>2
  <2> QED
    BY <2>3, <2>4, <2>5
<1>5. RemoveAt(s, n) = front \o back
  BY DEF RemoveAt
<1> HIDE DEF front, back
<1>6. /\ front \o back \in Seq(S)
      /\ Len(front \o back) = Len(front) + Len(back)
      /\ \A i \in 1 .. Len(front) + Len(back) :
           (front \o back)[i] = IF i <= Len(front) THEN front[i] ELSE back[i - Len(front)]
  BY <1>3, <1>4, ConcatProperties
<1>7. Len(RemoveAt(s, n)) = Len(s) - 1
  BY <1>1, <1>3, <1>4, <1>5, <1>6
<1>8. DOMAIN RemoveAt(s, n) = 1 .. (Len(s) - 1)
  BY <1>5, <1>6, <1>7, LenProperties
<1>9. ASSUME NEW i \in 1 .. (Len(s) - 1)
      PROVE  RemoveAt(s, n)[i] = IF i < n THEN s[i] ELSE s[i + 1]
  <2>1. i \in 1 .. Len(front) + Len(back)
    BY <1>1, <1>3, <1>4
  <2>2. RemoveAt(s, n)[i] = IF i <= n - 1 THEN front[i] ELSE back[i - (n - 1)]
    BY <2>1, <1>3, <1>5, <1>6
  <2>3. CASE i <= n - 1
    BY <2>2, <2>3, <1>1, <1>3
  <2>4. CASE ~(i <= n - 1)
    <3>1. i - (n - 1) \in 1 .. (Len(s) - n) /\ n + (i - (n - 1)) = i + 1
      BY <2>4, <1>1
    <3>2. back[i - (n - 1)] = s[i + 1]
      BY <3>1, <1>4
    <3> QED
      BY <3>2, <2>2, <2>4, <1>1
  <2> QED
    BY <2>3, <2>4
<1> QED
  BY <1>1, <1>5, <1>6, <1>7, <1>8, <1>9

\* t is s without one of its elements, which is at a position of `gone'.
Shrunk(s, t, gone) ==
  \/ gone = {} /\ t = s
  \/ \E n \in gone :
       /\ DOMAIN t = 1 .. (Len(s) - 1) /\ Len(t) = Len(s) - 1
       /\ \A i \in 1 .. (Len(s) - 1) : t[i] = IF i < n THEN s[i] ELSE s[i + 1]

LEMMA RemoveFirstFacts ==
  ASSUME NEW S, NEW s \in Seq(S), NEW e
  PROVE  /\ RemoveFirst(s, e) \in Seq(S) /\ Len(RemoveFirst(s, e)) <= Len(s)
         /\ Shrunk(s, RemoveFirst(s, e), {i \in DOMAIN s : s[i] = e})
<1>1. Len(s) \in Nat /\ DOMAIN s = 1 .. Len(s)
  BY LenProperties
<1> DEFINE I == {i \in 1 .. Len(s) : s[i] = e}
<1>2. {i \in DOMAIN s : s[i] = e} = I
  BY <1>1
<1> HIDE DEF I
<1>3. CASE I = {}
  <2>1. RemoveFirst(s, e) = s
    BY <1>3 DEF RemoveFirst, I
  <2> QED
    <3>1. {i \in DOMAIN s : s[i] = e} = {}
      BY <1>2, <1>3, Zenon
    <3>2. Len(s) <= Len(s)
      BY <1>1
    <3> QED
      BY <2>1, <3>1, <3>2, Zenon DEF Shrunk
<1>4. CASE I # {}
  <2>1. I \in SUBSET Nat
    BY <1>1 DEF I
  <2>2. Min(I) \in I
    BY <2>1, <1>4, LeastPosition
  <2>3. RemoveFirst(s, e) = RemoveAt(s, Min(I))
    <3>1. SelectInSeq(s, LAMBDA v : v = e) = Min(I)
      BY <1>4 DEF SelectInSeq, I
    <3> QED
      BY <3>1, <1>4 DEF RemoveFirst, I
  <2>4. Min(I) \in DOMAIN s
    BY <2>2, <1>1 DEF I
  <2>5. /\ RemoveAt(s, Min(I)) \in Seq(S) /\ Len(RemoveAt(s, Min(I))) = Len(s) - 1
        /\ DOMAIN RemoveAt(s, Min(I)) = 1 .. (Len(s) - 1)
        /\ \A i \in 1 .. (Len(s) - 1) :
             RemoveAt(s, Min(I))[i] = IF i < Min(I) THEN s[i] ELSE s[i + 1]
    BY <2>4, RemoveAtFacts
  <2> QED
    BY <2>2, <2>3, <2>5, <1>2, <1>1 DEF Shrunk
<1> QED
  BY <1>3, <1>4

LEMMA SplicedFacts ==
  ASSUME NEW S, NEW q \in Seq(S), NEW id
  PROVE  /\ Spliced(q, id) \in Seq(S) /\ Len(Spliced(q, id)) <= Len(q)
         /\ Shrunk(q, Spliced(q, id), {i \in DOMAIN q : q[i].id = id})
<1>1. Len(q) \in Nat /\ DOMAIN q = 1 .. Len(q)
  BY LenProperties
<1> DEFINE I == {i \in 1 .. Len(q) : q[i].id = id}
<1>2. {i \in DOMAIN q : q[i].id = id} = I
  BY <1>1
<1> HIDE DEF I
<1>3. CASE I = {}
  <2>1. Spliced(q, id) = q
    BY <1>3 DEF Spliced, RemoveFirstMatch, I
  <2> QED
    <3>1. {i \in DOMAIN q : q[i].id = id} = {}
      BY <1>2, <1>3, Zenon
    <3>2. Len(q) <= Len(q)
      BY <1>1
    <3> QED
      BY <2>1, <3>1, <3>2, Zenon DEF Shrunk
<1>4. CASE I # {}
  <2>1. I \in SUBSET Nat
    BY <1>1 DEF I
  <2>2. Min(I) \in I
    BY <2>1, <1>4, LeastPosition
  <2>3. Spliced(q, id) = RemoveAt(q, Min(I))
    <3>1. SelectInSeq(q, LAMBDA request : request.id = id) = Min(I)
      BY <1>4 DEF SelectInSeq, I
    <3> QED
      BY <3>1, <1>4 DEF Spliced, RemoveFirstMatch, I
  <2>4. Min(I) \in DOMAIN q
    BY <2>2, <1>1 DEF I
  <2>5. /\ RemoveAt(q, Min(I)) \in Seq(S) /\ Len(RemoveAt(q, Min(I))) = Len(q) - 1
        /\ DOMAIN RemoveAt(q, Min(I)) = 1 .. (Len(q) - 1)
        /\ \A i \in 1 .. (Len(q) - 1) :
             RemoveAt(q, Min(I))[i] = IF i < Min(I) THEN q[i] ELSE q[i + 1]
    BY <2>4, RemoveAtFacts
  <2> QED
    BY <2>2, <2>3, <2>5, <1>2, <1>1 DEF Shrunk
<1> QED
  BY <1>3, <1>4

LEMMA ShrunkFacts ==
  ASSUME NEW S, NEW s \in Seq(S), NEW t \in Seq(S), NEW gone \in SUBSET (DOMAIN s),
         Shrunk(s, t, gone)
  PROVE  /\ \A i, k \in DOMAIN t : \E j, l \in DOMAIN s :
              t[i] = s[j] /\ t[k] = s[l] /\ (j = l => i = k)
         /\ \A j \in DOMAIN s \ gone : \E i \in DOMAIN t : t[i] = s[j]
         /\ (\A n, m \in gone : n = m) => \A i \in DOMAIN t : \E j \in DOMAIN s \ gone : t[i] = s[j]
         /\ s # <<>> /\ 1 \notin gone => t # <<>> /\ Head(t) = Head(s)
<1>1. Len(s) \in Nat /\ DOMAIN s = 1 .. Len(s) /\ Len(t) \in Nat /\ DOMAIN t = 1 .. Len(t)
  BY LenProperties
<1>2. CASE gone = {} /\ t = s
  BY <1>1, <1>2
<1>3. CASE \E n \in gone : /\ DOMAIN t = 1 .. (Len(s) - 1) /\ Len(t) = Len(s) - 1
                           /\ \A i \in 1 .. (Len(s) - 1) : t[i] = IF i < n THEN s[i] ELSE s[i + 1]
  <2>1. PICK n \in gone : /\ DOMAIN t = 1 .. (Len(s) - 1) /\ Len(t) = Len(s) - 1
                          /\ \A i \in 1 .. (Len(s) - 1) : t[i] = IF i < n THEN s[i] ELSE s[i + 1]
    BY <1>3
  <2>2. n \in 1 .. Len(s) /\ Len(t) = Len(s) - 1
    BY <2>1, <1>1
  <2>3. ASSUME NEW i \in DOMAIN t, NEW k \in DOMAIN t
        PROVE  \E j, l \in DOMAIN s : t[i] = s[j] /\ t[k] = s[l] /\ (j = l => i = k)
    <3> DEFINE from(x) == IF x < n THEN x ELSE x + 1
    <3>1. /\ from(i) \in DOMAIN s /\ from(k) \in DOMAIN s
          /\ t[i] = s[from(i)] /\ t[k] = s[from(k)] /\ (from(i) = from(k) => i = k)
      BY <2>1, <2>2, <1>1
    <3> QED
      BY <3>1
  <2>4. ASSUME NEW j \in DOMAIN s, j \notin gone
        PROVE  \E i \in DOMAIN t : t[i] = s[j]
    <3>1. j # n
      BY <2>4
    <3>2. CASE j < n
      <4>1. j \in DOMAIN t /\ t[j] = s[j]
        BY <3>2, <2>1, <2>2, <1>1
      <4> QED
        BY <4>1
    <3>3. CASE ~(j < n)
      <4>1. j - 1 \in DOMAIN t /\ t[j - 1] = s[j]
        BY <3>1, <3>3, <2>1, <2>2, <1>1
      <4> QED
        BY <4>1
    <3> QED
      BY <3>2, <3>3
  <2>5. ASSUME \A m, l \in gone : m = l, NEW i \in DOMAIN t
        PROVE  \E j \in DOMAIN s \ gone : t[i] = s[j]
    <3> DEFINE from(x) == IF x < n THEN x ELSE x + 1
    <3>1. from(i) \in DOMAIN s /\ from(i) # n /\ t[i] = s[from(i)]
      BY <2>1, <2>2, <1>1
    <3>2. from(i) \notin gone
      BY <3>1, <2>5
    <3> QED
      BY <3>1, <3>2
  <2>6. ASSUME s # <<>>, 1 \notin gone
        PROVE  t # <<>> /\ Head(t) = Head(s)
    <3>1. n # 1 /\ n > 1 /\ Len(s) > 1
      BY <2>6, <2>2, <1>1
    <3>2. 1 \in DOMAIN t /\ t[1] = s[1]
      BY <3>1, <2>1, <1>1
    <3>3. t # <<>>
      BY <3>2, <2>2, <3>1, EmptySeq
    <3> QED
      BY <3>2, <3>3, <2>6, TailFacts
  <2> QED
    BY <2>3, <2>4, <2>5, <2>6
<1> QED
  BY <1>2, <1>3 DEF Shrunk

-----------------------------------------------------------------------------
Once == Ids \ Reasked
Answers == {"user", "pump"}

\* The message is about this answer under way, and for the current client.
Owns(answer, message) == answer # None /\ answer.id = message.id /\ answer.client = current

\* A reply on its way belongs to the answer under way, and is the only one.
Replies ==
  /\ \A i \in DOMAIN outbox : outbox[i].type = "answer" =>
       /\ outbox[i].by = "user" => Owns(answering, outbox[i])
       /\ outbox[i].by = "pump" => Owns(pump, outbox[i])
  /\ \A i \in DOMAIN inbox : inbox[i].type = "answered" =>
       /\ inbox[i].by = "user" => Owns(answering, inbox[i])
       /\ inbox[i].by = "pump" => Owns(pump, inbox[i])
  /\ \A i, j \in DOMAIN outbox :
       outbox[i].type = "answer" /\ outbox[j].type = "answer" /\ outbox[i].by = outbox[j].by => i = j
  /\ \A i, j \in DOMAIN inbox :
       inbox[i].type = "answered" /\ inbox[j].type = "answered" /\ inbox[i].by = inbox[j].by => i = j
  /\ \A i \in DOMAIN outbox, j \in DOMAIN inbox :
       outbox[i].type = "answer" /\ inbox[j].type = "answered" => outbox[i].by # inbox[j].by
  /\ pump # None => KindOf(pump.id) = "permission"
  /\ \A i \in DOMAIN inbox : inbox[i].type = "resolved" => KindOf(inbox[i].id) = "question"

\* Without a client nothing is under way.
Offline ==
  /\ current \in {0, issued}
  /\ current = 0 => /\ inbox = <<>> /\ outbox = <<>> /\ agent = "down" /\ open = Empty
                    /\ working = {} /\ protection = {}

\* The queues, their cards and their protection.
Filed ==
  /\ CardIsHead
  /\ InputProtected
  /\ \A kind \in Kinds : \A i \in DOMAIN queue[kind] :
       queue[kind][i].id \in IdsOf(kind) /\ queue[kind][i].client <= issued

\* Whatever main or the worker knows of was asked.
Known ==
  /\ seen \subseteq asked
  /\ \A kind \in Kinds : \A i \in DOMAIN queue[kind] : queue[kind][i].id \in asked
  /\ \A kind \in Kinds : \A i \in DOMAIN open[kind] : open[kind][i] \in asked
  /\ \A i \in DOMAIN inbox : inbox[i].type # "prompted" => inbox[i].id \in asked
  /\ answering # None => answering.id \in asked
  /\ pump # None => pump.id \in asked

\* A request is at one place of each queue.
Distinct ==
  /\ \A kind \in Kinds : \A i, j \in DOMAIN open[kind] : open[kind][i] = open[kind][j] => i = j
  /\ \A id \in Once, kind \in Kinds : \A i, j \in DOMAIN queue[kind] :
       queue[kind][i].id = id /\ queue[kind][j].id = id => i = j
  /\ \A id \in Once : \A i, j \in DOMAIN inbox :
       inbox[i].type = "asked" /\ inbox[j].type = "asked" /\ inbox[i].id = id /\ inbox[j].id = id => i = j

\* A request on its way to main is new to main.
Unheard ==
  \A id \in Once : InInbox("asked", id) =>
    /\ id \notin seen /\ ~InQueue(id)
    /\ answering # None => answering.id # id
    /\ pump # None => pump.id # id
    /\ id \in ToSet(open[KindOf(id)]) \union withdrawn

Accepted(id) == \E i \in DOMAIN inbox : inbox[i].type = "answered" /\ inbox[i].id = id /\ inbox[i].ok

\* What an answer was accepted for, or was resolved, is no longer open.
Closed ==
  \A id \in Once : Accepted(id) \/ InInbox("resolved", id) => id \notin ToSet(open[KindOf(id)])

\* An answer under way is for the head of its queue, until the queue is deleted.
HeadFor(answer) ==
  answer # None /\ answer.id \in Once /\ InQueue(answer.id)
    => ~answer.stale /\ HeadOf(queue[KindOf(answer.id)]) = answer.id

AtHead == HeadFor(answering) /\ HeadFor(pump)

\* AnsweredLeaves, and the reply on its way accepts the answer.
Acknowledged ==
  \A kind \in Kinds : \A i \in DOMAIN queue[kind] :
    queue[kind][i].client = current
      /\ queue[kind][i].id \notin ToSet(open[kind]) \union withdrawn \union Reasked
      => Accepted(queue[kind][i].id)

IInv ==
  /\ TypeOK /\ Replies /\ Offline /\ Filed /\ Known /\ Distinct /\ Unheard /\ Closed /\ AtHead
  /\ Acknowledged /\ OpenIsQueued

-----------------------------------------------------------------------------
\* Types.
LEMMA HeadOfType ==
  ASSUME NEW q \in Seq(Request)
  PROVE  /\ HeadOf(q) \in Ids \union {None}
         /\ q # <<>> => Head(q) \in Request /\ HeadOf(q) = Head(q).id /\ HeadOf(q) = q[1].id
                        /\ HeadOf(q) # None /\ 1 \in DOMAIN q
         /\ q = <<>> => HeadOf(q) = None
         /\ HeadOf(q) # None => q # <<>>
<1>1. CASE q = <<>>
  BY <1>1 DEF HeadOf
<1>2. CASE q # <<>>
  <2>1. Head(q) \in Request /\ Head(q) = q[1] /\ 1 \in DOMAIN q
    BY <1>2, TailFacts
  <2>2. Head(q).id \in Ids
    BY <2>1 DEF Request
  <2>3. None \notin Ids
    BY IdsAssumption DEF Ids
  <2> QED
    BY <1>2, <2>1, <2>2, <2>3 DEF HeadOf
<1> QED
  BY <1>1, <1>2

LEMMA KindFacts ==
  /\ \A id \in Ids : KindOf(id) \in Kinds /\ id \in IdsOf(KindOf(id)) /\ id # None
  /\ \A kind \in Kinds : \A id \in IdsOf(kind) : KindOf(id) = kind /\ id \in Ids
  /\ \A id \in Questions : KindOf(id) = "question" /\ id \in Once
  /\ \A id \in Ids : KindOf(id) = "question" => id \in Questions
  /\ None \notin Ids /\ "permission" \in Kinds /\ "question" \in Kinds
BY IdsAssumption DEF KindOf, Kinds, Ids, IdsOf, Once

LEMMA EventTypes ==
  ASSUME NEW e \in Event
  PROVE  /\ e.type \in {"asked", "resolved", "prompted", "answered"}
         /\ e.type = "asked" => e.id \in Ids /\ e.options \in BOOLEAN
         /\ e.type = "resolved" => e.id \in Ids
         /\ e.type = "prompted" => e.turn \in Turns /\ e.ok \in BOOLEAN
         /\ e.type = "answered" => e.id \in Ids /\ e.by \in Answers /\ e.ok \in BOOLEAN
BY DEF Event, Answers

LEMMA CommandTypes ==
  ASSUME NEW c \in Command
  PROVE  /\ c.type \in {"prompt", "cancel", "answer"}
         /\ c.type = "prompt" => c.turn \in Turns
         /\ c.type = "answer" => c.id \in Ids /\ c.by \in Answers
BY DEF Command, Answers

LEMMA AnswerTypes ==
  ASSUME NEW a \in Answer
  PROVE  /\ a # None /\ a.id \in Ids
         /\ [a EXCEPT !.stale = TRUE] \in Answer /\ [a EXCEPT !.stale = TRUE] # None
         /\ [a EXCEPT !.stale = TRUE].id = a.id /\ [a EXCEPT !.stale = TRUE].client = a.client
         /\ [a EXCEPT !.stale = TRUE].stale
         /\ a.client \in Clients /\ a.stale \in BOOLEAN
BY NoneAssumption DEF Answer

PumpTyped ==
  pump \in Answer \union {None} /\ outbox \in Seq(Command) /\ spinning \in BOOLEAN

ShownTyped ==
  /\ queue \in [Kinds -> Seq(Request)] /\ card \in [Kinds -> Ids \union {None}]
  /\ \A kind \in Kinds : Len(queue[kind]) <= MaxQueue

LEMMA PumpRunsType ==
  ASSUME NEW q \in Seq(Request), NEW permissionMode, NEW sent \in Seq(Command),
         current \in 0 .. MaxClients, PumpRuns(q, permissionMode, sent)
  PROVE  PumpTyped'
<1>1. CASE permissionMode = "auto" /\ q # <<>> /\ current # 0
  <2>1. /\ pump' = [id |-> Head(q).id, client |-> current, stale |-> FALSE]
        /\ outbox' = Append(sent, [type |-> "answer", id |-> Head(q).id, by |-> "pump"])
        /\ spinning' = FALSE
    BY <1>1 DEF PumpRuns
  <2>2. Head(q).id \in Ids
    BY <1>1, HeadOfType DEF Request
  <2>3. [type |-> "answer", id |-> Head(q).id, by |-> "pump"] \in Command
    BY <2>2 DEF Command
  <2>4. [id |-> Head(q).id, client |-> current, stale |-> FALSE] \in Answer
    BY <2>2, <1>1, SizesAssumption DEF Answer, Clients
  <2>5. outbox' \in Seq(Command)
    BY <2>1, <2>3, AppendFacts
  <2> QED
    BY <2>1, <2>4, <2>5 DEF PumpTyped
<1>2. CASE ~(permissionMode = "auto" /\ q # <<>> /\ current # 0)
  <2>1. pump' = None /\ outbox' = sent /\ spinning' \in BOOLEAN
    BY <1>2 DEF PumpRuns
  <2> QED
    BY <2>1 DEF PumpTyped
<1> QED
  BY <1>1, <1>2

LEMMA PumpCalledType ==
  ASSUME TypeOK, NEW q \in Seq(Request), NEW permissionMode, PumpCalled(q, permissionMode)
  PROVE  PumpTyped'
<1>1. outbox \in Seq(Command) /\ current \in 0 .. MaxClients
  BY DEF TypeOK
<1>2. CASE PumpRuns(q, permissionMode, outbox)
  BY <1>1, <1>2, PumpRunsType
<1>3. CASE UNCHANGED <<pump, spinning, outbox>>
  BY <1>3 DEF TypeOK, PumpTyped
<1> QED
  BY <1>2, <1>3 DEF PumpCalled

LEMMA PumpAgainType == ASSUME TypeOK, PumpAgain PROVE PumpTyped'
<1>1. outbox \in Seq(Command) /\ current \in 0 .. MaxClients /\ queue["permission"] \in Seq(Request)
  BY DEF TypeOK, Kinds
<1> QED
  BY <1>1, PumpRunsType DEF PumpAgain

LEMMA HeadSyncedType ==
  ASSUME TypeOK, NEW q \in [Kinds -> Seq(Request)], NEW kind \in Kinds,
         \A other \in Kinds : Len(q[other]) <= MaxQueue, HeadSynced(q, kind)
  PROVE  /\ ShownTyped' /\ queue' = q
         /\ status' \in {"idle", "running", "waiting", "failed"} /\ protection' \subseteq {"turn", "input"}
<1>1. queue' = q /\ card' = [card EXCEPT ![kind] = HeadOf(q[kind])]
  BY DEF HeadSynced
<1>2. HeadOf(q[kind]) \in Ids \union {None}
  BY HeadOfType
<1>3. card' \in [Kinds -> Ids \union {None}]
  BY <1>1, <1>2 DEF TypeOK
<1>4. status' \in {"idle", "running", "waiting", "failed"}
  BY DEF HeadSynced, TypeOK
<1>5. protection' \subseteq {"turn", "input"}
  BY DEF HeadSynced, InputSynced, Without, TypeOK
<1> QED
  BY <1>1, <1>3, <1>4, <1>5 DEF ShownTyped

LEMMA StaleType ==
  ASSUME NEW a \in Answer \union {None}, NEW kinds
  PROVE  Stale(a, kinds) \in Answer \union {None}
BY AnswerTypes DEF Stale

\* The queues of `kinds' are empty.
LEMMA EmptiedType ==
  ASSUME TypeOK, NEW kinds,
         queue' = [kind \in Kinds |-> IF kind \in kinds THEN <<>> ELSE queue[kind]],
         card' = [kind \in Kinds |-> IF kind \in kinds THEN None ELSE card[kind]]
  PROVE  ShownTyped'
<1>1. <<>> \in Seq(Request) /\ Len(<<>>) = 0
  BY EmptySeq
<1>2. queue' \in [Kinds -> Seq(Request)] /\ card' \in [Kinds -> Ids \union {None}]
  BY <1>1 DEF TypeOK
<1>3. \A kind \in Kinds : Len(queue'[kind]) <= MaxQueue
  BY <1>1, SizesAssumption DEF TypeOK
<1> QED
  BY <1>2, <1>3 DEF ShownTyped

LEMMA DeletedType ==
  ASSUME TypeOK, NEW kinds, Deleted(kinds)
  PROVE  ShownTyped' /\ answering' \in Answer \union {None} /\ pump' \in Answer \union {None}
BY EmptiedType, StaleType DEF Deleted, TypeOK

LEMMA DetachedType ==
  ASSUME TypeOK, Detached
  PROVE  /\ current' \in 0 .. MaxClients /\ issued' \in 0 .. MaxClients
         /\ protection' \subseteq {"turn", "input"}
         /\ outbox' \in Seq(Command) /\ inbox' \in Seq(Event) /\ open' \in [Kinds -> Seq(Ids)]
         /\ agent' = "down" /\ working' \subseteq Turns
         /\ asked' \subseteq Ids /\ withdrawn' \subseteq Ids /\ skipped' \subseteq Ids
BY EmptySeq, SizesAssumption DEF Detached, TypeOK, Empty

LEMMA CreatedType ==
  ASSUME TypeOK, NEW reasons \in SUBSET {"turn", "input"}, Created(reasons)
  PROVE  /\ current' \in 0 .. MaxClients /\ issued' \in 0 .. MaxClients
         /\ protection' \subseteq {"turn", "input"}
BY SizesAssumption DEF Created, TypeOK

LEMMA RefusedType ==
  ASSUME TypeOK, NEW kinds, NEW reasons \in SUBSET {"turn", "input"}, Refused(kinds, reasons)
  PROVE  /\ ShownTyped' /\ answering' \in Answer \union {None} /\ PumpTyped'
         /\ status' \in {"idle", "running", "waiting", "failed"} /\ protection' \subseteq {"turn", "input"}
<1>1. ShownTyped' /\ answering' \in Answer \union {None} /\ pump' \in Answer \union {None}
  BY EmptiedType, StaleType DEF Refused, TypeOK
<1>2. [type |-> "cancel"] \in Command
  BY DEF Command
<1>3. outbox' \in Seq(Command)
  BY <1>2, AppendFacts DEF Refused, TypeOK
<1> QED
  BY <1>1, <1>3 DEF Refused, PumpTyped, TypeOK

LEMMA QueuedType ==
  ASSUME TypeOK, NEW id \in Ids, current # 0, ~Full(KindOf(id))
  PROVE  /\ Queued(id) \in [Kinds -> Seq(Request)]
         /\ \A kind \in Kinds : Len(Queued(id)[kind]) <= MaxQueue
         /\ Queued(id) = [queue EXCEPT ![KindOf(id)] = Append(@, [id |-> id, client |-> current])]
         /\ [id |-> id, client |-> current] \in Request
<1> DEFINE kind == KindOf(id)
           request == [id |-> id, client |-> current]
<1>1. kind \in Kinds /\ queue[kind] \in Seq(Request) /\ Len(queue[kind]) < MaxQueue
  BY KindFacts, SizesAssumption, LenProperties DEF TypeOK, Full
<1>2. request \in Request
  BY SizesAssumption DEF TypeOK, Request, Clients
<1>3. Append(queue[kind], request) \in Seq(Request)
      /\ Len(Append(queue[kind], request)) = Len(queue[kind]) + 1 /\ Len(queue[kind]) \in Nat
  BY <1>1, <1>2, AppendFacts
<1>4. Queued(id) = [queue EXCEPT ![kind] = Append(queue[kind], request)]
  BY DEF Queued
<1> HIDE DEF request, kind
<1>5. Queued(id) \in [Kinds -> Seq(Request)]
  BY <1>1, <1>3, <1>4 DEF TypeOK
<1>6. \A other \in Kinds : Len(Queued(id)[other]) <= MaxQueue
  BY <1>1, <1>3, <1>4, SizesAssumption DEF TypeOK
<1> QED
  BY <1>2, <1>4, <1>5, <1>6 DEF request, kind

LEMMA ShiftedType ==
  ASSUME TypeOK, NEW answer \in Answer, HeadOf(queue[KindOf(answer.id)]) = answer.id
  PROVE  /\ Shifted(answer) \in [Kinds -> Seq(Request)]
         /\ \A kind \in Kinds : Len(Shifted(answer)[kind]) <= MaxQueue
<1>1. CASE answer.stale
  BY <1>1 DEF Shifted, TypeOK
<1>2. CASE ~answer.stale
  <2> DEFINE kind == KindOf(answer.id)
  <2>1. kind \in Kinds /\ queue[kind] \in Seq(Request) /\ Len(queue[kind]) <= MaxQueue
        /\ answer.id # None
    BY AnswerTypes, KindFacts DEF TypeOK
  <2>2. queue[kind] # <<>>
    BY <2>1, HeadOfType
  <2>3. Tail(queue[kind]) \in Seq(Request) /\ Len(Tail(queue[kind])) = Len(queue[kind]) - 1
        /\ Len(queue[kind]) \in Nat
    BY <2>1, <2>2, HeadTailProperties, LenProperties
  <2>4. Shifted(answer) = [queue EXCEPT ![kind] = Tail(queue[kind])]
    BY <1>2 DEF Shifted
  <2> HIDE DEF kind
  <2>5. Len(Tail(queue[kind])) <= MaxQueue
    BY <2>1, <2>3, SizesAssumption
  <2> QED
    BY <2>1, <2>3, <2>4, <2>5 DEF TypeOK
<1> QED
  BY <1>1, <1>2

LEMMA ReceiveType ==
  ASSUME TypeOK, NEW type, Receives(type)
  PROVE  /\ inbox' \in Seq(Event) /\ Head(inbox) \in Event /\ Head(inbox).type = type
         /\ inbox # <<>> /\ inbox' = Tail(inbox) /\ Head(inbox) = inbox[1] /\ 1 \in DOMAIN inbox
BY TailFacts DEF Receives, TypeOK

LEMMA CommandType ==
  ASSUME TypeOK, NEW type, outbox # <<>>, Head(outbox).type = type
  PROVE  /\ Tail(outbox) \in Seq(Command) /\ Head(outbox) \in Command
         /\ Head(outbox) = outbox[1] /\ 1 \in DOMAIN outbox
BY TailFacts DEF TypeOK

-----------------------------------------------------------------------------
(***************************************************************************)
(* Types: every action keeps TypeOK.                                       *)
(***************************************************************************)
LEMMA UnopenedType ==
  ASSUME TypeOK, NEW id \in Ids
  PROVE  /\ Unopened(id) \in [Kinds -> Seq(Ids)]
         /\ Unopened(id) = [open EXCEPT ![KindOf(id)] = RemoveFirst(open[KindOf(id)], id)]
         /\ RemoveFirst(open[KindOf(id)], id) \in Seq(Ids)
         /\ Shrunk(open[KindOf(id)], RemoveFirst(open[KindOf(id)], id),
                   {i \in DOMAIN open[KindOf(id)] : open[KindOf(id)][i] = id})
<1>1. KindOf(id) \in Kinds /\ open[KindOf(id)] \in Seq(Ids)
  BY KindFacts DEF TypeOK
<1>2. /\ RemoveFirst(open[KindOf(id)], id) \in Seq(Ids)
      /\ Shrunk(open[KindOf(id)], RemoveFirst(open[KindOf(id)], id),
                {i \in DOMAIN open[KindOf(id)] : open[KindOf(id)][i] = id})
  BY <1>1, RemoveFirstFacts
<1> QED
  BY <1>1, <1>2 DEF Unopened, TypeOK

LEMMA PromptTyped == ASSUME TypeOK, Prompt PROVE TypeOK'
<1>1. /\ turn' \in [Turns -> [stage : {"none", "connecting", "sent", "over"}, client : 0..MaxClients]]
      /\ lifecycle' \in 0..MaxTurns /\ status' \in {"idle", "running", "waiting", "failed"}
  <2>1. current' \in 0..MaxClients
    BY CreatedType DEF Prompt, TypeOK
  <2> QED
    BY <2>1, SizesAssumption DEF Prompt, TypeOK, Turns
<1>2. CASE current = 0 /\ Deleted(Kinds) /\ seen' = {} /\ Created({"turn"})
  BY <1>1, <1>2, DeletedType, CreatedType DEF Prompt, TypeOK, ShownTyped, Created, worker, channels
<1>3. CASE /\ protection' = protection \union {"turn"} /\ Restarted
           /\ UNCHANGED <<queue, card, seen, answering, pump, current, issued, channels>>
  BY <1>1, <1>3 DEF Prompt, Restarted, TypeOK, channels
<1> QED
  BY <1>2, <1>3 DEF Prompt

LEMMA PromptSentTyped == ASSUME TypeOK, NEW t \in Turns, PromptSent(t) PROVE TypeOK'
<1>1. [type |-> "prompt", turn |-> t] \in Command
  BY DEF Command
<1>2. outbox' \in Seq(Command)
  BY <1>1, AppendFacts DEF PromptSent, TypeOK
<1> QED
  BY <1>2 DEF PromptSent, TypeOK, record, queues, answers, managed, worker

LEMMA ConnectionFailsTyped == ASSUME TypeOK, ConnectionFails PROVE TypeOK'
BY DEF ConnectionFails, PromptsFail, Without, TypeOK, queues, answers, worker, channels

LEMMA StalePromptEndsTyped == ASSUME TypeOK, NEW t \in Turns, StalePromptEnds(t) PROVE TypeOK'
BY DEF StalePromptEnds, TypeOK, record, queues, answers, managed, worker, channels

LEMMA CancelTurnTyped == ASSUME TypeOK, CancelTurn PROVE TypeOK'
<1>1. [type |-> "cancel"] \in Command
  BY DEF Command
<1>2. outbox' \in Seq(Command)
  BY <1>1, AppendFacts DEF CancelTurn, TypeOK
<1> QED
  BY <1>2, DeletedType DEF CancelTurn, TypeOK, ShownTyped, worker

LEMMA UserAnswersTyped == ASSUME TypeOK, NEW kind \in Kinds, UserAnswers(kind) PROVE TypeOK'
<1>1. card[kind] \in Ids
  BY DEF UserAnswers, TypeOK
<1>2. [type |-> "answer", id |-> card[kind], by |-> "user"] \in Command
  BY <1>1 DEF Command
<1>3. outbox' \in Seq(Command)
  BY <1>2, AppendFacts DEF UserAnswers, TypeOK
<1>4. answering' \in Answer
  BY <1>1, SizesAssumption DEF UserAnswers, TypeOK, Answer, Clients
<1> QED
  BY <1>3, <1>4 DEF UserAnswers, TypeOK, record, queues, turns, managed, worker

LEMMA UserAnswersOfflineTyped == ASSUME TypeOK, NEW kind \in Kinds, UserAnswersOffline(kind) PROVE TypeOK'
<1>1. ShownTyped' /\ answering' \in Answer \union {None} /\ pump' \in Answer \union {None}
  BY DeletedType DEF UserAnswersOffline
<1>2. current' \in 0 .. MaxClients /\ issued' \in 0 .. MaxClients /\ protection' \subseteq {"turn", "input"}
  BY CreatedType DEF UserAnswersOffline
<1>3. seen' \subseteq Permissions
  BY DEF UserAnswersOffline, TypeOK
<1> QED
  BY <1>1, <1>2, <1>3 DEF UserAnswersOffline, Created, TypeOK, ShownTyped, turns, worker, channels

LEMMA SetModeTyped == ASSUME TypeOK, NEW permissionMode \in {"ask", "auto"}, SetMode(permissionMode) PROVE TypeOK'
<1>1. PumpTyped'
  <2>1. CASE PumpCalled(queue["permission"], permissionMode)
    <3>1. queue["permission"] \in Seq(Request)
      BY DEF TypeOK, Kinds
    <3> QED
      BY <2>1, <3>1, PumpCalledType
  <2>2. CASE UNCHANGED <<pump, spinning, outbox>>
    BY <2>2 DEF TypeOK, PumpTyped
  <2> QED
    BY <2>1, <2>2 DEF SetMode
<1> QED
  BY <1>1 DEF SetMode, TypeOK, PumpTyped, queues, turns, managed, worker

LEMMA ChangeEffortTyped == ASSUME TypeOK, ChangeEffort PROVE TypeOK'
BY DeletedType, DetachedType DEF ChangeEffort, TypeOK, ShownTyped, turns

LEMMA ReconnectTyped == ASSUME TypeOK, Reconnect PROVE TypeOK'
<1>1. {} \in SUBSET {"turn", "input"}
  OBVIOUS
<1>2. current' \in 0 .. MaxClients /\ issued' \in 0 .. MaxClients /\ protection' \subseteq {"turn", "input"}
  BY <1>1, CreatedType DEF Reconnect
<1> QED
  BY <1>2 DEF Reconnect, Created, TypeOK, record, queues, turns, answers, worker, channels

LEMMA SetGrokCliPathTyped == ASSUME TypeOK, SetGrokCliPath PROVE TypeOK'
BY DetachedType, SizesAssumption DEF SetGrokCliPath, TypeOK, record, queues, turns, answers

LEMMA EvictTyped == ASSUME TypeOK, Evict PROVE TypeOK'
BY DetachedType DEF Evict, TypeOK, record, queues, turns, answers

LEMMA ClientExitsTyped == ASSUME TypeOK, ClientExits PROVE TypeOK'
BY DeletedType, DetachedType DEF ClientExits, TypeOK, ShownTyped, turns

LEMMA PromptEndsTyped == ASSUME TypeOK, PromptEnds PROVE TypeOK'
<1>1. inbox' \in Seq(Event) /\ Head(inbox).turn \in Turns
  BY ReceiveType, EventTypes DEF PromptEnds
<1>2. /\ turn' \in [Turns -> [stage : {"none", "connecting", "sent", "over"}, client : 0..MaxClients]]
      /\ status' \in {"idle", "running", "waiting", "failed"}
      /\ protection' \subseteq {"turn", "input"}
  <2>1. \A r \in [stage : {"none", "connecting", "sent", "over"}, client : 0..MaxClients] :
          [r EXCEPT !.stage = "over"]
            \in [stage : {"none", "connecting", "sent", "over"}, client : 0..MaxClients]
    OBVIOUS
  <2>2. CASE PromptsFail({Head(inbox).turn})
    BY <2>1, <2>2 DEF PromptsFail, Without, TypeOK
  <2>3. CASE /\ turn' = [turn EXCEPT ![Head(inbox).turn].stage = "over"] /\ protection' = Without("turn")
             /\ status' = "idle"
    BY <1>1, <2>1, <2>3 DEF Without, TypeOK
  <2> QED
    BY <2>2, <2>3 DEF PromptEnds
<1> QED
  BY <1>1, <1>2 DEF PromptEnds, TypeOK, queues, answers, worker

LEMMA PermissionAskedTyped == ASSUME TypeOK, Offline, PermissionAsked PROVE TypeOK'
<1> DEFINE id == Head(inbox).id
<1>1. inbox' \in Seq(Event) /\ id \in Ids /\ current # 0 /\ inbox # <<>>
  BY ReceiveType, EventTypes DEF PermissionAsked, Offline
<1>2. id \in Permissions /\ seen' \subseteq Permissions
  BY <1>1 DEF PermissionAsked, TypeOK, Ids, KindOf
<1>3. /\ ShownTyped' /\ answering' \in Answer \union {None} /\ PumpTyped'
      /\ status' \in {"idle", "running", "waiting", "failed"} /\ protection' \subseteq {"turn", "input"}
  <2>1. protection \union {"input"} \in SUBSET {"turn", "input"}
    BY DEF TypeOK
  <2>2. CASE protection' = protection \union {"input"} /\ UNCHANGED <<status, card, queue, answers, outbox>>
    BY <2>1, <2>2 DEF TypeOK, ShownTyped, PumpTyped, answers
  <2>3. CASE \E kinds \in SUBSET Kinds : Refused(kinds, protection \union {"input"})
    BY <2>1, <2>3, RefusedType
  <2>4. CASE /\ ~Full("permission") /\ HeadSynced(Queued(id), "permission")
             /\ PumpCalled(queue'["permission"], mode) /\ UNCHANGED answering
    <3>1. KindOf(id) = "permission" /\ "permission" \in Kinds
      BY DEF PermissionAsked, Kinds
    <3>2. Queued(id) \in [Kinds -> Seq(Request)] /\ \A kind \in Kinds : Len(Queued(id)[kind]) <= MaxQueue
      BY <1>1, <2>4, <3>1, QueuedType
    <3>3. /\ ShownTyped' /\ queue' = Queued(id)
          /\ status' \in {"idle", "running", "waiting", "failed"} /\ protection' \subseteq {"turn", "input"}
      BY <3>1, <3>2, <2>4, HeadSyncedType
    <3>4. queue'["permission"] \in Seq(Request)
      BY <3>1, <3>2, <3>3
    <3>5. PumpTyped'
      BY <2>4, <3>4, PumpCalledType
    <3> QED
      BY <2>4, <3>3, <3>5 DEF TypeOK
  <2>5. {} \in SUBSET Kinds /\ {"permission"} \in SUBSET Kinds
    BY DEF Kinds
  <2> QED
    BY <2>2, <2>3, <2>4, <2>5 DEF PermissionAsked
<1> QED
  BY <1>1, <1>2, <1>3 DEF PermissionAsked, TypeOK, ShownTyped, PumpTyped, turns, worker

LEMMA QuestionAskedTyped == ASSUME TypeOK, Offline, QuestionAsked PROVE TypeOK'
<1> DEFINE id == Head(inbox).id
<1>1. inbox' \in Seq(Event) /\ id \in Ids /\ current # 0 /\ inbox # <<>>
  BY ReceiveType, EventTypes DEF QuestionAsked, Offline
<1>2. /\ ShownTyped' /\ answering' \in Answer \union {None} /\ PumpTyped'
      /\ status' \in {"idle", "running", "waiting", "failed"} /\ protection' \subseteq {"turn", "input"}
  <2>1. \A q : InputSynced(q) \in SUBSET {"turn", "input"}
    BY DEF TypeOK, InputSynced, Without
  <2>2. CASE \E q : Refused({"question"}, InputSynced(q))
    BY <2>1, <2>2, RefusedType
  <2>3. CASE ~Full("question") /\ HeadSynced(Queued(id), "question") /\ UNCHANGED <<answers, outbox>>
    <3>1. KindOf(id) = "question" /\ "question" \in Kinds
      BY DEF QuestionAsked, Kinds
    <3>2. Queued(id) \in [Kinds -> Seq(Request)] /\ \A kind \in Kinds : Len(Queued(id)[kind]) <= MaxQueue
      BY <1>1, <2>3, <3>1, QueuedType
    <3>3. /\ ShownTyped'
          /\ status' \in {"idle", "running", "waiting", "failed"} /\ protection' \subseteq {"turn", "input"}
      BY <3>1, <3>2, <2>3, HeadSyncedType
    <3> QED
      BY <2>3, <3>3 DEF TypeOK, PumpTyped, answers
  <2> QED
    BY <2>2, <2>3 DEF QuestionAsked
<1> QED
  BY <1>1, <1>2 DEF QuestionAsked, TypeOK, ShownTyped, PumpTyped, turns, worker

LEMMA QuestionResolvedTyped == ASSUME TypeOK, QuestionResolved PROVE TypeOK'
<1> DEFINE left == [queue EXCEPT !["question"] = Spliced(@, Head(inbox).id)]
<1>1. inbox' \in Seq(Event)
  BY ReceiveType DEF QuestionResolved
<1>2. left \in [Kinds -> Seq(Request)] /\ \A kind \in Kinds : Len(left[kind]) <= MaxQueue
  <2>1. "question" \in Kinds /\ queue["question"] \in Seq(Request)
    BY DEF TypeOK, Kinds
  <2>2. /\ Spliced(queue["question"], Head(inbox).id) \in Seq(Request)
        /\ Len(Spliced(queue["question"], Head(inbox).id)) <= Len(queue["question"])
    BY <2>1, SplicedFacts
  <2>3. Len(Spliced(queue["question"], Head(inbox).id)) \in Nat /\ Len(queue["question"]) \in Nat
    BY <2>1, <2>2, LenProperties
  <2>4. Len(Spliced(queue["question"], Head(inbox).id)) <= MaxQueue
    BY <2>1, <2>2, <2>3, SizesAssumption DEF TypeOK
  <2> QED
    BY <2>1, <2>2, <2>4 DEF TypeOK
<1>3. /\ ShownTyped'
      /\ status' \in {"idle", "running", "waiting", "failed"} /\ protection' \subseteq {"turn", "input"}
  <2>1. CASE HeadSynced(left, "question")
    BY <1>2, <2>1, HeadSyncedType DEF Kinds
  <2>2. CASE UNCHANGED <<status, card, queue, protection>>
    BY <2>2 DEF TypeOK, ShownTyped
  <2> QED
    BY <2>1, <2>2 DEF QuestionResolved
<1> QED
  BY <1>1, <1>3 DEF QuestionResolved, TypeOK, ShownTyped, turns, answers, worker

LEMMA UserAnsweredTyped == ASSUME TypeOK, Replies, UserAnswered PROVE TypeOK'
<1> DEFINE id == Head(inbox).id
           kind == KindOf(id)
<1>1. inbox' \in Seq(Event) /\ Head(inbox) = inbox[1] /\ 1 \in DOMAIN inbox /\ inbox[1].by = "user"
      /\ inbox[1].type = "answered" /\ id \in Ids
  BY ReceiveType, EventTypes DEF UserAnswered
<1>2. answering \in Answer /\ answering.id = id
  BY <1>1 DEF Replies, Owns, TypeOK
<1>3. kind \in Kinds
  BY <1>1, KindFacts
<1>4. /\ ShownTyped' /\ PumpTyped'
      /\ status' \in {"idle", "running", "waiting", "failed"} /\ protection' \subseteq {"turn", "input"}
  <2>1. CASE UNCHANGED <<status, card, queue, protection, pump, spinning, outbox>>
    BY <2>1 DEF TypeOK, ShownTyped, PumpTyped
  <2>2. CASE /\ HeadOf(queue[kind]) = id /\ HeadSynced(Shifted(answering), kind)
             /\ PumpCalled(queue'[kind], mode) \/ UNCHANGED <<pump, spinning, outbox>>
    <3>1. /\ Shifted(answering) \in [Kinds -> Seq(Request)]
          /\ \A other \in Kinds : Len(Shifted(answering)[other]) <= MaxQueue
      BY <1>2, <2>2, ShiftedType
    <3>2. /\ ShownTyped'
          /\ status' \in {"idle", "running", "waiting", "failed"} /\ protection' \subseteq {"turn", "input"}
      BY <1>3, <2>2, <3>1, HeadSyncedType
    <3>3. queue'[kind] \in Seq(Request)
      BY <1>3, <3>2 DEF ShownTyped
    <3>4. PumpTyped'
      BY <2>2, <3>3, PumpCalledType DEF TypeOK, PumpTyped
    <3> QED
      BY <3>2, <3>4
  <2> QED
    BY <2>1, <2>2 DEF UserAnswered
<1> QED
  BY <1>1, <1>4 DEF UserAnswered, TypeOK, ShownTyped, PumpTyped, turns, worker

LEMMA PumpAnsweredTyped == ASSUME TypeOK, Replies, PumpAnswered PROVE TypeOK'
<1>1. inbox' \in Seq(Event) /\ Head(inbox) = inbox[1] /\ 1 \in DOMAIN inbox /\ inbox[1].by = "pump"
      /\ inbox[1].type = "answered"
  BY ReceiveType, EventTypes DEF PumpAnswered
<1>2. pump \in Answer /\ KindOf(pump.id) = "permission" /\ "permission" \in Kinds
  BY <1>1 DEF Replies, Owns, TypeOK, Kinds
<1>3. /\ ShownTyped' /\ PumpTyped' /\ mode' \in {"ask", "auto"}
      /\ status' \in {"idle", "running", "waiting", "failed"} /\ protection' \subseteq {"turn", "input"}
  <2>1. CASE status' = "waiting" /\ mode' = "ask" /\ pump' = None /\ UNCHANGED <<card, queue, protection, spinning, outbox>>
    BY <2>1 DEF TypeOK, ShownTyped, PumpTyped
  <2>2. CASE PumpAgain /\ UNCHANGED <<record, queue, protection>>
    BY <2>2, PumpAgainType DEF TypeOK, ShownTyped, record
  <2>3. CASE /\ HeadOf(queue["permission"]) = pump.id
             /\ HeadSynced(Shifted(pump), "permission")
             /\ PumpRuns(queue'["permission"], mode, outbox) /\ UNCHANGED mode
    <3>1. /\ Shifted(pump) \in [Kinds -> Seq(Request)]
          /\ \A other \in Kinds : Len(Shifted(pump)[other]) <= MaxQueue
      BY <1>2, <2>3, ShiftedType
    <3>2. /\ ShownTyped'
          /\ status' \in {"idle", "running", "waiting", "failed"} /\ protection' \subseteq {"turn", "input"}
      BY <1>2, <2>3, <3>1, HeadSyncedType
    <3>3. queue'["permission"] \in Seq(Request)
      BY <1>2, <3>2 DEF ShownTyped
    <3>4. PumpTyped'
      BY <2>3, <3>3, PumpRunsType DEF TypeOK
    <3> QED
      BY <2>3, <3>2, <3>4 DEF TypeOK
  <2> QED
    BY <2>1, <2>2, <2>3 DEF PumpAnswered
<1> QED
  BY <1>1, <1>3 DEF PumpAnswered, TypeOK, ShownTyped, PumpTyped, turns, worker

LEMMA StaleUserAnswerEndsTyped == ASSUME TypeOK, StaleUserAnswerEnds PROVE TypeOK'
BY DEF StaleUserAnswerEnds, TypeOK, record, queues, turns, managed, worker, channels

LEMMA StalePumpEndsTyped == ASSUME TypeOK, StalePumpEnds PROVE TypeOK'
BY PumpAgainType DEF StalePumpEnds, TypeOK, PumpTyped, record, queues, turns, managed, worker

LEMMA OpenedType == ASSUME TypeOK PROVE Opened \subseteq Ids
<1>1. \A kind \in Kinds : ToSet(open[kind]) \subseteq Ids
  BY LenProperties, ElementOfSeq DEF TypeOK, ToSet
<1> QED
  BY <1>1 DEF Opened, Kinds

LEMMA AgentLoadsTyped == ASSUME TypeOK, AgentLoads PROVE TypeOK'
BY DEF AgentLoads, TypeOK, record, queues, turns, answers, managed, channels

LEMMA StartFailsTyped == ASSUME TypeOK, StartFails PROVE TypeOK'
<1>1. open' \in [Kinds -> Seq(Ids)] /\ withdrawn' \subseteq Ids
  BY OpenedType, EmptySeq DEF StartFails, TypeOK, Empty
<1> QED
  BY <1>1 DEF StartFails, TypeOK, record, queues, turns, answers, managed, channels

LEMMA AgentEndsTyped == ASSUME TypeOK, AgentEnds PROVE TypeOK'
BY DEF AgentEnds, TypeOK, record, queues, turns, answers, managed, channels

LEMMA WorkerPromptsTyped == ASSUME TypeOK, WorkerPrompts PROVE TypeOK'
<1> DEFINE event == [type |-> "prompted", turn |-> Head(outbox).turn, ok |-> FALSE]
<1>1. outbox' \in Seq(Command) /\ Head(outbox).turn \in Turns
  BY CommandType, CommandTypes DEF WorkerPrompts
<1>2. event \in Event
  BY <1>1 DEF Event
<1>3. inbox' = Append(inbox, event) \/ inbox' = inbox
  BY DEF WorkerPrompts, Sent
<1> HIDE DEF event
<1>4. inbox' \in Seq(Event)
  <2>1. inbox \in Seq(Event)
    BY DEF TypeOK
  <2>2. Append(inbox, event) \in Seq(Event)
    BY <1>2, <2>1, AppendFacts
  <2> QED
    BY <1>3, <2>1, <2>2
<1> QED
  BY <1>1, <1>4 DEF WorkerPrompts, TypeOK, record, queues, turns, answers, managed

LEMMA WorkerCancelsTyped == ASSUME TypeOK, WorkerCancels PROVE TypeOK'
<1>1. outbox' \in Seq(Command)
  BY CommandType DEF WorkerCancels
<1>2. open' \in [Kinds -> Seq(Ids)] /\ withdrawn' \subseteq Ids /\ skipped' \subseteq Ids
  <2>1. Empty \in [Kinds -> Seq(Ids)] /\ Opened \subseteq Ids
    BY OpenedType, EmptySeq DEF Empty
  <2> QED
    BY <2>1 DEF WorkerCancels, TypeOK
<1> QED
  BY <1>1, <1>2 DEF WorkerCancels, TypeOK, record, queues, turns, answers, managed

LEMMA WorkerAnswersTyped == ASSUME TypeOK, WorkerAnswers PROVE TypeOK'
<1> DEFINE id == Head(outbox).id
           event(ok) == [type |-> "answered", id |-> id, by |-> Head(outbox).by, ok |-> ok]
<1>1. outbox' \in Seq(Command) /\ id \in Ids /\ Head(outbox).by \in {"user", "pump"}
  BY CommandType, CommandTypes DEF WorkerAnswers, Answers
<1>2. \A ok \in BOOLEAN : event(ok) \in Event
  BY <1>1 DEF Event
<1>3. inbox' = Append(inbox, event(TRUE)) \/ inbox' = Append(inbox, event(FALSE))
  BY DEF WorkerAnswers, Sent
<1> HIDE DEF event
<1>4. inbox' \in Seq(Event)
  <2>1. inbox \in Seq(Event)
    BY DEF TypeOK
  <2>2. \A ok \in BOOLEAN : Append(inbox, event(ok)) \in Seq(Event)
    BY <1>2, <2>1, AppendFacts
  <2> QED
    BY <1>3, <2>2
<1>5. open' \in [Kinds -> Seq(Ids)] /\ skipped' \subseteq Ids
  <2>1. Unopened(id) \in [Kinds -> Seq(Ids)]
    BY UnopenedType, <1>1
  <2>2. open' \in {Unopened(id), open} /\ skipped' \in {skipped \ {id}, skipped}
    BY DEF WorkerAnswers
  <2> QED
    BY <2>1, <2>2 DEF TypeOK
<1> QED
  BY <1>1, <1>4, <1>5 DEF WorkerAnswers, TypeOK, record, queues, turns, answers, managed

LEMMA AgentAsksTyped == ASSUME TypeOK, NEW id \in Ids, NEW options \in BOOLEAN, AgentAsks(id, options) PROVE TypeOK'
<1> DEFINE event == [type |-> "asked", id |-> id, options |-> options]
<1>1. event \in Event /\ inbox' = Append(inbox, event)
  BY DEF Event, AgentAsks, Sent
<1> HIDE DEF event
<1>2. inbox' \in Seq(Event)
  BY <1>1, AppendFacts DEF TypeOK
<1>3. KindOf(id) \in Kinds /\ open[KindOf(id)] \in Seq(Ids)
  BY KindFacts DEF TypeOK
<1>4. Append(open[KindOf(id)], id) \in Seq(Ids)
  BY <1>3, AppendFacts
<1>5. open' \in [Kinds -> Seq(Ids)]
  BY <1>3, <1>4 DEF AgentAsks, TypeOK
<1> QED
  BY <1>2, <1>5 DEF AgentAsks, TypeOK, record, queues, turns, answers, managed

LEMMA AgentResolvesTyped == ASSUME TypeOK, NEW id \in Questions, AgentResolves(id) PROVE TypeOK'
<1> DEFINE event == [type |-> "resolved", id |-> id]
<1>1. event \in Event /\ inbox' = Append(inbox, event) /\ id \in Ids
  BY DEF Event, AgentResolves, Sent, Ids
<1> HIDE DEF event
<1>2. inbox' \in Seq(Event)
  BY <1>1, AppendFacts DEF TypeOK
<1>3. open' \in [Kinds -> Seq(Ids)]
  BY UnopenedType, <1>1 DEF AgentResolves
<1> QED
  BY <1>1, <1>2, <1>3 DEF AgentResolves, TypeOK, record, queues, turns, answers, managed

LEMMA AgentFinishesTyped == ASSUME TypeOK, NEW t \in Turns, NEW ok \in BOOLEAN, AgentFinishes(t, ok) PROVE TypeOK'
<1> DEFINE event == [type |-> "prompted", turn |-> t, ok |-> ok]
<1>1. event \in Event /\ inbox' = Append(inbox, event)
  BY DEF Event, AgentFinishes, Sent
<1> HIDE DEF event
<1>2. inbox' \in Seq(Event)
  BY <1>1, AppendFacts DEF TypeOK
<1> QED
  BY <1>2 DEF AgentFinishes, TypeOK, record, queues, turns, answers, managed

-----------------------------------------------------------------------------
(***************************************************************************)
(* The invariant: what each part of it depends on.                         *)
(***************************************************************************)
\* What each part depends on.
LEMMA RepliesFrame == ASSUME Replies, UNCHANGED <<outbox, inbox, answering, pump, current>> PROVE Replies'
BY DEF Replies, Owns
LEMMA OfflineFrame ==
  ASSUME Offline, UNCHANGED <<current, issued, inbox, outbox, agent, open, working, protection>>
                              PROVE Offline'
BY DEF Offline
LEMMA FiledFrame == ASSUME Filed, UNCHANGED <<card, queue, current, protection, issued>> PROVE Filed'
BY DEF Filed, CardIsHead, InputProtected, HeadOf
LEMMA KnownFrame ==
  ASSUME Known, UNCHANGED <<seen, queue, open, inbox, answering, pump, asked>> PROVE Known'
BY DEF Known
LEMMA DistinctFrame == ASSUME Distinct, UNCHANGED <<open, queue, inbox>> PROVE Distinct'
BY DEF Distinct
LEMMA UnheardFrame ==
  ASSUME Unheard, UNCHANGED <<inbox, seen, queue, answering, pump, open, withdrawn>> PROVE Unheard'
BY DEF Unheard, InInbox, InQueue, ToSet
LEMMA ClosedFrame == ASSUME Closed, UNCHANGED <<inbox, open>> PROVE Closed'
BY DEF Closed, Accepted, InInbox, ToSet
LEMMA AtHeadFrame == ASSUME AtHead, UNCHANGED <<answering, pump, queue>> PROVE AtHead'
BY DEF AtHead, HeadFor, InQueue, HeadOf
LEMMA AcknowledgedFrame ==
  ASSUME Acknowledged, UNCHANGED <<queue, current, open, withdrawn, inbox>> PROVE Acknowledged'
BY DEF Acknowledged, Accepted, ToSet
LEMMA OpenIsQueuedFrame ==
  ASSUME OpenIsQueued, UNCHANGED <<open, queue, inbox, outbox, skipped>> PROVE OpenIsQueued'
BY DEF OpenIsQueued, InQueue, InInbox, InOutbox, ToSet

\* Main takes the first message of its channel.
LEMMA InboxTail ==
  ASSUME TypeOK, inbox # <<>>, inbox' = Tail(inbox)
  PROVE  /\ \A type, id : InInbox(type, id)' => InInbox(type, id)
         /\ \A type, id : InInbox(type, id) =>
              InInbox(type, id)' \/ (Head(inbox).type = type /\ Head(inbox).id = id)
         /\ \A id : Accepted(id) =>
              Accepted(id)' \/ (Head(inbox).type = "answered" /\ Head(inbox).id = id /\ Head(inbox).ok)
         /\ \A id : Accepted(id)' => Accepted(id)
         /\ \A i \in DOMAIN inbox' : i + 1 \in DOMAIN inbox /\ inbox'[i] = inbox[i + 1] /\ i + 1 # 1
                                     /\ i \in Nat
         /\ \A i \in DOMAIN inbox : i = 1 \/ (i - 1 \in DOMAIN inbox' /\ inbox'[i - 1] = inbox[i])
         /\ Head(inbox) = inbox[1] /\ 1 \in DOMAIN inbox
<1>1. inbox \in Seq(Event)
  BY DEF TypeOK
<1>2. /\ Head(inbox) = inbox[1] /\ DOMAIN inbox = 1 .. Len(inbox) /\ 1 \in DOMAIN inbox /\ Len(inbox) \in Nat
      /\ DOMAIN inbox' = 1 .. (Len(inbox) - 1)
      /\ \A i \in DOMAIN inbox' : i + 1 \in DOMAIN inbox /\ inbox'[i] = inbox[i + 1]
      /\ \A i \in DOMAIN inbox : i = 1 \/ (i - 1 \in DOMAIN inbox' /\ inbox'[i - 1] = inbox[i])
  BY <1>1, TailFacts
<1>3. \A i \in DOMAIN inbox' : i + 1 # 1 /\ i \in Nat
  BY <1>2
<1>4. \A type, id : InInbox(type, id)' => InInbox(type, id)
  BY <1>2 DEF InInbox
<1>5. \A type, id : InInbox(type, id) =>
        InInbox(type, id)' \/ (Head(inbox).type = type /\ Head(inbox).id = id)
  BY <1>2 DEF InInbox
<1>6. ASSUME NEW id, Accepted(id)
      PROVE  Accepted(id)' \/ (Head(inbox).type = "answered" /\ Head(inbox).id = id /\ Head(inbox).ok)
  <2>1. PICK i \in DOMAIN inbox : inbox[i].type = "answered" /\ inbox[i].id = id /\ inbox[i].ok
    BY <1>6 DEF Accepted
  <2>2. CASE i = 1
    BY <2>1, <2>2, <1>2, Zenon
  <2>3. CASE i - 1 \in DOMAIN inbox' /\ inbox'[i - 1] = inbox[i]
    BY <2>1, <2>3, Zenon DEF Accepted
  <2> QED
    BY <2>2, <2>3, <1>2
<1>7. \A id : Accepted(id)' => Accepted(id)
  BY <1>2 DEF Accepted
<1> QED
  BY <1>2, <1>3, <1>4, <1>5, <1>6, <1>7

LEMMA InboxAppend ==
  ASSUME TypeOK, NEW event \in Event, inbox' = Append(inbox, event)
  PROVE  /\ \A type, id : InInbox(type, id) => InInbox(type, id)'
         /\ \A type, id : InInbox(type, id)' => InInbox(type, id) \/ (event.type = type /\ event.id = id)
         /\ event.type # "prompted" => InInbox(event.type, event.id)'
         /\ \A id : Accepted(id) => Accepted(id)'
         /\ \A id : Accepted(id)' =>
              Accepted(id) \/ (event.type = "answered" /\ event.id = id /\ event.ok)
         /\ \A i \in DOMAIN inbox : i \in DOMAIN inbox' /\ inbox'[i] = inbox[i] /\ i # Len(inbox) + 1
         /\ \A i \in DOMAIN inbox' : (i \in DOMAIN inbox /\ inbox'[i] = inbox[i])
                                     \/ (i = Len(inbox) + 1 /\ inbox'[i] = event)
         /\ Len(inbox) + 1 \in DOMAIN inbox' /\ inbox'[Len(inbox) + 1] = event
<1>1. inbox \in Seq(Event)
  BY DEF TypeOK
<1>2. /\ Len(inbox) \in Nat /\ DOMAIN inbox = 1 .. Len(inbox)
      /\ DOMAIN inbox' = 1 .. (Len(inbox) + 1)
      /\ \A i \in DOMAIN inbox : i \in DOMAIN inbox' /\ inbox'[i] = inbox[i]
      /\ inbox'[Len(inbox) + 1] = event
      /\ \A i \in DOMAIN inbox' : i \in DOMAIN inbox \/ i = Len(inbox) + 1
  BY <1>1, AppendFacts
<1>3. Len(inbox) + 1 \in DOMAIN inbox' /\ \A i \in DOMAIN inbox : i # Len(inbox) + 1
  BY <1>2
<1>4. \A type, id : InInbox(type, id) => InInbox(type, id)'
  BY <1>2 DEF InInbox
<1>5. \A type, id : InInbox(type, id)' => InInbox(type, id) \/ (event.type = type /\ event.id = id)
  BY <1>2 DEF InInbox
<1>6. event.type # "prompted" => InInbox(event.type, event.id)'
  BY <1>2, <1>3 DEF InInbox
<1>7. \A id : Accepted(id) => Accepted(id)'
  BY <1>2 DEF Accepted
<1>8. ASSUME NEW id, Accepted(id)'
      PROVE  Accepted(id) \/ (event.type = "answered" /\ event.id = id /\ event.ok)
  BY <1>2, <1>8 DEF Accepted
<1> QED
  BY <1>2, <1>3, <1>4, <1>5, <1>6, <1>7, <1>8

\* Main sends a command, and the worker takes one.
LEMMA OutboxAppend ==
  ASSUME TypeOK, NEW c \in Command, outbox' = Append(outbox, c)
  PROVE  /\ \A type : InOutbox(type) => InOutbox(type)'
         /\ InOutbox(c.type)'
         /\ \A i \in DOMAIN outbox' : (i \in DOMAIN outbox /\ outbox'[i] = outbox[i])
                                      \/ (i = Len(outbox) + 1 /\ outbox'[i] = c)
<1>1. outbox \in Seq(Command)
  BY DEF TypeOK
<1>2. /\ Len(outbox) \in Nat /\ DOMAIN outbox = 1 .. Len(outbox)
      /\ DOMAIN outbox' = 1 .. (Len(outbox) + 1)
      /\ \A i \in DOMAIN outbox : i \in DOMAIN outbox' /\ outbox'[i] = outbox[i]
      /\ outbox'[Len(outbox) + 1] = c
      /\ \A i \in DOMAIN outbox' : i \in DOMAIN outbox \/ i = Len(outbox) + 1
  BY <1>1, AppendFacts
<1>3. Len(outbox) + 1 \in DOMAIN outbox'
  BY <1>2
<1>4. \A type : InOutbox(type) => InOutbox(type)'
  BY <1>2 DEF InOutbox
<1>5. InOutbox(c.type)'
  BY <1>2, <1>3 DEF InOutbox
<1> QED
  BY <1>2, <1>4, <1>5

LEMMA OutboxTail ==
  ASSUME TypeOK, outbox # <<>>, outbox' = Tail(outbox)
  PROVE  /\ \A type : InOutbox(type) => InOutbox(type)' \/ Head(outbox).type = type
         /\ \A i \in DOMAIN outbox' : i + 1 \in DOMAIN outbox /\ outbox'[i] = outbox[i + 1] /\ i + 1 # 1
                                      /\ i \in Nat
         /\ Head(outbox) = outbox[1] /\ 1 \in DOMAIN outbox
<1>1. outbox \in Seq(Command)
  BY DEF TypeOK
<1>2. /\ Head(outbox) = outbox[1] /\ DOMAIN outbox = 1 .. Len(outbox) /\ 1 \in DOMAIN outbox
      /\ Len(outbox) \in Nat /\ DOMAIN outbox' = 1 .. (Len(outbox) - 1)
      /\ \A i \in DOMAIN outbox' : i + 1 \in DOMAIN outbox /\ outbox'[i] = outbox[i + 1]
      /\ \A i \in DOMAIN outbox : i = 1 \/ (i - 1 \in DOMAIN outbox' /\ outbox'[i - 1] = outbox[i])
  BY <1>1, TailFacts
<1>3. \A i \in DOMAIN outbox' : i + 1 # 1 /\ i \in Nat
  BY <1>2
<1>4. \A type : InOutbox(type) => InOutbox(type)' \/ Head(outbox).type = type
  BY <1>2 DEF InOutbox
<1> QED
  BY <1>2, <1>3, <1>4

\* Replies, as the channels move.
LEMMA RepliesOutboxTail ==
  ASSUME TypeOK, Replies, outbox # <<>>, outbox' = Tail(outbox), UNCHANGED <<inbox, answering, pump, current>>
  PROVE  Replies'
<1>1. \A i \in DOMAIN outbox' : i + 1 \in DOMAIN outbox /\ outbox'[i] = outbox[i + 1] /\ i \in Nat
  BY OutboxTail
<1> QED
  BY <1>1 DEF Replies, Owns

LEMMA RepliesInboxTail ==
  ASSUME TypeOK, Replies, inbox # <<>>, inbox' = Tail(inbox), UNCHANGED <<outbox, answering, pump, current>>
  PROVE  Replies'
<1>1. \A i \in DOMAIN inbox' : i + 1 \in DOMAIN inbox /\ inbox'[i] = inbox[i + 1] /\ i \in Nat
  BY InboxTail
<1> QED
  BY <1>1 DEF Replies, Owns

LEMMA PumpRunsEffect ==
  ASSUME NEW q, NEW permissionMode, NEW sent, PumpRuns(q, permissionMode, sent)
  PROVE  \/ pump' = None /\ outbox' = sent
         \/ /\ current # 0 /\ q # <<>> /\ pump' = [id |-> Head(q).id, client |-> current, stale |-> FALSE]
            /\ outbox' = Append(sent, [type |-> "answer", id |-> Head(q).id, by |-> "pump"])
BY DEF PumpRuns

\* What the pump answers is the head of the permission queue.
LEMMA PumpAtHead ==
  ASSUME TypeOK', Filed', NEW permissionMode, NEW sent, PumpRuns(queue'["permission"], permissionMode, sent),
         pump' # None
  PROVE  /\ pump' \in Answer /\ ~pump'.stale /\ pump'.client = current /\ pump'.id \in Ids
         /\ KindOf(pump'.id) = "permission" /\ HeadOf(queue'["permission"]) = pump'.id
         /\ InQueue(pump.id)' /\ \E i \in DOMAIN queue'["permission"] : queue'["permission"][i].id = pump'.id
<1> DEFINE q == queue'["permission"]
<1>1. q \in Seq(Request) /\ pump' \in Answer /\ "permission" \in Kinds
  BY AnswerTypes DEF TypeOK, Kinds
<1>2. q # <<>> /\ pump' = [id |-> Head(q).id, client |-> current, stale |-> FALSE]
  BY PumpRunsEffect
<1>3. HeadOf(q) = q[1].id /\ 1 \in DOMAIN q /\ HeadOf(q) = Head(q).id
  BY <1>1, <1>2, HeadOfType
<1>4. ~pump'.stale /\ pump'.client = current /\ pump'.id = q[1].id /\ HeadOf(q) = pump'.id
  BY <1>2, <1>3
<1>5. q[1].id \in IdsOf("permission")
  BY <1>1, <1>3 DEF Filed
<1>6. KindOf(pump'.id) = "permission" /\ pump'.id \in Ids
  BY <1>1, <1>4, <1>5, KindFacts
<1>7. \E i \in DOMAIN q : q[i].id = pump'.id
  BY <1>3, <1>4
<1>8. InQueue(pump.id)'
  BY <1>6, <1>7 DEF InQueue
<1> QED
  BY <1>1, <1>4, <1>6, <1>7, <1>8

LEMMA RepliesPump ==
  ASSUME TypeOK, Replies, NEW q \in Seq(Request), NEW permissionMode, PumpRuns(q, permissionMode, outbox),
         \A i \in DOMAIN q : q[i].id \in Permissions,
         current' = current,
         \/ inbox' = inbox
         \/ inbox # <<>> /\ inbox' = Tail(inbox),
         \/ answering' = answering
         \/ /\ inbox # <<>> /\ Head(inbox).type = "answered" /\ Head(inbox).by = "user"
            /\ inbox' = Tail(inbox) /\ answering' = None,
         \/ pump = None
         \/ pump.client # current
         \/ /\ inbox # <<>> /\ Head(inbox).type = "answered" /\ Head(inbox).by = "pump"
            /\ inbox' = Tail(inbox)
  PROVE  Replies'
<1>1. \A i \in DOMAIN inbox' : \E j \in DOMAIN inbox : inbox'[i] = inbox[j] /\ (inbox' # inbox => j # 1)
  BY InboxTail
<1>2. ASSUME NEW i \in DOMAIN inbox', NEW k \in DOMAIN inbox', inbox'[i].type = "answered",
             inbox'[k].type = "answered", inbox'[i].by = inbox'[k].by
      PROVE  i = k
  <2>1. CASE inbox' = inbox
    BY <1>2, <2>1 DEF Replies
  <2>2. CASE inbox # <<>> /\ inbox' = Tail(inbox)
    <3>1. /\ i + 1 \in DOMAIN inbox /\ inbox'[i] = inbox[i + 1] /\ i \in Nat
          /\ k + 1 \in DOMAIN inbox /\ inbox'[k] = inbox[k + 1] /\ k \in Nat
      BY <2>2, InboxTail
    <3>2. i + 1 = k + 1
      BY <1>2, <3>1 DEF Replies
    <3> QED
      BY <3>1, <3>2
  <2> QED
    BY <2>1, <2>2
<1>3. \A i \in DOMAIN outbox : ~(outbox[i].type = "answer" /\ outbox[i].by = "pump")
  <2>1. CASE pump = None \/ pump.client # current
    BY <2>1 DEF Replies, Owns
  <2>2. CASE inbox # <<>> /\ Head(inbox).type = "answered" /\ Head(inbox).by = "pump"
    BY <2>2, TailFacts DEF Replies, Owns, TypeOK
  <2> QED
    BY <2>1, <2>2
<1>4. \A i \in DOMAIN inbox' : ~(inbox'[i].type = "answered" /\ inbox'[i].by = "pump")
  <2>1. CASE pump = None \/ pump.client # current
    BY <2>1, <1>1 DEF Replies, Owns
  <2>2. CASE inbox # <<>> /\ Head(inbox).type = "answered" /\ Head(inbox).by = "pump" /\ inbox' = Tail(inbox)
    <3>1. /\ \A i \in DOMAIN inbox' : i + 1 \in DOMAIN inbox /\ inbox'[i] = inbox[i + 1] /\ i + 1 # 1
          /\ Head(inbox) = inbox[1] /\ 1 \in DOMAIN inbox
      BY <2>2, InboxTail
    <3> QED
      BY <3>1, <2>2 DEF Replies, Owns
  <2> QED
    BY <2>1, <2>2
<1>5. answering' # answering =>
        /\ \A i \in DOMAIN outbox : ~(outbox[i].type = "answer" /\ outbox[i].by = "user")
        /\ \A i \in DOMAIN inbox' : ~(inbox'[i].type = "answered" /\ inbox'[i].by = "user")
  <2>1. CASE inbox # <<>> /\ Head(inbox).type = "answered" /\ Head(inbox).by = "user" /\ inbox' = Tail(inbox)
    <3>1. /\ \A i \in DOMAIN inbox' : i + 1 \in DOMAIN inbox /\ inbox'[i] = inbox[i + 1] /\ i + 1 # 1
          /\ Head(inbox) = inbox[1] /\ 1 \in DOMAIN inbox
      BY <2>1, InboxTail
    <3> QED
      BY <3>1, <2>1 DEF Replies, Owns
  <2> QED
    BY <2>1
<1>6. \A i \in DOMAIN inbox' : inbox'[i].type = "resolved" => KindOf(inbox'[i].id) = "question"
  BY <1>1 DEF Replies
<1>7. \A i \in DOMAIN inbox' : inbox'[i].type = "answered" =>
        /\ inbox'[i].by = "user" => Owns(answering', inbox'[i])
        /\ inbox'[i].by = "pump" => Owns(pump', inbox'[i])
  <2> SUFFICES ASSUME NEW i \in DOMAIN inbox', inbox'[i].type = "answered"
               PROVE  inbox'[i].by = "user" /\ Owns(answering', inbox'[i])
    OBVIOUS
  <2>1. PICK j \in DOMAIN inbox : inbox'[i] = inbox[j]
    BY <1>1
  <2>2. inbox[j] \in Event
    BY ElementOfSeq, LenProperties DEF TypeOK
  <2>3. inbox'[i].by = "user"
    BY <2>1, <2>2, <1>4, EventTypes DEF Answers
  <2>4. answering' = answering
    BY <2>3, <1>5
  <2> QED
    BY <2>1, <2>3, <2>4 DEF Replies, Owns
<1>8. \A i \in DOMAIN outbox, j \in DOMAIN inbox' :
        outbox[i].type = "answer" /\ inbox'[j].type = "answered" => outbox[i].by # inbox'[j].by
  BY <1>1 DEF Replies
<1>9. \A i \in DOMAIN outbox : outbox[i].type = "answer" =>
        /\ outbox[i].by = "user" => Owns(answering', outbox[i])
        /\ outbox[i].by = "pump" => Owns(pump', outbox[i])
  <2> SUFFICES ASSUME NEW i \in DOMAIN outbox, outbox[i].type = "answer"
               PROVE  outbox[i].by = "user" /\ Owns(answering', outbox[i])
    OBVIOUS
  <2>1. outbox[i] \in Command
    BY ElementOfSeq, LenProperties DEF TypeOK
  <2>2. outbox[i].by = "user"
    BY <2>1, <1>3, CommandTypes DEF Answers
  <2>3. answering' = answering
    BY <2>2, <1>5
  <2> QED
    BY <2>2, <2>3 DEF Replies, Owns
<1>10. CASE pump' = None /\ outbox' = outbox
  BY <1>2, <1>6, <1>7, <1>8, <1>9, <1>10 DEF Replies, Owns
<1>11. CASE /\ current # 0 /\ q # <<>> /\ pump' = [id |-> Head(q).id, client |-> current, stale |-> FALSE]
            /\ outbox' = Append(outbox, [type |-> "answer", id |-> Head(q).id, by |-> "pump"])
  <2> DEFINE c == [type |-> "answer", id |-> Head(q).id, by |-> "pump"]
  <2>1. Head(q) = q[1] /\ 1 \in DOMAIN q /\ Head(q) \in Request
    BY <1>11, TailFacts
  <2>2. Head(q).id \in Permissions /\ Head(q).id \in Ids
    BY <2>1 DEF Request
  <2>3. c \in Command /\ c.type = "answer" /\ c.by = "pump" /\ c.id = Head(q).id
    BY <2>2 DEF Command
  <2>4. outbox' = Append(outbox, c)
    BY <1>11
  <2>5. pump' # None /\ pump'.id = Head(q).id /\ pump'.client = current /\ KindOf(pump'.id) = "permission"
    <3>1. pump' \in Answer
      BY <1>11, <2>2, SizesAssumption DEF Answer, Clients, TypeOK
    <3> QED
      BY <3>1, <1>11, <2>2, AnswerTypes DEF KindOf
  <2> HIDE DEF c
  <2>6. \A i \in DOMAIN outbox' : (i \in DOMAIN outbox /\ outbox'[i] = outbox[i])
                                  \/ (i = Len(outbox) + 1 /\ outbox'[i] = c)
    BY <2>3, <2>4, OutboxAppend
  <2>7. \A i \in DOMAIN outbox' : outbox'[i].type = "answer" =>
          /\ outbox'[i].by = "user" => Owns(answering', outbox'[i])
          /\ outbox'[i].by = "pump" => Owns(pump', outbox'[i])
    BY <1>9, <2>3, <2>5, <2>6 DEF Owns
  <2>8. \A i, j \in DOMAIN outbox' :
          outbox'[i].type = "answer" /\ outbox'[j].type = "answer" /\ outbox'[i].by = outbox'[j].by => i = j
    BY <1>3, <2>3, <2>6 DEF Replies
  <2>9. \A i \in DOMAIN outbox', j \in DOMAIN inbox' :
          outbox'[i].type = "answer" /\ inbox'[j].type = "answered" => outbox'[i].by # inbox'[j].by
    BY <1>4, <1>8, <2>3, <2>6
  <2> QED
    BY <1>2, <1>6, <1>7, <2>5, <2>7, <2>8, <2>9 DEF Replies, Owns
<1> QED
  BY <1>10, <1>11, PumpRunsEffect

\* Nothing but the protection and the agent's state changes, and "input" stays.
LEMMA QuietStep ==
  ASSUME IInv, TypeOK',
         UNCHANGED <<card, queue, seen, answering, pump, current, issued, open, working, asked,
                     withdrawn, skipped, inbox, outbox>>,
         "input" \in protection => "input" \in protection',
         current = 0 => protection' = {} /\ agent' = "down"
  PROVE  IInv'
<1>1. Offline'
  BY DEF IInv, Offline
<1>2. Filed'
  BY DEF IInv, Filed, CardIsHead, InputProtected, HeadOf
<1> QED
  BY <1>1, <1>2, RepliesFrame, KnownFrame, DistinctFrame, UnheardFrame, ClosedFrame, AtHeadFrame,
     AcknowledgedFrame, OpenIsQueuedFrame DEF IInv

\* The queues of `kinds' are deleted, if any.
DeletesOrKeeps ==
  \E kinds \in SUBSET Kinds :
    /\ queue' = [kind \in Kinds |-> IF kind \in kinds THEN <<>> ELSE queue[kind]]
    /\ card' = [kind \in Kinds |-> IF kind \in kinds THEN None ELSE card[kind]]
    /\ answering' = Stale(answering, kinds) /\ pump' = Stale(pump, kinds)

LEMMA KeepsQueues ==
  ASSUME TypeOK, UNCHANGED <<queue, card, answering, pump>> PROVE DeletesOrKeeps
<1>1. {} \in SUBSET Kinds
  OBVIOUS
<1>2. /\ queue' = [kind \in Kinds |-> IF kind \in {} THEN <<>> ELSE queue[kind]]
      /\ card' = [kind \in Kinds |-> IF kind \in {} THEN None ELSE card[kind]]
  BY DEF TypeOK
<1>3. answering' = Stale(answering, {}) /\ pump' = Stale(pump, {})
  BY DEF Stale
<1> QED
  BY <1>1, <1>2, <1>3 DEF DeletesOrKeeps

LEMMA StaleFacts ==
  ASSUME NEW a \in Answer \union {None}, NEW kinds
  PROVE  /\ Stale(a, kinds) = None <=> a = None
         /\ a # None => Stale(a, kinds).id = a.id /\ Stale(a, kinds).client = a.client
         /\ a # None /\ KindOf(a.id) \notin kinds => Stale(a, kinds) = a
BY AnswerTypes DEF Stale

\* What deleting queues leaves true.
LEMMA DeletesFacts ==
  ASSUME IInv, DeletesOrKeeps
  PROVE  /\ CardIsHead'
         /\ \A kind \in Kinds : \A i \in DOMAIN queue'[kind] :
              i \in DOMAIN queue[kind] /\ queue'[kind][i] = queue[kind][i]
         /\ \A id \in Ids : InQueue(id)' => InQueue(id)
         /\ answering' # None => answering # None /\ answering'.id = answering.id
                                 /\ answering'.client = answering.client
         /\ pump' # None => pump # None /\ pump'.id = pump.id /\ pump'.client = pump.client
         /\ answering # None => answering' # None /\ answering'.id = answering.id
                                /\ answering'.client = answering.client
         /\ pump # None => pump' # None /\ pump'.id = pump.id /\ pump'.client = pump.client
         /\ AtHead'
<1>1. PICK kinds \in SUBSET Kinds :
        /\ queue' = [kind \in Kinds |-> IF kind \in kinds THEN <<>> ELSE queue[kind]]
        /\ card' = [kind \in Kinds |-> IF kind \in kinds THEN None ELSE card[kind]]
        /\ answering' = Stale(answering, kinds) /\ pump' = Stale(pump, kinds)
  BY DEF DeletesOrKeeps
<1>2. \A kind \in Kinds : queue'[kind] = IF kind \in kinds THEN <<>> ELSE queue[kind]
  BY <1>1
<1>3. CardIsHead'
  BY <1>1, <1>2 DEF IInv, Filed, CardIsHead, HeadOf
<1>4. \A kind \in Kinds : \A i \in DOMAIN queue'[kind] :
        i \in DOMAIN queue[kind] /\ queue'[kind][i] = queue[kind][i]
  BY <1>2
<1>5. \A id \in Ids : InQueue(id)' => InQueue(id) /\ KindOf(id) \notin kinds
  BY <1>2, KindFacts DEF InQueue
<1>6. answering \in Answer \union {None} /\ pump \in Answer \union {None}
  BY DEF IInv, TypeOK
<1>7. ASSUME NEW a \in Answer \union {None}, HeadFor(a), a # None, a.id \in Once, InQueue(a.id)'
      PROVE  Stale(a, kinds) = a /\ ~a.stale /\ HeadOf(queue'[KindOf(a.id)]) = a.id
  <2>1. a.id \in Ids
    BY <1>7 DEF Once
  <2>2. InQueue(a.id) /\ KindOf(a.id) \notin kinds /\ KindOf(a.id) \in Kinds
    BY <2>1, <1>5, <1>7, KindFacts
  <2>3. queue'[KindOf(a.id)] = queue[KindOf(a.id)]
    BY <2>2, <1>2
  <2> QED
    BY <1>7, <2>2, <2>3, StaleFacts DEF HeadFor
<1>8. HeadFor(answering)'
  <2> SUFFICES ASSUME answering' # None, answering'.id \in Once, InQueue(answering.id)'
               PROVE  ~answering'.stale /\ HeadOf(queue'[KindOf(answering'.id)]) = answering'.id
    BY DEF HeadFor
  <2>1. answering # None /\ answering.id = answering'.id
    BY <1>1, <1>6, StaleFacts
  <2> QED
    BY <2>1, <1>1, <1>6, <1>7 DEF IInv, AtHead, InQueue
<1>9. HeadFor(pump)'
  <2> SUFFICES ASSUME pump' # None, pump'.id \in Once, InQueue(pump.id)'
               PROVE  ~pump'.stale /\ HeadOf(queue'[KindOf(pump'.id)]) = pump'.id
    BY DEF HeadFor
  <2>1. pump # None /\ pump.id = pump'.id
    BY <1>1, <1>6, StaleFacts
  <2> QED
    BY <2>1, <1>1, <1>6, <1>7 DEF IInv, AtHead, InQueue
<1> QED
  BY <1>1, <1>3, <1>4, <1>5, <1>6, <1>8, <1>9, StaleFacts DEF AtHead

-----------------------------------------------------------------------------
(***************************************************************************)
(* Calls of the user and of other parts of main.                           *)
(***************************************************************************)
LEMMA EmptyFacts ==
  /\ Len(<<>>) = 0 /\ DOMAIN <<>> = {}
  /\ \A kind \in Kinds : Empty[kind] = <<>>
  /\ ToSet(<<>>) = {}
<1>1. DOMAIN <<>> = 1 .. Len(<<>>) /\ Len(<<>>) = 0
  BY EmptySeq, LenProperties
<1>2. DOMAIN <<>> = {}
  BY <1>1
<1> QED
  BY <1>1, <1>2 DEF Empty, ToSet

\* The client is taken out.
LEMMA DetachStep ==
  ASSUME IInv, TypeOK', DeletesOrKeeps, Detached, seen' \subseteq seen
  PROVE  IInv'
<1>1. /\ outbox' = <<>> /\ inbox' = <<>> /\ open' = Empty /\ current' = 0 /\ protection' = {}
      /\ issued' = issued /\ asked' = asked /\ agent' = "down" /\ working' = {}
      /\ withdrawn' = withdrawn
  BY DEF Detached
<1>2. DOMAIN outbox' = {} /\ DOMAIN inbox' = {} /\ \A kind \in Kinds : open'[kind] = <<>> /\ DOMAIN open'[kind] = {}
  BY <1>1, EmptyFacts
<1>3. Offline'
  BY <1>1 DEF Offline
<1>4. Replies'
  <2>1. pump' # None => KindOf(pump'.id) = "permission"
    BY DeletesFacts DEF IInv, Replies
  <2> QED
    BY <1>2, <2>1 DEF Replies
<1>5. \A kind \in Kinds : \A i \in DOMAIN queue'[kind] :
        queue'[kind][i] \in Request /\ i \in DOMAIN queue[kind] /\ queue'[kind][i] = queue[kind][i]
  BY DeletesFacts, ElementOfSeq, LenProperties DEF TypeOK
<1>6. \A kind \in Kinds : \A i \in DOMAIN queue'[kind] : queue'[kind][i].client # 0
  BY <1>5 DEF Request, Clients
<1>7. Filed'
  BY <1>1, <1>5, <1>6, DeletesFacts DEF IInv, Filed, InputProtected
<1>8. Known'
  BY <1>1, <1>2, <1>5, DeletesFacts DEF IInv, Known
<1>9. Distinct'
  BY <1>2, <1>5 DEF IInv, Distinct
<1>10. Unheard' /\ Closed'
  BY <1>2 DEF Unheard, Closed, Accepted, InInbox
<1>11. Acknowledged'
  BY <1>1, <1>6 DEF Acknowledged
<1>12. OpenIsQueued'
  <2>1. \A id \in Ids : ToSet(open'[KindOf(id)]) = {}
    BY <1>2, KindFacts DEF ToSet
  <2> QED
    BY <2>1 DEF OpenIsQueued
<1> QED
  BY <1>3, <1>4, <1>7, <1>8, <1>9, <1>10, <1>11, <1>12, DeletesFacts DEF IInv

\* A client is created.
LEMMA CreateStep ==
  ASSUME IInv, TypeOK', DeletesOrKeeps, current = 0, NEW reasons, Created(reasons), seen' \subseteq seen
  PROVE  IInv'
<1>1. issued' = issued + 1 /\ current' = issued + 1 /\ issued \in Nat
  BY DEF Created, IInv, TypeOK
<1>2. UNCHANGED <<open, working, asked, withdrawn, skipped, outbox, inbox>>
  BY DEF Created, channels
<1>3. /\ outbox' = <<>> /\ inbox' = <<>> /\ open' = Empty
      /\ DOMAIN outbox' = {} /\ DOMAIN inbox' = {} /\ \A kind \in Kinds : open'[kind] = <<>> /\ DOMAIN open'[kind] = {}
  BY <1>2, EmptyFacts DEF IInv, Offline
<1>4. Offline'
  BY <1>1 DEF Offline
<1>5. Replies'
  <2>1. pump' # None => KindOf(pump'.id) = "permission"
    BY DeletesFacts DEF IInv, Replies
  <2> QED
    BY <1>3, <2>1 DEF Replies
<1>6. \A kind \in Kinds : \A i \in DOMAIN queue'[kind] :
        queue'[kind][i] \in Request /\ i \in DOMAIN queue[kind] /\ queue'[kind][i] = queue[kind][i]
  BY DeletesFacts, ElementOfSeq, LenProperties DEF TypeOK
<1>7. \A kind \in Kinds : \A i \in DOMAIN queue'[kind] :
        queue'[kind][i].client \in Nat /\ queue'[kind][i].client <= issued
  BY <1>6, SizesAssumption DEF Request, Clients, IInv, Filed
<1>8. \A kind \in Kinds : \A i \in DOMAIN queue'[kind] :
        queue'[kind][i].client # current' /\ queue'[kind][i].client <= issued'
  BY <1>1, <1>7
<1>9. Filed'
  BY <1>6, <1>8, DeletesFacts DEF IInv, Filed, InputProtected
<1>10. Known'
  BY <1>2, <1>3, <1>6, DeletesFacts DEF IInv, Known
<1>11. Distinct'
  BY <1>3, <1>6 DEF IInv, Distinct
<1>12. Unheard' /\ Closed'
  BY <1>3 DEF Unheard, Closed, Accepted, InInbox
<1>13. Acknowledged'
  BY <1>8 DEF Acknowledged
<1>14. OpenIsQueued'
  <2>1. \A id \in Ids : ToSet(open'[KindOf(id)]) = {}
    BY <1>3, KindFacts DEF ToSet
  <2> QED
    BY <2>1 DEF OpenIsQueued
<1> QED
  BY <1>4, <1>5, <1>9, <1>10, <1>11, <1>12, <1>13, <1>14, DeletesFacts DEF IInv

LEMMA DeletedIsDelete == ASSUME NEW kinds \in SUBSET Kinds, Deleted(kinds) PROVE DeletesOrKeeps
BY DEF Deleted, DeletesOrKeeps

\* Calls of the user and of other parts of main.
LEMMA PromptKeeps == ASSUME IInv, Prompt PROVE IInv'
<1>1. TypeOK'
  BY PromptTyped DEF IInv
<1>2. CASE current = 0 /\ Deleted(Kinds) /\ seen' = {} /\ Created({"turn"})
  BY <1>1, <1>2, DeletedIsDelete, CreateStep
<1>3. CASE /\ current # 0 /\ protection' = protection \union {"turn"} /\ Restarted
           /\ UNCHANGED <<queue, card, seen, answering, pump, current, issued, channels>>
  BY <1>1, <1>3, QuietStep DEF Restarted, channels
<1> QED
  BY <1>2, <1>3 DEF Prompt

LEMMA ConnectionFailsKeeps == ASSUME IInv, ConnectionFails PROVE IInv'
<1>1. TypeOK'
  BY ConnectionFailsTyped DEF IInv
<1>2. UNCHANGED <<card, queue, seen, answering, pump, current, issued, agent, open, working,
                  asked, withdrawn, skipped,
                  inbox, outbox>>
  BY DEF ConnectionFails, queues, answers, worker, channels
<1>3. protection' = Without("turn")
  BY DEF ConnectionFails, PromptsFail
<1>4. /\ "input" \in protection => "input" \in protection'
      /\ current = 0 => protection' = {} /\ agent' = "down"
  BY <1>2, <1>3 DEF Without, IInv, Offline
<1> QED
  BY <1>1, <1>2, <1>4, QuietStep

LEMMA StalePromptEndsKeeps == ASSUME IInv, NEW t \in Turns, StalePromptEnds(t) PROVE IInv'
<1>1. TypeOK'
  BY StalePromptEndsTyped DEF IInv
<1>2. UNCHANGED <<card, queue, seen, answering, pump, current, issued, agent, open, working,
                  asked, withdrawn, skipped,
                  inbox, outbox, protection>>
  BY DEF StalePromptEnds, record, queues, answers, managed, worker, channels
<1> QED
  BY <1>1, <1>2, QuietStep DEF IInv, Offline

LEMMA UserAnswersOfflineKeeps == ASSUME IInv, NEW kind \in Kinds, UserAnswersOffline(kind) PROVE IInv'
<1>1. TypeOK'
  BY UserAnswersOfflineTyped DEF IInv
<1>2. DeletesOrKeeps
  BY DeletedIsDelete DEF UserAnswersOffline
<1>3. current = 0 /\ Created({}) /\ seen' \subseteq seen
  BY DEF UserAnswersOffline
<1> QED
  BY <1>1, <1>2, <1>3, CreateStep

LEMMA ReconnectKeeps == ASSUME IInv, Reconnect PROVE IInv'
<1>1. TypeOK'
  BY ReconnectTyped DEF IInv
<1>2. DeletesOrKeeps
  BY KeepsQueues DEF Reconnect, IInv, record, queues, answers
<1>3. current = 0 /\ Created({}) /\ seen' \subseteq seen
  BY DEF Reconnect, queues
<1> QED
  BY <1>1, <1>2, <1>3, CreateStep

LEMMA DetachKeeps ==
  ASSUME IInv, ChangeEffort \/ SetGrokCliPath \/ Evict \/ ClientExits PROVE IInv'
<1>1. TypeOK'
  BY ChangeEffortTyped, SetGrokCliPathTyped, EvictTyped, ClientExitsTyped DEF IInv
<1>2. Detached
  BY DEF ChangeEffort, SetGrokCliPath, Evict, ClientExits
<1>3. DeletesOrKeeps /\ seen' \subseteq seen
  <2>1. CASE Deleted(Kinds) /\ seen' = {}
    BY <2>1, DeletedIsDelete
  <2>2. CASE UNCHANGED <<record, queues, answers>>
    BY <2>2, KeepsQueues DEF IInv, record, queues, answers
  <2> QED
    BY <2>1, <2>2 DEF ChangeEffort, SetGrokCliPath, Evict, ClientExits
<1> QED
  BY <1>1, <1>2, <1>3, DetachStep

\* A prompt that awaits its connection has a client.
Prompted == \A t \in Turns : turn[t].stage = "connecting" => turn[t].client # 0

LEMMA PromptedStep == ASSUME TypeOK, Prompted, [Next]_vars PROVE Prompted'
<1> DEFINE Stages == [stage : {"none", "connecting", "sent", "over"}, client : 0..MaxClients]
<1>1. turn \in [Turns -> Stages] /\ issued \in Nat
  BY DEF TypeOK
<1>2. CASE Prompt
  <2>1. current' # 0
    BY <1>1, <1>2 DEF Prompt, Created
  <2>2. turn' = [turn EXCEPT ![lifecycle + 1] = [stage |-> "connecting", client |-> current']]
    BY <1>2 DEF Prompt
  <2> QED
    BY <1>1, <2>1, <2>2 DEF Prompted
<1>3. CASE \E t \in Turns : PromptSent(t) \/ StalePromptEnds(t)
  BY <1>1, <1>3 DEF Prompted, PromptSent, StalePromptEnds
<1>4. CASE ConnectionFails
  BY <1>1, <1>4 DEF Prompted, ConnectionFails, PromptsFail
<1>5. CASE PromptEnds
  <2>1. CASE turn' = [turn EXCEPT ![Head(inbox).turn].stage = "over"]
    BY <1>1, <2>1 DEF Prompted
  <2>2. CASE PromptsFail({Head(inbox).turn})
    BY <1>1, <2>2 DEF Prompted, PromptsFail
  <2> QED
    BY <1>5, <2>1, <2>2 DEF PromptEnds
<1>6. CASE UNCHANGED turn
  BY <1>6 DEF Prompted
<1>7. CancelTurn \/ ChangeEffort \/ Reconnect \/ SetGrokCliPath \/ Evict \/ ClientExits => UNCHANGED turn
  BY DEF CancelTurn, ChangeEffort, Reconnect, SetGrokCliPath, Evict, ClientExits, turns
<1>8. \A kind \in Kinds : UserAnswers(kind) \/ UserAnswersOffline(kind) => UNCHANGED turn
  BY DEF UserAnswers, UserAnswersOffline, turns
<1>9. \A permissionMode : SetMode(permissionMode) => UNCHANGED turn
  BY DEF SetMode, turns
<1>10. PermissionAsked \/ QuestionAsked \/ QuestionResolved \/ UserAnswered \/ PumpAnswered
         \/ StaleUserAnswerEnds \/ StalePumpEnds => UNCHANGED turn
  BY DEF PermissionAsked, QuestionAsked, QuestionResolved, UserAnswered, PumpAnswered,
         StaleUserAnswerEnds, StalePumpEnds, turns
<1>11. WorkerHandles \/ AgentLoads \/ StartFails \/ AgentEnds => UNCHANGED turn
  BY DEF WorkerHandles, WorkerPrompts, WorkerCancels, WorkerAnswers, AgentLoads, StartFails, AgentEnds,
         turns
<1>12. \A id, options : AgentAsks(id, options) \/ AgentResolves(id) \/ AgentFinishes(id, options) => UNCHANGED turn
  BY DEF AgentAsks, AgentResolves, AgentFinishes, turns
<1>13. UNCHANGED vars => UNCHANGED turn
  BY DEF vars, turns
<1> QED
  BY <1>2, <1>3, <1>4, <1>5, <1>6, <1>7, <1>8, <1>9, <1>10, <1>11, <1>12, <1>13 DEF Next, MainHandles

\* A command that is no answer is sent: the replies stay as they are.
LEMMA RepliesOutboxAppend ==
  ASSUME TypeOK, Replies, NEW c \in Command, c.type # "answer", outbox' = Append(outbox, c),
         UNCHANGED <<inbox, answering, pump, current>>
  PROVE  Replies'
<1>1. \A i \in DOMAIN outbox' : (i \in DOMAIN outbox /\ outbox'[i] = outbox[i])
                                \/ (i = Len(outbox) + 1 /\ outbox'[i] = c)
  BY OutboxAppend
<1> QED
  BY <1>1 DEF Replies, Owns

LEMMA PromptSentKeeps == ASSUME IInv, Prompted, NEW t \in Turns, PromptSent(t) PROVE IInv'
<1> DEFINE c == [type |-> "prompt", turn |-> t]
<1>1. TypeOK' /\ TypeOK
  BY PromptSentTyped DEF IInv
<1>2. c \in Command /\ c.type = "prompt" /\ outbox' = Append(outbox, c)
  BY DEF Command, PromptSent
<1> HIDE DEF c
<1>3. UNCHANGED <<card, queue, seen, answering, pump, current, issued, agent, open, working,
                  asked, withdrawn, skipped,
                  inbox, protection>>
  BY DEF PromptSent, record, queues, answers, managed, worker
<1>4. current # 0
  BY DEF PromptSent, Running, Prompted
<1>5. Replies'
  BY <1>1, <1>2, <1>3, RepliesOutboxAppend DEF IInv
<1>6. Offline'
  BY <1>3, <1>4 DEF IInv, Offline
<1>7. OpenIsQueued'
  <2>1. \A type : InOutbox(type) => InOutbox(type)'
    BY <1>1, <1>2, OutboxAppend
  <2> QED
    BY <2>1, <1>3 DEF IInv, OpenIsQueued, InQueue, InInbox
<1> QED
  BY <1>1, <1>3, <1>5, <1>6, <1>7, FiledFrame, KnownFrame, DistinctFrame, UnheardFrame, ClosedFrame,
     AtHeadFrame, AcknowledgedFrame DEF IInv

LEMMA CancelTurnKeeps == ASSUME IInv, CancelTurn PROVE IInv'
<1> DEFINE c == [type |-> "cancel"]
<1>1. TypeOK' /\ TypeOK
  BY CancelTurnTyped DEF IInv
<1>2. c \in Command /\ c.type = "cancel"
  BY DEF Command
<1>3. outbox' = IF current = 0 THEN outbox ELSE Append(outbox, c)
  BY DEF CancelTurn
<1> HIDE DEF c
<1>4. DeletesOrKeeps /\ Deleted(Kinds)
  BY DeletedIsDelete DEF CancelTurn
<1>5. /\ UNCHANGED <<current, issued, agent, open, working, asked, withdrawn, skipped, inbox>>
      /\ seen' = {} /\ protection' = {}
  BY DEF CancelTurn, worker
<1>6. \A kind \in Kinds : queue'[kind] = <<>> /\ DOMAIN queue'[kind] = {}
  BY <1>4, EmptyFacts DEF Deleted
<1>7. \A i \in DOMAIN outbox' : (i \in DOMAIN outbox /\ outbox'[i] = outbox[i]) \/ outbox'[i] = c
  BY <1>1, <1>2, <1>3, OutboxAppend
<1>8. Replies'
  <2>1. \A i \in DOMAIN outbox' : outbox'[i].type = "answer" => i \in DOMAIN outbox /\ outbox'[i] = outbox[i]
    BY <1>2, <1>7
  <2>2. \A i \in DOMAIN outbox' : outbox'[i].type = "answer" =>
          /\ outbox'[i].by = "user" => Owns(answering, outbox'[i])
          /\ outbox'[i].by = "pump" => Owns(pump, outbox'[i])
    BY <2>1 DEF IInv, Replies
  <2>3. \A i \in DOMAIN outbox' : outbox'[i].type = "answer" =>
          /\ outbox'[i].by = "user" => Owns(answering, outbox[i])'
          /\ outbox'[i].by = "pump" => Owns(pump, outbox[i])'
    BY <1>4, <1>5, <2>2, DeletesFacts DEF Owns
  <2>4. \A i \in DOMAIN inbox' : inbox'[i].type = "answered" =>
          /\ inbox'[i].by = "user" => Owns(answering, inbox[i])'
          /\ inbox'[i].by = "pump" => Owns(pump, inbox[i])'
    BY <1>4, <1>5, DeletesFacts DEF Owns, IInv, Replies
  <2>5. pump' # None => KindOf(pump'.id) = "permission"
    BY <1>4, DeletesFacts DEF IInv, Replies
  <2> QED
    BY <1>5, <2>1, <2>3, <2>4, <2>5 DEF IInv, Replies
<1>9. Offline'
  BY <1>3, <1>5 DEF IInv, Offline
<1>10. Filed'
  BY <1>4, <1>6, DeletesFacts DEF Filed, InputProtected
<1>11. Known'
  BY <1>4, <1>5, <1>6, DeletesFacts DEF IInv, Known
<1>12. Distinct'
  BY <1>5, <1>6 DEF IInv, Distinct
<1>13. Unheard'
  <2> SUFFICES ASSUME NEW id \in Once, InInbox("asked", id)'
               PROVE  /\ id \notin seen' /\ ~InQueue(id)' /\ (answering' # None => answering'.id # id)
                      /\ (pump' # None => pump'.id # id)
                      /\ id \in ToSet(open'[KindOf(id)]) \union withdrawn'
    BY DEF Unheard
  <2>1. InInbox("asked", id) /\ id \in Ids
    BY <1>5 DEF InInbox, Once
  <2>2. ~InQueue(id)'
    BY <2>1, <1>6, KindFacts DEF InQueue
  <2>3. /\ answering # None => answering.id # id
        /\ pump # None => pump.id # id
        /\ id \in ToSet(open[KindOf(id)]) \union withdrawn
    BY <2>1 DEF IInv, Unheard
  <2> QED
    BY <2>2, <2>3, <1>4, <1>5, DeletesFacts
<1>14. Closed'
  BY <1>5, ClosedFrame DEF IInv
<1>15. Acknowledged'
  BY <1>6 DEF Acknowledged
<1>16. OpenIsQueued'
  <2>1. CASE current = 0
    <3>1. \A id \in Ids : ToSet(open'[KindOf(id)]) = {}
      BY <1>5, <2>1, EmptyFacts, KindFacts DEF IInv, Offline
    <3> QED
      BY <3>1 DEF OpenIsQueued
  <2>2. CASE current # 0
    <3>1. InOutbox("cancel")'
      BY <1>1, <1>2, <1>3, <2>2, OutboxAppend
    <3> QED
      BY <3>1 DEF OpenIsQueued
  <2> QED
    BY <2>1, <2>2
<1> QED
  BY <1>1, <1>4, <1>8, <1>9, <1>10, <1>11, <1>12, <1>13, <1>14, <1>15, <1>16, DeletesFacts DEF IInv

LEMMA UserAnswersKeeps == ASSUME IInv, NEW kind \in Kinds, UserAnswers(kind) PROVE IInv'
<1> DEFINE c == [type |-> "answer", id |-> card[kind], by |-> "user"]
<1>1. TypeOK' /\ TypeOK
  BY UserAnswersTyped DEF IInv
<1>2. card[kind] \in Ids /\ answering = None /\ current # 0 /\ card[kind] = HeadOf(queue[kind])
  BY DEF UserAnswers, IInv, TypeOK
<1>3. c \in Command /\ c.type = "answer" /\ c.by = "user" /\ c.id = card[kind] /\ outbox' = Append(outbox, c)
  BY <1>2 DEF Command, UserAnswers
<1> HIDE DEF c
<1>4. UNCHANGED <<card, queue, seen, pump, current, issued, agent, open, working, asked,
                  withdrawn, skipped, inbox, protection>>
  BY DEF UserAnswers, record, queues, managed, worker
<1>5. /\ answering' # None /\ answering'.id = card[kind] /\ answering'.client = current /\ ~answering'.stale
  <2>1. answering' = [id |-> card[kind], client |-> current, stale |-> FALSE]
    BY DEF UserAnswers
  <2>2. answering' \in Answer
    BY <1>2, <2>1, SizesAssumption DEF Answer, Clients, IInv, TypeOK
  <2> QED
    BY <2>1, <2>2, AnswerTypes
<1>6. \A i \in DOMAIN outbox' : (i \in DOMAIN outbox /\ outbox'[i] = outbox[i])
                                \/ (i = Len(outbox) + 1 /\ outbox'[i] = c)
  BY <1>1, <1>3, OutboxAppend
<1>7. /\ \A i \in DOMAIN outbox : ~(outbox[i].type = "answer" /\ outbox[i].by = "user")
      /\ \A i \in DOMAIN inbox : ~(inbox[i].type = "answered" /\ inbox[i].by = "user")
  BY <1>2 DEF IInv, Replies, Owns
<1>8. /\ queue[kind] \in Seq(Request) /\ 1 \in DOMAIN queue[kind] /\ queue[kind][1].id = card[kind]
  BY <1>2, HeadOfType, KindFacts DEF IInv, TypeOK
<1>9. KindOf(card[kind]) = kind /\ InQueue(card[kind]) /\ card[kind] \in asked
  <2>1. card[kind] \in IdsOf(kind) /\ card[kind] \in asked
    BY <1>8 DEF IInv, Filed, Known
  <2> QED
    BY <1>8, <2>1, KindFacts DEF InQueue
<1>10. Replies'
  <2>1. \A i \in DOMAIN outbox' : outbox'[i].type = "answer" =>
          /\ outbox'[i].by = "user" => Owns(answering, outbox[i])'
          /\ outbox'[i].by = "pump" => Owns(pump, outbox[i])'
    BY <1>3, <1>4, <1>5, <1>6, <1>7 DEF IInv, Replies, Owns
  <2>2. \A i, j \in DOMAIN outbox' :
       outbox'[i].type = "answer" /\ outbox'[j].type = "answer" /\ outbox'[i].by = outbox'[j].by => i = j
    BY <1>3, <1>6, <1>7 DEF IInv, Replies
  <2>3. \A i \in DOMAIN outbox', j \in DOMAIN inbox :
       outbox'[i].type = "answer" /\ inbox[j].type = "answered" => outbox'[i].by # inbox[j].by
    BY <1>3, <1>6, <1>7 DEF IInv, Replies
  <2> QED
    BY <1>4, <1>7, <2>1, <2>2, <2>3 DEF IInv, Replies, Owns
<1>11. Offline'
  BY <1>2, <1>4 DEF IInv, Offline
<1>12. Known'
  BY <1>4, <1>5, <1>9 DEF IInv, Known
<1>13. Unheard'
  <2> SUFFICES ASSUME NEW id \in Once, InInbox("asked", id)
               PROVE  /\ id \notin seen /\ ~InQueue(id) /\ answering'.id # id
                      /\ (pump # None => pump.id # id)
                      /\ id \in ToSet(open[KindOf(id)]) \union withdrawn
    BY <1>4 DEF Unheard, InInbox, InQueue, ToSet
  <2> QED
    BY <1>5, <1>9 DEF IInv, Unheard
<1>14. AtHead'
  <2>1. HeadFor(answering)'
    BY <1>2, <1>4, <1>5, <1>9 DEF HeadFor
  <2>2. HeadFor(pump)'
    BY <1>4 DEF IInv, AtHead, HeadFor, InQueue
  <2> QED
    BY <2>1, <2>2 DEF AtHead
<1>15. OpenIsQueued'
  <2>1. \A type : InOutbox(type) => InOutbox(type)'
    BY <1>1, <1>3, OutboxAppend
  <2> QED
    BY <2>1, <1>4 DEF IInv, OpenIsQueued, InQueue, InInbox
<1> QED
  BY <1>1, <1>4, <1>10, <1>11, <1>12, <1>13, <1>14, <1>15, FiledFrame, DistinctFrame, ClosedFrame,
     AcknowledgedFrame DEF IInv

-----------------------------------------------------------------------------
(***************************************************************************)
(* Answers that end, and what the worker takes.                            *)
(***************************************************************************)
LEMMA PermissionIds == ASSUME TypeOK, Filed PROVE
  queue["permission"] \in Seq(Request) /\ \A i \in DOMAIN queue["permission"] : queue["permission"][i].id \in Permissions
BY DEF TypeOK, Filed, Kinds, IdsOf

LEMMA PumpOutbox ==
  ASSUME TypeOK, NEW q \in Seq(Request), NEW permissionMode, PumpRuns(q, permissionMode, outbox)
  PROVE  /\ \A type : InOutbox(type) => InOutbox(type)'
         /\ current = 0 => outbox' = outbox
<1>1. CASE pump' = None /\ outbox' = outbox
  BY <1>1 DEF InOutbox
<1>2. CASE /\ current # 0 /\ q # <<>>
           /\ outbox' = Append(outbox, [type |-> "answer", id |-> Head(q).id, by |-> "pump"])
  <2>1. [type |-> "answer", id |-> Head(q).id, by |-> "pump"] \in Command
    BY <1>2, HeadOfType DEF Command, Request
  <2> QED
    BY <1>2, <2>1, OutboxAppend
<1> QED
  BY <1>1, <1>2, PumpRunsEffect

\* A run of the pump on the queue as it is, when no answer of it is under way.
LEMMA PumpStep ==
  ASSUME IInv, TypeOK', NEW permissionMode, PumpRuns(queue["permission"], permissionMode, outbox),
         pump = None \/ pump.client # current,
         UNCHANGED <<card, queue, seen, answering, current, issued, agent, open, working, asked,
                     withdrawn, skipped, inbox,
                     protection>>
  PROVE  IInv'
<1>1. TypeOK /\ Filed /\ queue["permission"] \in Seq(Request)
      /\ \A i \in DOMAIN queue["permission"] : queue["permission"][i].id \in Permissions
  BY PermissionIds DEF IInv
<1>2. Filed'
  BY FiledFrame DEF IInv
<1>3. Replies'
  BY <1>1, RepliesPump DEF IInv
<1>4. Offline'
  BY <1>1, PumpOutbox DEF IInv, Offline
<1>5. pump' # None =>
        /\ pump' \in Answer /\ ~pump'.stale /\ pump'.client = current /\ pump'.id \in Ids
        /\ KindOf(pump'.id) = "permission" /\ HeadOf(queue'["permission"]) = pump'.id
        /\ InQueue(pump.id)' /\ \E i \in DOMAIN queue'["permission"] : queue'["permission"][i].id = pump'.id
  BY <1>2, PumpAtHead
<1>6. Known'
  <2>1. pump' # None => pump'.id \in asked
    BY <1>5 DEF IInv, Known, Kinds
  <2> QED
    BY <2>1 DEF IInv, Known
<1>7. Unheard'
  <2> SUFFICES ASSUME NEW id \in Once, InInbox("asked", id)
               PROVE  /\ id \notin seen /\ ~InQueue(id) /\ (answering # None => answering.id # id)
                      /\ (pump' # None => pump'.id # id)
                      /\ id \in ToSet(open[KindOf(id)]) \union withdrawn
    BY DEF Unheard, InInbox, InQueue, ToSet
  <2>1. InQueue(pump.id)' => \E i \in DOMAIN queue[KindOf(pump'.id)] : queue[KindOf(pump'.id)][i].id = pump'.id
    BY DEF InQueue
  <2>2. pump' # None => pump'.id # id
    BY <1>5, <2>1 DEF IInv, Unheard, InQueue
  <2> QED
    BY <2>2 DEF IInv, Unheard
<1>8. AtHead'
  <2>1. HeadFor(pump)'
    BY <1>5 DEF HeadFor
  <2>2. HeadFor(answering)'
    BY DEF IInv, AtHead, HeadFor, InQueue
  <2> QED
    BY <2>1, <2>2 DEF AtHead
<1>9. OpenIsQueued'
  <2>1. \A type : InOutbox(type) => InOutbox(type)'
    BY <1>1, PumpOutbox
  <2> QED
    BY <2>1 DEF IInv, OpenIsQueued, InQueue, InInbox
<1> QED
  BY <1>2, <1>3, <1>4, <1>6, <1>7, <1>8, <1>9, DistinctFrame, ClosedFrame, AcknowledgedFrame DEF IInv

LEMMA SetModeKeeps == ASSUME IInv, NEW permissionMode \in {"ask", "auto"}, SetMode(permissionMode) PROVE IInv'
<1>1. TypeOK'
  BY SetModeTyped DEF IInv
<1>2. UNCHANGED <<card, queue, seen, answering, current, issued, agent, open, working, asked,
                  withdrawn, skipped, inbox, protection>>
  BY DEF SetMode, queues, managed, worker
<1>3. CASE pump = None /\ PumpRuns(queue["permission"], permissionMode, outbox)
  BY <1>1, <1>2, <1>3, PumpStep
<1>4. CASE UNCHANGED <<pump, outbox>>
  BY <1>1, <1>2, <1>4, QuietStep DEF IInv, Offline
<1> QED
  BY <1>3, <1>4 DEF SetMode, PumpCalled

LEMMA StalePumpEndsKeeps == ASSUME IInv, StalePumpEnds PROVE IInv'
<1>1. TypeOK'
  BY StalePumpEndsTyped DEF IInv
<1>2. UNCHANGED <<card, queue, seen, answering, current, issued, agent, open, working, asked,
                  withdrawn, skipped, inbox, protection>>
  BY DEF StalePumpEnds, record, queues, managed, worker
<1> QED
  BY <1>1, <1>2, PumpStep DEF StalePumpEnds, PumpAgain

LEMMA StaleUserAnswerEndsKeeps == ASSUME IInv, StaleUserAnswerEnds PROVE IInv'
<1>1. TypeOK'
  BY StaleUserAnswerEndsTyped DEF IInv
<1>2. /\ UNCHANGED <<card, queue, seen, pump, current, issued, agent, open, working, asked,
                     withdrawn, skipped, inbox, outbox, protection>>
      /\ answering' = None /\ answering.client # current
  BY DEF StaleUserAnswerEnds, record, queues, managed, worker, channels
<1>3. Replies'
  BY <1>2 DEF IInv, Replies, Owns
<1>4. Known'
  BY <1>2 DEF IInv, Known
<1>5. Unheard'
  BY <1>2 DEF IInv, Unheard, InInbox, InQueue, ToSet
<1>6. AtHead'
  BY <1>2 DEF IInv, AtHead, HeadFor, InQueue
<1> QED
  BY <1>1, <1>2, <1>3, <1>4, <1>5, <1>6, OfflineFrame, FiledFrame, DistinctFrame, ClosedFrame,
     AcknowledgedFrame, OpenIsQueuedFrame DEF IInv

\* Main takes a message: what still holds, whatever it was.
LEMMA ReceivedFacts ==
  ASSUME IInv, inbox # <<>>, inbox' = Tail(inbox)
  PROVE  /\ \A i, j \in DOMAIN inbox' : inbox'[i].type = "asked" /\ inbox'[j].type = "asked"
              /\ inbox'[i].id = inbox'[j].id /\ inbox'[i].id \in Once => i = j
         /\ \A i \in DOMAIN inbox' : inbox'[i].type # "prompted" => inbox'[i].id \in asked
         /\ \A id \in Once : Head(inbox).type = "asked" /\ Head(inbox).id = id => ~InInbox("asked", id)'
         /\ current # 0
<1>1. /\ \A i \in DOMAIN inbox' : i + 1 \in DOMAIN inbox /\ inbox'[i] = inbox[i + 1] /\ i + 1 # 1 /\ i \in Nat
      /\ Head(inbox) = inbox[1] /\ 1 \in DOMAIN inbox
  BY InboxTail DEF IInv
<1>2. \A i, j \in DOMAIN inbox' : inbox'[i].type = "asked" /\ inbox'[j].type = "asked"
              /\ inbox'[i].id = inbox'[j].id /\ inbox'[i].id \in Once => i = j
  BY <1>1 DEF IInv, Distinct
<1>3. \A i \in DOMAIN inbox' : inbox'[i].type # "prompted" => inbox'[i].id \in asked
  BY <1>1 DEF IInv, Known
<1>4. \A id \in Once : Head(inbox).type = "asked" /\ Head(inbox).id = id => ~InInbox("asked", id)'
  BY <1>1 DEF IInv, Distinct, InInbox
<1> QED
  BY <1>2, <1>3, <1>4 DEF IInv, Offline

LEMMA PromptEndsKeeps == ASSUME IInv, PromptEnds PROVE IInv'
<1>1. TypeOK'
  BY PromptEndsTyped DEF IInv
<1>2. inbox # <<>> /\ inbox' = Tail(inbox) /\ Head(inbox).type = "prompted"
  BY DEF PromptEnds, Receives
<1>3. /\ UNCHANGED <<card, queue, seen, answering, pump, current, issued, agent, open, working,
                     asked, withdrawn, skipped, outbox>>
      /\ protection' = Without("turn")
  BY DEF PromptEnds, PromptsFail, queues, answers, worker
<1>4. Replies'
  BY <1>2, <1>3, RepliesInboxTail DEF IInv
<1>5. Offline'
  BY <1>2, <1>3, ReceivedFacts DEF IInv, Offline
<1>6. Filed'
  BY <1>3 DEF IInv, Filed, CardIsHead, HeadOf, InputProtected, Without
<1>7. Known' /\ Distinct'
  BY <1>2, <1>3, ReceivedFacts DEF IInv, Known, Distinct
<1>8. /\ \A type, id : InInbox(type, id)' => InInbox(type, id)
      /\ \A type, id : type # "prompted" /\ InInbox(type, id) => InInbox(type, id)'
      /\ \A id : Accepted(id) <=> Accepted(id)'
  BY <1>2, InboxTail DEF IInv
<1>9. Unheard'
  BY <1>3, <1>8 DEF IInv, Unheard, InQueue, ToSet
<1>10. Closed'
  BY <1>3, <1>8 DEF IInv, Closed, ToSet
<1>11. Acknowledged'
  BY <1>3, <1>8 DEF IInv, Acknowledged, ToSet
<1>12. OpenIsQueued'
  BY <1>3, <1>8 DEF IInv, OpenIsQueued, InQueue, InOutbox, ToSet
<1> QED
  BY <1>1, <1>3, <1>4, <1>5, <1>6, <1>7, <1>9, <1>10, <1>11, <1>12, AtHeadFrame DEF IInv

LEMMA AgentLoadsKeeps == ASSUME IInv, AgentLoads PROVE IInv'
<1>1. TypeOK'
  BY AgentLoadsTyped DEF IInv
<1>2. current # 0
  BY DEF AgentLoads, IInv, Offline
<1> QED
  BY <1>1, <1>2, QuietStep DEF AgentLoads, record, queues, answers, managed, channels

LEMMA AgentEndsKeeps == ASSUME IInv, AgentEnds PROVE IInv'
<1>1. TypeOK'
  BY AgentEndsTyped DEF IInv
<1>2. current # 0
  BY DEF AgentEnds, IInv, Offline
<1> QED
  BY <1>1, <1>2, QuietStep DEF AgentEnds, record, queues, answers, managed, channels

LEMMA WorkerPromptsKeeps == ASSUME IInv, WorkerPrompts PROVE IInv'
<1> DEFINE event == [type |-> "prompted", turn |-> Head(outbox).turn, ok |-> FALSE]
<1>1. TypeOK' /\ TypeOK
  BY WorkerPromptsTyped DEF IInv
<1>2. /\ UNCHANGED <<card, queue, seen, answering, pump, current, issued, agent, open, asked,
                     withdrawn, skipped, protection>>
      /\ outbox # <<>> /\ outbox' = Tail(outbox) /\ Head(outbox).type = "prompt"
      /\ inbox' = inbox \/ inbox' = Append(inbox, event)
  BY DEF WorkerPrompts, Sent, record, queues, answers, managed
<1>3. event \in Event /\ event.type = "prompted"
  BY <1>1, <1>2, CommandType, CommandTypes DEF Event
<1> HIDE DEF event
<1>4. /\ \A type, x : InInbox(type, x) => InInbox(type, x)'
      /\ \A type, x : InInbox(type, x)' /\ type # "prompted" => InInbox(type, x)
      /\ \A x : Accepted(x) <=> Accepted(x)'
      /\ \A i \in DOMAIN inbox' : (i \in DOMAIN inbox /\ inbox'[i] = inbox[i])
                                  \/ inbox'[i].type = "prompted"
  <2>1. CASE inbox' = inbox
    BY <2>1 DEF InInbox, Accepted
  <2>2. CASE inbox' = Append(inbox, event)
    BY <1>1, <1>3, <2>2, InboxAppend
  <2> QED
    BY <1>2, <2>1, <2>2
<1>5. /\ \A i \in DOMAIN outbox' : i + 1 \in DOMAIN outbox /\ outbox'[i] = outbox[i + 1] /\ i \in Nat
      /\ InOutbox("cancel") => InOutbox("cancel")'
  BY <1>1, <1>2, OutboxTail
<1>6. Replies'
  BY <1>2, <1>4, <1>5 DEF IInv, Replies, Owns
<1>7. Offline'
  BY <1>2, EmptySeq DEF IInv, Offline
<1>8. Known' /\ Distinct'
  BY <1>2, <1>4 DEF IInv, Known, Distinct
<1>9. Unheard'
  BY <1>2, <1>4 DEF IInv, Unheard, InQueue, ToSet
<1>10. Closed'
  BY <1>2, <1>4 DEF IInv, Closed, ToSet
<1>11. Acknowledged'
  BY <1>2, <1>4 DEF IInv, Acknowledged, ToSet
<1>12. OpenIsQueued'
  BY <1>2, <1>4, <1>5 DEF IInv, OpenIsQueued, InQueue, ToSet
<1> QED
  BY <1>1, <1>2, <1>6, <1>7, <1>8, <1>9, <1>10, <1>11, <1>12, FiledFrame, AtHeadFrame DEF IInv

\* The worker's tables are cleared.
LEMMA ClearStep ==
  ASSUME IInv, TypeOK',
         UNCHANGED <<card, queue, seen, answering, pump, current, issued, working, asked, inbox,
                     protection>>,
         outbox' = outbox \/ (outbox # <<>> /\ outbox' = Tail(outbox)),
         open' = Empty, withdrawn' = withdrawn \union Opened, current # 0
  PROVE  IInv'
<1>1. TypeOK
  BY DEF IInv
<1>2. Replies'
  BY RepliesFrame, RepliesOutboxTail DEF IInv
<1>3. Offline'
  BY DEF IInv, Offline
<1>4. /\ \A kind \in Kinds : open'[kind] = <<>> /\ DOMAIN open'[kind] = {} /\ ToSet(open'[kind]) = {}
      /\ \A kind \in Kinds : ToSet(open[kind]) \subseteq withdrawn'
      /\ withdrawn \subseteq withdrawn'
  BY EmptyFacts DEF Kinds, Opened
<1>5. Known'
  BY <1>4 DEF IInv, Known
<1>6. Distinct'
  BY <1>4 DEF IInv, Distinct
<1>7. Unheard'
  <2> SUFFICES ASSUME NEW id \in Once, InInbox("asked", id)
               PROVE  /\ id \notin seen /\ ~InQueue(id) /\ (answering # None => answering.id # id)
                      /\ (pump # None => pump.id # id) /\ id \in withdrawn'
    BY DEF Unheard, InInbox, InQueue
  <2>1. KindOf(id) \in Kinds
    BY KindFacts DEF Once
  <2> QED
    BY <2>1, <1>4 DEF IInv, Unheard
<1>8. Closed'
  BY <1>4, KindFacts DEF Closed, Once
<1>9. Acknowledged'
  BY <1>4 DEF IInv, Acknowledged, Accepted
<1>10. OpenIsQueued'
  BY <1>4, KindFacts DEF OpenIsQueued
<1> QED
  BY <1>2, <1>3, <1>5, <1>6, <1>7, <1>8, <1>9, <1>10, FiledFrame, AtHeadFrame DEF IInv

LEMMA StartFailsKeeps == ASSUME IInv, StartFails PROVE IInv'
<1>1. TypeOK'
  BY StartFailsTyped DEF IInv
<1>2. current # 0
  BY DEF StartFails, IInv, Offline
<1> QED
  BY <1>1, <1>2, ClearStep DEF StartFails, record, queues, answers, managed, channels

LEMMA WorkerCancelsKeeps == ASSUME IInv, WorkerCancels PROVE IInv'
<1>1. TypeOK' /\ TypeOK
  BY WorkerCancelsTyped DEF IInv
<1>2. /\ UNCHANGED <<card, queue, seen, answering, pump, current, issued, agent, working, asked, inbox,
                     protection>>
      /\ outbox # <<>> /\ outbox' = Tail(outbox)
  BY DEF WorkerCancels, record, queues, answers, managed
<1>3. current # 0
  BY <1>2 DEF IInv, Offline
<1>4. CASE open' = Empty /\ withdrawn' = withdrawn \union Opened
  BY <1>1, <1>2, <1>3, <1>4, ClearStep
<1>5. CASE skipped' = skipped \union Opened /\ UNCHANGED <<open, withdrawn>>
  <2>1. Replies'
    BY <1>1, <1>2, RepliesOutboxTail DEF IInv
  <2>2. Offline'
    BY <1>2, <1>3 DEF IInv, Offline
  <2>3. OpenIsQueued'
    <3>1. \A id \in Ids : id \in ToSet(open'[KindOf(id)]) => id \in skipped'
      BY <1>5, KindFacts DEF Opened, Kinds
    <3> QED
      BY <3>1 DEF OpenIsQueued
  <2> QED
    BY <1>1, <1>2, <1>5, <2>1, <2>2, <2>3, FiledFrame, KnownFrame, DistinctFrame, UnheardFrame,
       ClosedFrame, AtHeadFrame, AcknowledgedFrame DEF IInv
<1> QED
  BY <1>4, <1>5 DEF WorkerCancels

-----------------------------------------------------------------------------
(***************************************************************************)
(* What the worker and its agent send.                                     *)
(***************************************************************************)
\* The worker forgets an open request.
LEMMA UnopenedFacts ==
  ASSUME IInv, NEW id \in Ids, open' = Unopened(id)
  PROVE  /\ \A kind \in Kinds : ToSet(open'[kind]) \subseteq ToSet(open[kind])
         /\ \A kind \in Kinds : \A other \in ToSet(open[kind]) : other # id => other \in ToSet(open'[kind])
         /\ id \notin ToSet(open'[KindOf(id)])
         /\ \A kind \in Kinds : \A i, j \in DOMAIN open'[kind] : open'[kind][i] = open'[kind][j] => i = j
         /\ \A kind \in Kinds : \A i \in DOMAIN open'[kind] : open'[kind][i] \in asked
<1> DEFINE s == open[KindOf(id)]
           t == RemoveFirst(s, id)
           gone == {i \in DOMAIN s : s[i] = id}
<1>1. KindOf(id) \in Kinds /\ s \in Seq(Ids) /\ open \in [Kinds -> Seq(Ids)]
  BY KindFacts DEF IInv, TypeOK
<1>2. t \in Seq(Ids) /\ Shrunk(s, t, gone) /\ gone \in SUBSET (DOMAIN s)
  BY UnopenedType DEF IInv
<1>3. open' = [open EXCEPT ![KindOf(id)] = t]
  BY UnopenedType DEF IInv
<1>4. \A i, j \in DOMAIN s : s[i] = s[j] => i = j
  BY <1>1 DEF IInv, Distinct
<1>5. \A n, m \in gone : n = m
  BY <1>4
<1> HIDE DEF t, gone
<1>6. /\ \A i, k \in DOMAIN t : \E j, l \in DOMAIN s : t[i] = s[j] /\ t[k] = s[l] /\ (j = l => i = k)
      /\ \A j \in DOMAIN s \ gone : \E i \in DOMAIN t : t[i] = s[j]
      /\ \A i \in DOMAIN t : \E j \in DOMAIN s \ gone : t[i] = s[j]
  <2> HIDE DEF s
  <2>1. s \in Seq(Ids) /\ t \in Seq(Ids) /\ gone \in SUBSET (DOMAIN s) /\ Shrunk(s, t, gone)
    BY <1>1, <1>2
  <2>2. \A i, k \in DOMAIN t : \E j, l \in DOMAIN s : t[i] = s[j] /\ t[k] = s[l] /\ (j = l => i = k)
    BY <2>1, ShrunkFacts
  <2>3. \A j \in DOMAIN s \ gone : \E i \in DOMAIN t : t[i] = s[j]
    BY <2>1, ShrunkFacts
  <2>4. (\A n, m \in gone : n = m) => \A i \in DOMAIN t : \E j \in DOMAIN s \ gone : t[i] = s[j]
    BY <2>1, ShrunkFacts
  <2> QED
    BY <2>2, <2>3, <2>4, <1>5
<1>7. \A i \in DOMAIN t : t[i] # id /\ \E j \in DOMAIN s : t[i] = s[j]
  BY <1>6 DEF gone
<1>8. \A kind \in Kinds : ToSet(open'[kind]) \subseteq ToSet(open[kind])
  BY <1>1, <1>3, <1>7 DEF ToSet
<1>9. \A kind \in Kinds : \A other \in ToSet(open[kind]) : other # id => other \in ToSet(open'[kind])
  BY <1>1, <1>3, <1>6 DEF ToSet, gone
<1>10. id \notin ToSet(open'[KindOf(id)])
  BY <1>1, <1>3, <1>7 DEF ToSet
<1>11. \A i, j \in DOMAIN t : t[i] = t[j] => i = j
  BY <1>4, <1>6
<1>12. \A kind \in Kinds : \A i, j \in DOMAIN open'[kind] : open'[kind][i] = open'[kind][j] => i = j
  BY <1>1, <1>3, <1>11 DEF IInv, Distinct
<1>13. \A kind \in Kinds : \A i \in DOMAIN open'[kind] : open'[kind][i] \in asked
  BY <1>1, <1>3, <1>7 DEF IInv, Known
<1> QED
  BY <1>8, <1>9, <1>10, <1>12, <1>13

LEMMA WorkerAnswersKeeps == ASSUME IInv, WorkerAnswers PROVE IInv'
<1> DEFINE c == Head(outbox)
           id == c.id
           reply(ok) == [type |-> "answered", id |-> id, by |-> c.by, ok |-> ok]
<1>1. TypeOK' /\ TypeOK
  BY WorkerAnswersTyped DEF IInv
<1>2. /\ UNCHANGED <<card, queue, seen, answering, pump, current, issued, agent, working, asked,
                     withdrawn, protection>>
      /\ outbox # <<>> /\ outbox' = Tail(outbox) /\ c.type = "answer"
  BY DEF WorkerAnswers, record, queues, answers, managed
<1>3. c = outbox[1] /\ 1 \in DOMAIN outbox /\ id \in Ids /\ c.by \in Answers /\ c \in Command
  BY <1>1, <1>2, CommandType, CommandTypes
<1> PICK ok \in BOOLEAN :
        /\ inbox' = Append(inbox, reply(ok))
        /\ ok => id \in ToSet(open[KindOf(id)]) /\ open' = Unopened(id) /\ skipped' = skipped \ {id}
        /\ ~ok => UNCHANGED <<open, skipped>>
  <2>1. CASE /\ id \in ToSet(open[KindOf(id)]) /\ open' = Unopened(id) /\ skipped' = skipped \ {id}
             /\ inbox' = Append(inbox, reply(TRUE))
    BY <2>1
  <2>2. CASE UNCHANGED <<open, skipped>> /\ inbox' = Append(inbox, reply(FALSE))
    BY <2>2
  <2> QED
    BY <2>1, <2>2 DEF WorkerAnswers, Sent
<1> DEFINE event == reply(ok)
<1>4. event \in Event /\ event.type = "answered" /\ event.id = id /\ event.by = c.by /\ event.ok = ok
      /\ inbox' = Append(inbox, event)
  BY <1>3 DEF Event, Answers
<1> HIDE DEF event
<1>5. /\ \A type, x : InInbox(type, x) => InInbox(type, x)'
      /\ \A type, x : InInbox(type, x)' => InInbox(type, x) \/ (event.type = type /\ event.id = x)
      /\ \A x : Accepted(x) => Accepted(x)'
      /\ \A x : Accepted(x)' => Accepted(x) \/ (x = id /\ ok)
      /\ \A i \in DOMAIN inbox' : (i \in DOMAIN inbox /\ inbox'[i] = inbox[i])
                                  \/ (i = Len(inbox) + 1 /\ inbox'[i] = event)
      /\ Len(inbox) + 1 \in DOMAIN inbox' /\ inbox'[Len(inbox) + 1] = event
  BY <1>1, <1>2, <1>4, InboxAppend
<1>6. \A i \in DOMAIN outbox' : i + 1 \in DOMAIN outbox /\ outbox'[i] = outbox[i + 1] /\ i + 1 # 1 /\ i \in Nat
  BY <1>1, <1>2, OutboxTail
<1>7. KindOf(id) \in Kinds /\ id \in asked
      /\ (c.by = "user" => Owns(answering, c)) /\ (c.by = "pump" => Owns(pump, c))
  BY <1>2, <1>3, KindFacts DEF IInv, Replies, Known, Answers, Owns
<1>8. /\ \A kind \in Kinds : ToSet(open'[kind]) \subseteq ToSet(open[kind])
      /\ \A kind \in Kinds : \A other \in ToSet(open[kind]) : other # id => other \in ToSet(open'[kind])
      /\ ok => id \notin ToSet(open'[KindOf(id)])
      /\ id \in ToSet(open'[KindOf(id)]) => skipped \subseteq skipped'
      /\ \A kind \in Kinds : \A i, j \in DOMAIN open'[kind] : open'[kind][i] = open'[kind][j] => i = j
      /\ \A kind \in Kinds : \A i \in DOMAIN open'[kind] : open'[kind][i] \in asked
  <2>1. CASE ok
    BY <1>3, <2>1, UnopenedFacts
  <2>2. CASE ~ok
    BY <2>2 DEF IInv, Distinct, Known
  <2> QED
    BY <2>1, <2>2
<1>9. Replies'
  <2>1. \A i \in DOMAIN outbox' : outbox'[i].type = "answer" =>
          /\ outbox'[i].by # c.by
          /\ outbox'[i].by = "user" => Owns(answering, outbox'[i])
          /\ outbox'[i].by = "pump" => Owns(pump, outbox'[i])
    BY <1>2, <1>3, <1>6 DEF IInv, Replies
  <2>2. \A i, j \in DOMAIN outbox' :
          outbox'[i].type = "answer" /\ outbox'[j].type = "answer" /\ outbox'[i].by = outbox'[j].by => i = j
    <3>1. \A i, j \in DOMAIN outbox' :
          outbox'[i].type = "answer" /\ outbox'[j].type = "answer" /\ outbox'[i].by = outbox'[j].by => i + 1 = j + 1
      BY <1>6 DEF IInv, Replies
    <3> QED
      BY <1>6, <3>1
  <2>3. \A j \in DOMAIN inbox : inbox[j].type = "answered" => inbox[j].by # c.by
    BY <1>2, <1>3 DEF IInv, Replies
  <2>4. \A i \in DOMAIN inbox' : inbox'[i].type = "answered" =>
          /\ inbox'[i].by = "user" => Owns(answering, inbox'[i])
          /\ inbox'[i].by = "pump" => Owns(pump, inbox'[i])
    BY <1>4, <1>5, <1>7 DEF IInv, Replies, Owns
  <2>5. \A i, j \in DOMAIN inbox' :
          inbox'[i].type = "answered" /\ inbox'[j].type = "answered" /\ inbox'[i].by = inbox'[j].by => i = j
    BY <1>4, <1>5, <2>3 DEF IInv, Replies
  <2>6. \A i \in DOMAIN outbox', j \in DOMAIN inbox' :
          outbox'[i].type = "answer" /\ inbox'[j].type = "answered" => outbox'[i].by # inbox'[j].by
    BY <1>4, <1>5, <1>6, <2>1 DEF IInv, Replies
  <2>7. \A i \in DOMAIN inbox' : inbox'[i].type = "resolved" => KindOf(inbox'[i].id) = "question"
    BY <1>4, <1>5 DEF IInv, Replies
  <2> QED
    BY <1>2, <2>1, <2>2, <2>4, <2>5, <2>6, <2>7 DEF IInv, Replies, Owns
<1>10. Offline'
  BY <1>2 DEF IInv, Offline
<1>11. Known'
  BY <1>2, <1>4, <1>5, <1>7, <1>8 DEF IInv, Known
<1>12. Distinct'
  BY <1>2, <1>4, <1>5, <1>8 DEF IInv, Distinct
<1>13. Unheard'
  <2> SUFFICES ASSUME NEW x \in Once, InInbox("asked", x)'
               PROVE  /\ x \notin seen /\ ~InQueue(x) /\ (answering # None => answering.id # x)
                      /\ (pump # None => pump.id # x)
                      /\ x \in ToSet(open'[KindOf(x)]) \union withdrawn
    BY <1>2 DEF Unheard, InQueue
  <2>1. InInbox("asked", x) /\ KindOf(x) \in Kinds
    BY <1>4, <1>5, KindFacts DEF Once
  <2>2. /\ x \notin seen /\ ~InQueue(x) /\ (answering # None => answering.id # x)
        /\ (pump # None => pump.id # x) /\ x \in ToSet(open[KindOf(x)]) \union withdrawn
    BY <2>1 DEF IInv, Unheard
  <2>3. x # id
    BY <2>2, <1>3, <1>7 DEF Owns, Answers
  <2> QED
    BY <2>1, <2>2, <2>3, <1>8
<1>14. Closed'
  <2> SUFFICES ASSUME NEW x \in Once, Accepted(x)' \/ InInbox("resolved", x)'
               PROVE  x \notin ToSet(open'[KindOf(x)])
    BY DEF Closed
  <2>1. KindOf(x) \in Kinds
    BY KindFacts DEF Once
  <2>2. CASE x = id /\ ok
    BY <2>2, <1>8
  <2>3. CASE ~(x = id /\ ok)
    BY <2>1, <2>3, <1>4, <1>5, <1>8 DEF IInv, Closed
  <2> QED
    BY <2>2, <2>3
<1>15. Acknowledged'
  <2> SUFFICES ASSUME NEW kind \in Kinds, NEW i \in DOMAIN queue[kind], queue[kind][i].client = current,
                      queue[kind][i].id \notin ToSet(open'[kind]) \union withdrawn \union Reasked
               PROVE  Accepted(queue[kind][i].id)'
    BY <1>2 DEF Acknowledged, Accepted
  <2> PICK x : x = queue[kind][i].id
    OBVIOUS
  <2> SUFFICES Accepted(x)'
    BY <1>2 DEF Accepted
  <2>1. x \in IdsOf(kind) /\ KindOf(x) = kind
    BY KindFacts DEF IInv, Filed
  <2>2. CASE x \in ToSet(open[kind])
    <3>1. x = id
      BY <2>2, <1>8
    <3>2. ok
      BY <3>1, <2>1, <2>2
    <3> QED
      BY <3>1, <3>2, <1>4, <1>5, Zenon DEF Accepted
  <2>3. CASE x \notin ToSet(open[kind])
    <3>1. Accepted(x)
      BY <2>3 DEF IInv, Acknowledged
    <3> QED
      BY <3>1, <1>5
  <2> QED
    BY <2>2, <2>3
<1>16. OpenIsQueued'
  <2> SUFFICES ASSUME NEW x \in Ids \ (Reasked \union skipped'), x \in ToSet(open'[KindOf(x)])
               PROVE  InQueue(x) \/ InInbox("asked", x)' \/ InOutbox("cancel")'
    BY <1>2 DEF OpenIsQueued, InQueue
  <2>1. x \in ToSet(open[KindOf(x)])
    BY <1>8, KindFacts
  <2>2. InOutbox("cancel") => InOutbox("cancel")'
    BY <1>1, <1>2, OutboxTail
  <2>3. x \notin skipped
    BY <1>8
  <2> QED
    BY <2>1, <2>2, <2>3, <1>5 DEF IInv, OpenIsQueued
<1> QED
  BY <1>1, <1>2, <1>9, <1>10, <1>11, <1>12, <1>13, <1>14, <1>15, <1>16, FiledFrame, AtHeadFrame DEF IInv

LEMMA AgentResolvesKeeps == ASSUME IInv, NEW id \in Questions, AgentResolves(id) PROVE IInv'
<1> DEFINE event == [type |-> "resolved", id |-> id]
<1>1. TypeOK' /\ TypeOK
  BY AgentResolvesTyped DEF IInv
<1>2. /\ UNCHANGED <<card, queue, seen, answering, pump, current, issued, agent, working, asked, outbox,
                     protection>>
      /\ open' = Unopened(id) /\ withdrawn' = withdrawn \union {id}
      /\ skipped' = skipped \ {id} /\ current # 0
      /\ inbox' = Append(inbox, event) /\ id \in ToSet(open["question"])
  BY DEF AgentResolves, Sent, record, queues, answers, managed, IInv, Offline
<1>3. id \in Ids /\ KindOf(id) = "question" /\ "question" \in Kinds /\ id \in Once
  BY KindFacts DEF Ids
<1>4. event \in Event /\ event.type = "resolved" /\ event.id = id
  BY <1>3 DEF Event
<1> HIDE DEF event
<1>5. /\ \A type, x : InInbox(type, x) => InInbox(type, x)'
      /\ \A type, x : InInbox(type, x)' => InInbox(type, x) \/ (event.type = type /\ event.id = x)
      /\ \A x : Accepted(x) <=> Accepted(x)'
      /\ \A i \in DOMAIN inbox' : (i \in DOMAIN inbox /\ inbox'[i] = inbox[i])
                                  \/ (i = Len(inbox) + 1 /\ inbox'[i] = event)
  BY <1>1, <1>2, <1>4, InboxAppend
<1>6. /\ \A kind \in Kinds : ToSet(open'[kind]) \subseteq ToSet(open[kind])
      /\ \A kind \in Kinds : \A other \in ToSet(open[kind]) : other # id => other \in ToSet(open'[kind])
      /\ id \notin ToSet(open'[KindOf(id)])
      /\ \A kind \in Kinds : \A i, j \in DOMAIN open'[kind] : open'[kind][i] = open'[kind][j] => i = j
      /\ \A kind \in Kinds : \A i \in DOMAIN open'[kind] : open'[kind][i] \in asked
  BY <1>2, <1>3, UnopenedFacts
<1>7. id \in asked
  BY <1>2, <1>3 DEF IInv, Known, ToSet
<1>8. Replies'
  BY <1>2, <1>3, <1>4, <1>5 DEF IInv, Replies, Owns
<1>9. Offline'
  BY <1>2 DEF IInv, Offline
<1>10. Known'
  BY <1>2, <1>4, <1>5, <1>6, <1>7 DEF IInv, Known
<1>11. Distinct'
  BY <1>2, <1>4, <1>5, <1>6 DEF IInv, Distinct
<1>12. Unheard'
  <2> SUFFICES ASSUME NEW x \in Once, InInbox("asked", x)'
               PROVE  /\ x \notin seen /\ ~InQueue(x) /\ (answering # None => answering.id # x)
                      /\ (pump # None => pump.id # x)
                      /\ x \in ToSet(open'[KindOf(x)]) \union withdrawn'
    BY <1>2 DEF Unheard, InQueue
  <2>1. InInbox("asked", x) /\ KindOf(x) \in Kinds
    BY <1>4, <1>5, KindFacts DEF Once
  <2> QED
    BY <2>1, <1>2, <1>6 DEF IInv, Unheard
<1>13. Closed'
  <2> SUFFICES ASSUME NEW x \in Once, Accepted(x)' \/ InInbox("resolved", x)'
               PROVE  x \notin ToSet(open'[KindOf(x)])
    BY DEF Closed
  <2>1. KindOf(x) \in Kinds
    BY KindFacts DEF Once
  <2>2. CASE x = id
    BY <2>2, <1>6
  <2>3. CASE x # id
    BY <2>1, <2>3, <1>4, <1>5, <1>6 DEF IInv, Closed
  <2> QED
    BY <2>2, <2>3
<1>14. Acknowledged'
  <2> SUFFICES ASSUME NEW kind \in Kinds, NEW i \in DOMAIN queue[kind], queue[kind][i].client = current,
                      queue[kind][i].id \notin ToSet(open'[kind]) \union withdrawn' \union Reasked
               PROVE  Accepted(queue[kind][i].id)'
    BY <1>2 DEF Acknowledged, Accepted
  <2> PICK x : x = queue[kind][i].id
    OBVIOUS
  <2>1. x \notin ToSet(open[kind]) \union withdrawn \union Reasked
    <3>1. CASE x = id
      BY <3>1, <1>2
    <3>2. CASE x # id
      BY <3>2, <1>2, <1>6
    <3> QED
      BY <3>1, <3>2
  <2>2. Accepted(x)
    BY <2>1 DEF IInv, Acknowledged
  <2>3. Accepted(x)'
    BY <2>2, <1>5
  <2> QED
    BY <2>3, <1>2 DEF Accepted
<1>15. OpenIsQueued'
  <2> SUFFICES ASSUME NEW x \in Ids \ (Reasked \union skipped'), x \in ToSet(open'[KindOf(x)])
               PROVE  InQueue(x) \/ InInbox("asked", x)' \/ InOutbox("cancel")
    BY <1>2 DEF OpenIsQueued, InQueue, InOutbox
  <2>1. x \in ToSet(open[KindOf(x)])
    BY <1>6, KindFacts
  <2>2. x \notin skipped
    BY <1>2, <1>6
  <2> QED
    BY <2>1, <2>2, <1>5 DEF IInv, OpenIsQueued
<1> QED
  BY <1>1, <1>2, <1>8, <1>9, <1>10, <1>11, <1>12, <1>13, <1>14, <1>15, FiledFrame, AtHeadFrame DEF IInv

LEMMA AgentFinishesKeeps == ASSUME IInv, NEW t \in Turns, NEW ok \in BOOLEAN, AgentFinishes(t, ok) PROVE IInv'
<1> DEFINE event == [type |-> "prompted", turn |-> t, ok |-> ok]
<1>1. TypeOK' /\ TypeOK
  BY AgentFinishesTyped DEF IInv
<1>2. /\ UNCHANGED <<card, queue, seen, answering, pump, current, issued, agent, open, asked,
                     withdrawn, skipped, outbox, protection>>
      /\ current # 0 /\ inbox' = Append(inbox, event)
  BY DEF AgentFinishes, Sent, record, queues, answers, managed, IInv, Offline
<1>3. event \in Event /\ event.type = "prompted"
  BY DEF Event
<1> HIDE DEF event
<1>4. /\ \A type, x : InInbox(type, x) => InInbox(type, x)'
      /\ \A type, x : InInbox(type, x)' => InInbox(type, x) \/ (event.type = type /\ event.id = x)
      /\ \A x : Accepted(x) <=> Accepted(x)'
      /\ \A i \in DOMAIN inbox' : (i \in DOMAIN inbox /\ inbox'[i] = inbox[i])
                                  \/ (i = Len(inbox) + 1 /\ inbox'[i] = event)
  BY <1>1, <1>2, <1>3, InboxAppend
<1>5. Replies'
  BY <1>2, <1>3, <1>4 DEF IInv, Replies, Owns
<1>6. Offline'
  BY <1>2 DEF IInv, Offline
<1>7. Known' /\ Distinct'
  BY <1>2, <1>3, <1>4 DEF IInv, Known, Distinct
<1>8. Unheard'
  BY <1>2, <1>3, <1>4 DEF IInv, Unheard, InQueue, ToSet
<1>9. Closed'
  BY <1>2, <1>3, <1>4 DEF IInv, Closed, ToSet
<1>10. Acknowledged'
  BY <1>2, <1>4 DEF IInv, Acknowledged, ToSet
<1>11. OpenIsQueued'
  BY <1>2, <1>4 DEF IInv, OpenIsQueued, InQueue, InOutbox, ToSet
<1> QED
  BY <1>1, <1>2, <1>5, <1>6, <1>7, <1>8, <1>9, <1>10, <1>11, FiledFrame, AtHeadFrame DEF IInv

\* The worker has one more open request.
LEMMA OpenedFacts ==
  ASSUME TypeOK, Distinct, NEW id \in Ids, id \notin ToSet(open[KindOf(id)]),
         open' = [open EXCEPT ![KindOf(id)] = Append(@, id)]
  PROVE  /\ \A kind \in Kinds : \A x \in ToSet(open[kind]) : x \in ToSet(open'[kind])
         /\ \A kind \in Kinds : \A x \in ToSet(open'[kind]) : x \in ToSet(open[kind]) \/ x = id
         /\ id \in ToSet(open'[KindOf(id)])
         /\ \A kind \in Kinds : \A i, j \in DOMAIN open'[kind] : open'[kind][i] = open'[kind][j] => i = j
         /\ \A kind \in Kinds : \A i \in DOMAIN open'[kind] : open'[kind][i] \in ToSet(open[kind]) \union {id}
<1> DEFINE s == open[KindOf(id)]
           t == Append(s, id)
<1>1. KindOf(id) \in Kinds /\ s \in Seq(Ids) /\ open \in [Kinds -> Seq(Ids)]
  BY KindFacts DEF TypeOK
<1>2. /\ Len(s) \in Nat /\ DOMAIN s = 1 .. Len(s) /\ DOMAIN t = 1 .. (Len(s) + 1)
      /\ \A i \in DOMAIN s : i \in DOMAIN t /\ t[i] = s[i]
      /\ t[Len(s) + 1] = id
      /\ \A i \in DOMAIN t : i \in DOMAIN s \/ i = Len(s) + 1
  BY <1>1, AppendFacts
<1>3. open' = [open EXCEPT ![KindOf(id)] = t]
  OBVIOUS
<1>4. Len(s) + 1 \in DOMAIN t
  BY <1>2
<1>5. \A i \in DOMAIN s : s[i] # id
  BY DEF ToSet
<1>6. \A i, j \in DOMAIN s : s[i] = s[j] => i = j
  BY <1>1 DEF Distinct
<1> HIDE DEF t
<1>7. \A i, j \in DOMAIN t : t[i] = t[j] => i = j
  <2> SUFFICES ASSUME NEW i \in DOMAIN t, NEW j \in DOMAIN t, t[i] = t[j] PROVE i = j
    OBVIOUS
  <2>1. CASE i \in DOMAIN s /\ j \in DOMAIN s
    BY <2>1, <1>2, <1>6
  <2>2. CASE i \in DOMAIN s /\ j = Len(s) + 1
    BY <2>2, <1>2, <1>5
  <2>3. CASE i = Len(s) + 1 /\ j \in DOMAIN s
    BY <2>3, <1>2, <1>5
  <2> QED
    BY <2>1, <2>2, <2>3, <1>2
<1>8. \A kind \in Kinds : open'[kind] = IF kind = KindOf(id) THEN t ELSE open[kind]
  BY <1>1, <1>3
<1>9. \A kind \in Kinds : \A x \in ToSet(open[kind]) : x \in ToSet(open'[kind])
  BY <1>1, <1>2, <1>8 DEF ToSet
<1>10. \A kind \in Kinds : \A i \in DOMAIN open'[kind] : open'[kind][i] \in ToSet(open[kind]) \union {id}
  BY <1>1, <1>2, <1>8 DEF ToSet
<1>11. \A kind \in Kinds : \A x \in ToSet(open'[kind]) : x \in ToSet(open[kind]) \/ x = id
  BY <1>10 DEF ToSet
<1>12. id \in ToSet(open'[KindOf(id)])
  BY <1>1, <1>2, <1>4, <1>8 DEF ToSet
<1>13. \A kind \in Kinds : \A i, j \in DOMAIN open'[kind] : open'[kind][i] = open'[kind][j] => i = j
  <2> SUFFICES ASSUME NEW kind \in Kinds
               PROVE  \A i, j \in DOMAIN open'[kind] : open'[kind][i] = open'[kind][j] => i = j
    OBVIOUS
  <2>1. CASE kind = KindOf(id)
    <3>1. open'[kind] = t
      BY <2>1, <1>8
    <3> QED
      BY <3>1, <1>7
  <2>2. CASE kind # KindOf(id)
    <3>1. open'[kind] = open[kind]
      BY <2>2, <1>8
    <3> QED
      <4>1. \A i, j \in DOMAIN open[kind] : open[kind][i] = open[kind][j] => i = j
        BY DEF Distinct
      <4> QED
        BY <3>1, <4>1, Zenon
  <2> QED
    BY <2>1, <2>2
<1> QED
  BY <1>9, <1>10, <1>11, <1>12, <1>13

LEMMA AgentAsksKeeps == ASSUME IInv, NEW id \in Ids, NEW options \in BOOLEAN, AgentAsks(id, options) PROVE IInv'
<1> DEFINE event == [type |-> "asked", id |-> id, options |-> options]
<1>1. TypeOK' /\ TypeOK
  BY AgentAsksTyped DEF IInv
<1>2. /\ UNCHANGED <<card, queue, seen, answering, pump, current, issued, agent, working, skipped,
                     outbox, protection>>
      /\ current # 0 /\ inbox' = Append(inbox, event)
      /\ id \notin asked \/ (id \in Reasked /\ id \notin ToSet(open[KindOf(id)]))
      /\ asked' = asked \union {id} /\ withdrawn' = withdrawn \ {id}
      /\ open' = [open EXCEPT ![KindOf(id)] = Append(@, id)]
  BY DEF AgentAsks, Sent, record, queues, answers, managed, IInv, Offline
<1>3. event \in Event /\ event.type = "asked" /\ event.id = id
  BY DEF Event
<1>4. KindOf(id) \in Kinds
  BY KindFacts
<1>5. id \notin ToSet(open[KindOf(id)])
  BY <1>2, <1>4 DEF IInv, Known, ToSet
<1>6. id \in Once => id \notin asked
  BY <1>2 DEF Once
<1> HIDE DEF event
<1>7. /\ \A type, x : InInbox(type, x) => InInbox(type, x)'
      /\ \A type, x : InInbox(type, x)' => InInbox(type, x) \/ (event.type = type /\ event.id = x)
      /\ InInbox("asked", id)'
      /\ \A x : Accepted(x) <=> Accepted(x)'
      /\ \A i \in DOMAIN inbox' : (i \in DOMAIN inbox /\ inbox'[i] = inbox[i])
                                  \/ (i = Len(inbox) + 1 /\ inbox'[i] = event)
  BY <1>1, <1>2, <1>3, InboxAppend
<1>8. /\ \A kind \in Kinds : \A x \in ToSet(open[kind]) : x \in ToSet(open'[kind])
      /\ \A kind \in Kinds : \A x \in ToSet(open'[kind]) : x \in ToSet(open[kind]) \/ x = id
      /\ id \in ToSet(open'[KindOf(id)])
      /\ \A kind \in Kinds : \A i, j \in DOMAIN open'[kind] : open'[kind][i] = open'[kind][j] => i = j
      /\ \A kind \in Kinds : \A i \in DOMAIN open'[kind] : open'[kind][i] \in ToSet(open[kind]) \union {id}
  BY <1>2, <1>5, OpenedFacts DEF IInv
<1>9. Replies'
  BY <1>2, <1>3, <1>7 DEF IInv, Replies, Owns
<1>10. Offline'
  BY <1>2 DEF IInv, Offline
<1>11. Known'
  <2>1. \A kind \in Kinds : ToSet(open[kind]) \subseteq asked
    BY DEF IInv, Known, ToSet
  <2>2. \A kind \in Kinds : \A i \in DOMAIN open'[kind] : open'[kind][i] \in asked'
    BY <2>1, <1>2, <1>8
  <2> QED
    BY <2>2, <1>2, <1>3, <1>7 DEF IInv, Known
<1>12. Distinct'
  <2>1. \A x \in Once : \A i, j \in DOMAIN inbox' :
          inbox'[i].type = "asked" /\ inbox'[j].type = "asked" /\ inbox'[i].id = x /\ inbox'[j].id = x => i = j
    <3>1. \A i \in DOMAIN inbox : inbox[i].type = "asked" => inbox[i].id \in asked
      BY DEF IInv, Known
    <3> QED
      BY <3>1, <1>3, <1>6, <1>7 DEF IInv, Distinct
  <2> QED
    BY <2>1, <1>2, <1>8 DEF IInv, Distinct
<1>13. ASSUME NEW x \in Ids, x \in ToSet(open'[KindOf(x)]), x # id
       PROVE  x \in ToSet(open[KindOf(x)])
  BY <1>13, <1>8, KindFacts
<1>14. Unheard'
  <2> SUFFICES ASSUME NEW x \in Once, InInbox("asked", x)'
               PROVE  /\ x \notin seen /\ ~InQueue(x) /\ (answering # None => answering.id # x)
                      /\ (pump # None => pump.id # x)
                      /\ x \in ToSet(open'[KindOf(x)]) \union withdrawn'
    BY <1>2 DEF Unheard, InQueue
  <2>1. KindOf(x) \in Kinds
    BY KindFacts DEF Once
  <2>2. CASE x = id
    <3>1. x \notin asked
      BY <2>2, <1>6
    <3>2. x \notin seen /\ (answering # None => answering.id # x) /\ (pump # None => pump.id # x)
      BY <3>1 DEF IInv, Known
    <3>3. ~InQueue(x)
      BY <3>1, <2>1 DEF IInv, Known, InQueue
    <3> QED
      BY <3>2, <3>3, <2>2, <1>8
  <2>3. CASE x # id
    <3>1. InInbox("asked", x)
      BY <2>3, <1>3, <1>7
    <3>2. /\ x \notin seen /\ ~InQueue(x) /\ (answering # None => answering.id # x)
          /\ (pump # None => pump.id # x) /\ x \in ToSet(open[KindOf(x)]) \union withdrawn
      BY <3>1 DEF IInv, Unheard
    <3> QED
      BY <3>2, <2>1, <2>3, <1>2, <1>8
  <2> QED
    BY <2>2, <2>3
<1>15. Closed'
  <2> SUFFICES ASSUME NEW x \in Once, Accepted(x)' \/ InInbox("resolved", x)'
               PROVE  x \notin ToSet(open'[KindOf(x)])
    BY DEF Closed
  <2>1. Accepted(x) \/ InInbox("resolved", x)
    BY <1>3, <1>7
  <2>2. x \in asked
    BY <2>1 DEF IInv, Known, Accepted, InInbox
  <2>3. x # id
    BY <2>2, <1>6
  <2> QED
    BY <2>1, <2>3, <1>13 DEF IInv, Closed, Once
<1>16. Acknowledged'
  <2> SUFFICES ASSUME NEW kind \in Kinds, NEW i \in DOMAIN queue[kind], queue[kind][i].client = current,
                      queue[kind][i].id \notin ToSet(open'[kind]) \union withdrawn' \union Reasked
               PROVE  Accepted(queue[kind][i].id)'
    BY <1>2 DEF Acknowledged, Accepted
  <2> PICK x : x = queue[kind][i].id
    OBVIOUS
  <2>1. x \in Ids /\ KindOf(x) = kind
    BY KindFacts DEF IInv, Filed
  <2>2. x # id
    BY <2>1, <1>8
  <2>3. x \notin ToSet(open[kind]) \union withdrawn \union Reasked
    BY <2>2, <1>2, <1>8
  <2>4. Accepted(x)
    BY <2>3 DEF IInv, Acknowledged
  <2>5. Accepted(x)'
    BY <2>4, <1>7
  <2> QED
    BY <2>5, <1>2 DEF Accepted
<1>17. OpenIsQueued'
  <2> SUFFICES ASSUME NEW x \in Ids \ (Reasked \union skipped), x \in ToSet(open'[KindOf(x)])
               PROVE  InQueue(x) \/ InInbox("asked", x)' \/ InOutbox("cancel")
    BY <1>2 DEF OpenIsQueued, InQueue, InOutbox
  <2>1. CASE x = id
    BY <2>1, <1>7
  <2>2. CASE x # id
    BY <2>2, <1>7, <1>13 DEF IInv, OpenIsQueued
  <2> QED
    BY <2>1, <2>2
<1> QED
  BY <1>1, <1>2, <1>9, <1>10, <1>11, <1>12, <1>14, <1>15, <1>16, <1>17, FiledFrame, AtHeadFrame DEF IInv

-----------------------------------------------------------------------------
(***************************************************************************)
(* What main receives.                                                     *)
(***************************************************************************)
\* A card is put in step with its queue.
LEMMA SyncedFacts ==
  ASSUME IInv, NEW q \in [Kinds -> Seq(Request)], NEW kind \in Kinds, HeadSynced(q, kind),
         current # 0, current' = current, \A other \in Kinds : other # kind => q[other] = queue[other]
  PROVE  queue' = q /\ CardIsHead' /\ InputProtected'
<1>1. queue' = q /\ card' = [card EXCEPT ![kind] = HeadOf(q[kind])] /\ protection' = InputSynced(q)
  BY DEF HeadSynced
<1>2. card \in [Kinds -> Ids \union {None}]
  BY DEF IInv, TypeOK
<1>3. CardIsHead'
  <2> SUFFICES ASSUME NEW other \in Kinds PROVE card'[other] = HeadOf(queue'[other])
    BY DEF CardIsHead, HeadOf
  <2>1. CASE other = kind
    BY <2>1, <1>1, <1>2
  <2>2. CASE other # kind
    BY <2>2, <1>1, <1>2 DEF IInv, Filed, CardIsHead
  <2> QED
    BY <2>1, <2>2
<1>4. InputProtected'
  <2> SUFFICES ASSUME NEW other \in Kinds, NEW i \in DOMAIN q[other]
               PROVE  "input" \in protection'
    BY <1>1 DEF InputProtected
  <2>1. q[other] # <<>>
    BY EmptyFacts
  <2> QED
    BY <2>1, <1>1 DEF InputSynced
<1> QED
  BY <1>1, <1>3, <1>4

\* A request is refused: the cancel is on its way to the worker.
LEMMA RefusedStep ==
  ASSUME IInv, TypeOK', inbox # <<>>, inbox' = Tail(inbox), Head(inbox).type = "asked",
         NEW kinds \in SUBSET Kinds, NEW reasons, Refused(kinds, reasons),
         \A kind \in Kinds : queue'[kind] # <<>> => "input" \in reasons,
         seen' \subseteq seen \union {Head(inbox).id},
         UNCHANGED <<current, issued, agent, open, working, asked, withdrawn, skipped>>
  PROVE  IInv'
<1> DEFINE c == [type |-> "cancel"]
           id == Head(inbox).id
<1>1. TypeOK /\ DeletesOrKeeps /\ outbox' = Append(outbox, c) /\ protection' = reasons
  BY DEF IInv, Refused, DeletesOrKeeps
<1>2. c \in Command /\ c.type = "cancel"
  BY DEF Command
<1> HIDE DEF c
<1>3. /\ InOutbox("cancel")'
      /\ \A i \in DOMAIN outbox' : (i \in DOMAIN outbox /\ outbox'[i] = outbox[i])
                                   \/ (i = Len(outbox) + 1 /\ outbox'[i] = c)
  BY <1>1, <1>2, OutboxAppend
<1>4. /\ \A type, x : InInbox(type, x)' => InInbox(type, x)
      /\ \A x : Accepted(x) <=> Accepted(x)'
      /\ \A i \in DOMAIN inbox' : i + 1 \in DOMAIN inbox /\ inbox'[i] = inbox[i + 1] /\ i \in Nat
      /\ Head(inbox) = inbox[1] /\ 1 \in DOMAIN inbox
  BY <1>1, InboxTail
<1>5. /\ \A i, j \in DOMAIN inbox' : inbox'[i].type = "asked" /\ inbox'[j].type = "asked"
           /\ inbox'[i].id = inbox'[j].id /\ inbox'[i].id \in Once => i = j
      /\ \A i \in DOMAIN inbox' : inbox'[i].type # "prompted" => inbox'[i].id \in asked
      /\ \A x \in Once : id = x => ~InInbox("asked", x)'
      /\ current # 0
  BY ReceivedFacts
<1>6. /\ CardIsHead' /\ AtHead'
      /\ \A kind \in Kinds : \A i \in DOMAIN queue'[kind] :
           i \in DOMAIN queue[kind] /\ queue'[kind][i] = queue[kind][i]
      /\ \A x \in Ids : InQueue(x)' => InQueue(x)
      /\ answering' # None => answering # None /\ answering'.id = answering.id
                              /\ answering'.client = answering.client
      /\ pump' # None => pump # None /\ pump'.id = pump.id /\ pump'.client = pump.client
      /\ answering # None => answering' # None /\ answering'.id = answering.id
                             /\ answering'.client = answering.client
      /\ pump # None => pump' # None /\ pump'.id = pump.id /\ pump'.client = pump.client
  BY <1>1, DeletesFacts
<1>7. /\ \A m : Owns(answering, m) => Owns(answering', m)
      /\ \A m : Owns(pump, m) => Owns(pump', m)
  BY <1>6 DEF Owns
<1>8. Replies'
  <2>1. /\ \A i \in DOMAIN outbox' : outbox'[i].type = "answer" =>
            /\ outbox'[i].by = "user" => Owns(answering', outbox'[i])
            /\ outbox'[i].by = "pump" => Owns(pump', outbox'[i])
    BY <1>2, <1>3, <1>7 DEF IInv, Replies
  <2>2. \A i \in DOMAIN inbox' : inbox'[i].type = "answered" =>
            /\ inbox'[i].by = "user" => Owns(answering', inbox'[i])
            /\ inbox'[i].by = "pump" => Owns(pump', inbox'[i])
    BY <1>4, <1>7 DEF IInv, Replies
  <2>3. \A i, j \in DOMAIN outbox' :
          outbox'[i].type = "answer" /\ outbox'[j].type = "answer" /\ outbox'[i].by = outbox'[j].by => i = j
    BY <1>2, <1>3 DEF IInv, Replies
  <2>4. \A i, j \in DOMAIN inbox' :
          inbox'[i].type = "answered" /\ inbox'[j].type = "answered" /\ inbox'[i].by = inbox'[j].by => i = j
    <3>1. \A i, j \in DOMAIN inbox' :
          inbox'[i].type = "answered" /\ inbox'[j].type = "answered" /\ inbox'[i].by = inbox'[j].by => i + 1 = j + 1
      BY <1>4 DEF IInv, Replies
    <3> QED
      BY <3>1, <1>4
  <2>5. \A i \in DOMAIN outbox', j \in DOMAIN inbox' :
          outbox'[i].type = "answer" /\ inbox'[j].type = "answered" => outbox'[i].by # inbox'[j].by
    BY <1>2, <1>3, <1>4 DEF IInv, Replies
  <2>6. \A i \in DOMAIN inbox' : inbox'[i].type = "resolved" => KindOf(inbox'[i].id) = "question"
    BY <1>4 DEF IInv, Replies
  <2>7. pump' # None => KindOf(pump'.id) = "permission"
    BY <1>6 DEF IInv, Replies
  <2> QED
    BY <2>1, <2>2, <2>3, <2>4, <2>5, <2>6, <2>7 DEF Replies, Owns
<1>9. Offline'
  BY <1>5 DEF IInv, Offline
<1>10. InputProtected'
  <2>1. \A kind \in Kinds : \A i \in DOMAIN queue'[kind] : queue'[kind] # <<>>
    BY EmptyFacts
  <2> QED
    BY <2>1, <1>1 DEF InputProtected
<1>11. Filed'
  BY <1>6, <1>10 DEF IInv, Filed
<1>12. id \in asked
  BY <1>4 DEF IInv, Known
<1>13. Known'
  BY <1>5, <1>6, <1>12 DEF IInv, Known
<1>14. Distinct'
  BY <1>5, <1>6 DEF IInv, Distinct
<1>15. Unheard'
  <2> SUFFICES ASSUME NEW x \in Once, InInbox("asked", x)'
               PROVE  /\ x \notin seen' /\ ~InQueue(x)' /\ (answering' # None => answering'.id # x)
                      /\ (pump' # None => pump'.id # x)
                      /\ x \in ToSet(open[KindOf(x)]) \union withdrawn
    BY DEF Unheard, ToSet
  <2>1. x # id /\ InInbox("asked", x) /\ x \in Ids
    BY <1>4, <1>5 DEF Once
  <2> QED
    BY <2>1, <1>6 DEF IInv, Unheard
<1>16. Closed'
  BY <1>4 DEF IInv, Closed, ToSet
<1>17. Acknowledged'
  BY <1>4, <1>6 DEF IInv, Acknowledged, ToSet
<1>18. OpenIsQueued'
  BY <1>3 DEF OpenIsQueued
<1> QED
  BY <1>6, <1>8, <1>9, <1>11, <1>13, <1>14, <1>15, <1>16, <1>17, <1>18 DEF IInv

\* What the pump does with the queue after a step of main.
PumpMoves ==
  \/ UNCHANGED <<pump, outbox>>
  \/ pump' = None /\ UNCHANGED outbox
  \/ PumpRuns(queue'["permission"], mode, outbox)

\* A pump that runs awaits the answer for the head.
LEMMA PumpMovesFacts ==
  ASSUME TypeOK, TypeOK', Filed', PumpMoves
  PROVE  /\ \A type : InOutbox(type) => InOutbox(type)'
         /\ \/ pump' = pump
            \/ pump' = None
            \/ /\ pump' # None /\ ~pump'.stale /\ KindOf(pump'.id) = "permission" /\ pump'.id \in Ids
               /\ HeadOf(queue'["permission"]) = pump'.id /\ InQueue(pump.id)'
               /\ \E i \in DOMAIN queue'["permission"] : queue'["permission"][i].id = pump'.id
<1>1. CASE UNCHANGED outbox /\ (pump' = pump \/ pump' = None)
  BY <1>1 DEF InOutbox
<1>2. CASE PumpRuns(queue'["permission"], mode, outbox)
  <2>1. queue'["permission"] \in Seq(Request)
    BY DEF TypeOK, Kinds
  <2>2. \A type : InOutbox(type) => InOutbox(type)'
    BY <1>2, <2>1, PumpOutbox
  <2>3. pump' # None =>
        /\ pump' \in Answer /\ ~pump'.stale /\ pump'.client = current /\ pump'.id \in Ids
        /\ KindOf(pump'.id) = "permission" /\ HeadOf(queue'["permission"]) = pump'.id
        /\ InQueue(pump.id)' /\ \E i \in DOMAIN queue'["permission"] : queue'["permission"][i].id = pump'.id
    BY <1>2, PumpAtHead
  <2> QED
    BY <1>2, <2>2, <2>3
<1> QED
  BY <1>1, <1>2 DEF PumpMoves

\* A request joins its queue.
LEMMA JoinedFacts ==
  ASSUME IInv, NEW id \in Ids, current # 0, ~Full(KindOf(id)), queue' = Queued(id)
  PROVE  /\ \A kind \in Kinds : \A i \in DOMAIN queue[kind] :
              i \in DOMAIN queue'[kind] /\ queue'[kind][i] = queue[kind][i] /\ (i = 1 => Head(queue'[kind]) = Head(queue[kind]))
         /\ \A kind \in Kinds : \A i \in DOMAIN queue'[kind] :
              \/ i \in DOMAIN queue[kind] /\ queue'[kind][i] = queue[kind][i]
              \/ /\ kind = KindOf(id) /\ i = Len(queue[kind]) + 1
                 /\ queue'[kind][i].id = id /\ queue'[kind][i].client = current
         /\ \E i \in DOMAIN queue'[KindOf(id)] : queue'[KindOf(id)][i].id = id
         /\ \A other \in Kinds : other # KindOf(id) => queue'[other] = queue[other]
         /\ queue' \in [Kinds -> Seq(Request)]
<1> DEFINE request == [id |-> id, client |-> current]
           s == queue[KindOf(id)]
           t == Append(s, request)
<1>1. KindOf(id) \in Kinds /\ s \in Seq(Request) /\ queue \in [Kinds -> Seq(Request)]
  BY KindFacts DEF IInv, TypeOK
<1>2. request \in Request /\ queue' = [queue EXCEPT ![KindOf(id)] = t]
      /\ queue' \in [Kinds -> Seq(Request)]
  BY QueuedType DEF IInv, Queued
<1>3. request.id = id /\ request.client = current
  OBVIOUS
<1> HIDE DEF request
<1>4. /\ t \in Seq(Request) /\ Len(s) \in Nat /\ DOMAIN s = 1 .. Len(s) /\ DOMAIN t = 1 .. (Len(s) + 1)
      /\ \A i \in DOMAIN s : i \in DOMAIN t /\ t[i] = s[i]
      /\ t[Len(s) + 1] = request
      /\ \A i \in DOMAIN t : i \in DOMAIN s \/ i = Len(s) + 1
      /\ Len(t) = Len(s) + 1
  BY <1>1, <1>2, AppendFacts
<1> HIDE DEF t
<1>5. \A kind \in Kinds : queue'[kind] = IF kind = KindOf(id) THEN t ELSE queue[kind]
  BY <1>1, <1>2
<1>6. Len(s) + 1 \in DOMAIN t
  BY <1>4
<1>7. \A i \in DOMAIN s : i = 1 => Head(t) = Head(s)
  <2> SUFFICES ASSUME 1 \in DOMAIN s PROVE Head(t) = Head(s)
    OBVIOUS
  <2>1. s # <<>> /\ t # <<>>
    BY <1>4, EmptySeq
  <2>2. Head(t) = t[1] /\ Head(s) = s[1]
    BY <2>1, <1>1, <1>4, TailFacts
  <2> QED
    BY <2>2, <1>4
<1>8. \A kind \in Kinds : \A i \in DOMAIN queue[kind] :
        i \in DOMAIN queue'[kind] /\ queue'[kind][i] = queue[kind][i] /\ (i = 1 => Head(queue'[kind]) = Head(queue[kind]))
  BY <1>4, <1>5, <1>7
<1>9. \A kind \in Kinds : \A i \in DOMAIN queue'[kind] :
              \/ i \in DOMAIN queue[kind] /\ queue'[kind][i] = queue[kind][i]
              \/ /\ kind = KindOf(id) /\ i = Len(queue[kind]) + 1
                 /\ queue'[kind][i].id = id /\ queue'[kind][i].client = current
  BY <1>3, <1>4, <1>5
<1>10. \E i \in DOMAIN queue'[KindOf(id)] : queue'[KindOf(id)][i].id = id
  BY <1>1, <1>3, <1>4, <1>5, <1>6
<1>11. \A other \in Kinds : other # KindOf(id) => queue'[other] = queue[other]
  BY <1>5
<1> QED
  BY <1>2, <1>8, <1>9, <1>10, <1>11

LEMMA JoinedStep ==
  ASSUME IInv, TypeOK', inbox # <<>>, inbox' = Tail(inbox), Head(inbox).type = "asked",
         NEW id \in Ids, id = Head(inbox).id, ~Full(KindOf(id)), HeadSynced(Queued(id), KindOf(id)),
         seen' \subseteq seen \union {id}, PumpMoves, Replies',
         UNCHANGED <<answering, current, issued, agent, open, working, asked, withdrawn, skipped>>
  PROVE  IInv'
<1>1. /\ TypeOK
      /\ \A i, j \in DOMAIN inbox' : inbox'[i].type = "asked" /\ inbox'[j].type = "asked"
           /\ inbox'[i].id = inbox'[j].id /\ inbox'[i].id \in Once => i = j
      /\ \A i \in DOMAIN inbox' : inbox'[i].type # "prompted" => inbox'[i].id \in asked
      /\ \A x \in Once : id = x => ~InInbox("asked", x)'
      /\ current # 0
  BY ReceivedFacts DEF IInv
<1>2. KindOf(id) \in Kinds /\ id \in IdsOf(KindOf(id)) /\ InInbox("asked", id) /\ id \in asked
  <2>1. Head(inbox) = inbox[1] /\ 1 \in DOMAIN inbox
    BY <1>1, InboxTail
  <2> QED
    BY <2>1, KindFacts DEF InInbox, IInv, Known
<1>3. queue' = Queued(id)
  BY DEF HeadSynced
<1>4. /\ \A kind \in Kinds : \A i \in DOMAIN queue[kind] :
           i \in DOMAIN queue'[kind] /\ queue'[kind][i] = queue[kind][i]
           /\ (i = 1 => Head(queue'[kind]) = Head(queue[kind]))
      /\ \A kind \in Kinds : \A i \in DOMAIN queue'[kind] :
           \/ i \in DOMAIN queue[kind] /\ queue'[kind][i] = queue[kind][i]
           \/ /\ kind = KindOf(id) /\ i = Len(queue[kind]) + 1
              /\ queue'[kind][i].id = id /\ queue'[kind][i].client = current
      /\ \E i \in DOMAIN queue'[KindOf(id)] : queue'[KindOf(id)][i].id = id
      /\ \A other \in Kinds : other # KindOf(id) => queue'[other] = queue[other]
      /\ queue' \in [Kinds -> Seq(Request)]
  BY <1>1, <1>3, JoinedFacts
<1>5. CardIsHead' /\ InputProtected'
  BY <1>1, <1>2, <1>3, <1>4, SyncedFacts
<1>6. Filed'
  <2>1. issued' = issued /\ current <= issued
    BY <1>1 DEF IInv, Offline, TypeOK
  <2>2. \A kind \in Kinds : \A i \in DOMAIN queue'[kind] :
          queue'[kind][i].id \in IdsOf(kind) /\ queue'[kind][i].client <= issued'
    BY <2>1, <1>2, <1>4 DEF IInv, Filed
  <2> QED
    BY <1>5, <2>2 DEF Filed
<1>7. /\ \A type : InOutbox(type) => InOutbox(type)'
      /\ \/ pump' = pump
         \/ pump' = None
         \/ /\ pump' # None /\ ~pump'.stale /\ KindOf(pump'.id) = "permission" /\ pump'.id \in Ids
            /\ HeadOf(queue'["permission"]) = pump'.id /\ InQueue(pump.id)'
            /\ \E i \in DOMAIN queue'["permission"] : queue'["permission"][i].id = pump'.id
  BY <1>1, <1>6, PumpMovesFacts
<1>8. /\ \A type, x : InInbox(type, x)' => InInbox(type, x)
      /\ \A x : InInbox("asked", x) => InInbox("asked", x)' \/ x = id
      /\ \A x : Accepted(x) <=> Accepted(x)'
  BY <1>1, InboxTail
<1>9. Offline'
  BY <1>1 DEF IInv, Offline
<1>10. \A kind \in Kinds : \A i \in DOMAIN queue'[kind] : queue'[kind][i].id \in asked
  BY <1>2, <1>4 DEF IInv, Known
<1>11. Known'
  <2>1. pump' # None => pump'.id \in asked
    BY <1>7, <1>10 DEF IInv, Known, Kinds
  <2> QED
    BY <2>1, <1>1, <1>2, <1>10 DEF IInv, Known
<1>12. id \in Once => ~InQueue(id)
  BY <1>2 DEF IInv, Unheard
<1>13. Distinct'
  <2>1. \A x \in Once, kind \in Kinds : \A i, j \in DOMAIN queue'[kind] :
          queue'[kind][i].id = x /\ queue'[kind][j].id = x => i = j
    <3> SUFFICES ASSUME NEW x \in Once, NEW kind \in Kinds, NEW i \in DOMAIN queue'[kind],
                        NEW j \in DOMAIN queue'[kind], queue'[kind][i].id = x, queue'[kind][j].id = x
                 PROVE  i = j
      OBVIOUS
    <3>1. CASE i \in DOMAIN queue[kind] /\ j \in DOMAIN queue[kind]
      BY <3>1, <1>4 DEF IInv, Distinct
    <3>2. CASE ~(i \in DOMAIN queue[kind] /\ j \in DOMAIN queue[kind])
      <4>1. kind = KindOf(id) /\ x = id
        BY <3>2, <1>4
      <4>2. \A k \in DOMAIN queue[kind] : queue[kind][k].id # x
        BY <4>1, <1>12 DEF InQueue
      <4> QED
        BY <4>2, <1>4
    <3> QED
      BY <3>1, <3>2
  <2> QED
    BY <2>1, <1>1 DEF IInv, Distinct
<1>14. ASSUME NEW x \in Ids, InQueue(x)'
       PROVE  InQueue(x) \/ x = id
  <2>1. KindOf(x) \in Kinds
    BY KindFacts
  <2> QED
    BY <2>1, <1>4, <1>14 DEF InQueue
<1>15. ASSUME NEW x \in Ids, InQueue(x)
       PROVE  InQueue(x)'
  <2>1. KindOf(x) \in Kinds
    BY KindFacts
  <2> QED
    BY <2>1, <1>4, <1>15 DEF InQueue
<1>16. Unheard'
  <2> SUFFICES ASSUME NEW x \in Once, InInbox("asked", x)'
               PROVE  /\ x \notin seen' /\ ~InQueue(x)' /\ (answering # None => answering.id # x)
                      /\ (pump' # None => pump'.id # x)
                      /\ x \in ToSet(open[KindOf(x)]) \union withdrawn
    BY DEF Unheard, ToSet
  <2>1. x # id /\ InInbox("asked", x) /\ x \in Ids
    BY <1>1, <1>8 DEF Once
  <2>2. /\ x \notin seen /\ ~InQueue(x) /\ (answering # None => answering.id # x)
        /\ (pump # None => pump.id # x) /\ x \in ToSet(open[KindOf(x)]) \union withdrawn
    BY <2>1 DEF IInv, Unheard
  <2>3. ~InQueue(x)'
    BY <2>1, <2>2, <1>14
  <2>4. pump' # None => pump'.id # x
    <3>1. \A i \in DOMAIN queue'["permission"] : KindOf(x) = "permission" => queue'["permission"][i].id # x
      BY <2>3 DEF InQueue
    <3> QED
      BY <3>1, <2>2, <1>7
  <2> QED
    BY <2>1, <2>2, <2>3, <2>4
<1>17. Closed'
  BY <1>8 DEF IInv, Closed, ToSet
<1>18. ASSUME NEW a \in Answer \union {None}, HeadFor(a), id \in Once /\ a # None => a.id # id,
              a # None, a.id \in Once, InQueue(a.id)'
       PROVE  ~a.stale /\ HeadOf(queue'[KindOf(a.id)]) = a.id
  <2> DEFINE s == queue[KindOf(a.id)]
             t == queue'[KindOf(a.id)]
  <2>1. a.id \in Ids /\ KindOf(a.id) \in Kinds /\ a.id # None
    BY <1>18, KindFacts DEF Once
  <2>2. InQueue(a.id)
    BY <2>1, <1>14, <1>18
  <2>3. ~a.stale /\ HeadOf(s) = a.id
    BY <2>2, <1>18 DEF HeadFor
  <2>4. s \in Seq(Request) /\ t \in Seq(Request)
    BY <2>1, <1>1, <1>4 DEF TypeOK
  <2>5. s # <<>> /\ 1 \in DOMAIN s
    BY <2>1, <2>3, <2>4, HeadOfType
  <2>6. 1 \in DOMAIN t /\ Head(t) = Head(s)
    BY <2>1, <2>5, <1>4
  <2>7. t # <<>>
    BY <2>6, EmptyFacts
  <2> QED
    BY <2>3, <2>4, <2>5, <2>6, <2>7, HeadOfType
<1>19. AtHead'
  <2>1. answering \in Answer \union {None} /\ pump \in Answer \union {None}
    BY <1>1 DEF TypeOK
  <2>2. id \in Once => (answering # None => answering.id # id) /\ (pump # None => pump.id # id)
    BY <1>2 DEF IInv, Unheard
  <2>3. HeadFor(answering)'
    BY <2>1, <2>2, <1>18 DEF HeadFor, IInv, AtHead, InQueue
  <2>4. HeadFor(pump)'
    <3>1. CASE pump' = pump
      BY <3>1, <2>1, <2>2, <1>18 DEF HeadFor, IInv, AtHead, InQueue
    <3>2. CASE pump' # pump
      BY <3>2, <1>7 DEF HeadFor
    <3> QED
      BY <3>1, <3>2
  <2> QED
    BY <2>3, <2>4 DEF AtHead
<1>20. Acknowledged'
  <2> SUFFICES ASSUME NEW kind \in Kinds, NEW i \in DOMAIN queue'[kind], queue'[kind][i].client = current,
                      queue'[kind][i].id \notin ToSet(open[kind]) \union withdrawn \union Reasked
               PROVE  Accepted(queue[kind][i].id)'
    BY DEF Acknowledged, ToSet
  <2> PICK x : x = queue'[kind][i].id
    OBVIOUS
  <2>1. CASE i \in DOMAIN queue[kind] /\ queue'[kind][i] = queue[kind][i]
    <3>1. Accepted(x)
      BY <2>1 DEF IInv, Acknowledged
    <3>2. Accepted(x)'
      BY <3>1, <1>8
    <3> QED
      BY <3>2 DEF Accepted
  <2>2. CASE kind = KindOf(id) /\ x = id
    <3>1. id \in Once
      BY <2>2 DEF Once
    <3>2. id \in ToSet(open[KindOf(id)]) \union withdrawn
      BY <3>1, <1>2 DEF IInv, Unheard
    <3> QED
      BY <3>2, <2>2
  <2> QED
    BY <2>1, <2>2, <1>4
<1>21. OpenIsQueued'
  <2> SUFFICES ASSUME NEW x \in Ids \ (Reasked \union skipped), x \in ToSet(open[KindOf(x)])
               PROVE  InQueue(x)' \/ InInbox("asked", x)' \/ InOutbox("cancel")'
    BY DEF OpenIsQueued, ToSet
  <2>1. InQueue(id)'
    BY <1>2, <1>4 DEF InQueue
  <2>2. InQueue(x) \/ InInbox("asked", x) \/ InOutbox("cancel")
    BY DEF IInv, OpenIsQueued
  <2>3. CASE InInbox("asked", x)
    <3>1. CASE x = id
      BY <3>1, <2>1 DEF InQueue
    <3>2. CASE x # id
      BY <3>2, <2>3, <1>8
    <3> QED
      BY <3>1, <3>2
  <2> QED
    BY <2>2, <2>3, <1>7, <1>15
<1> QED
  BY <1>6, <1>9, <1>11, <1>13, <1>16, <1>17, <1>19, <1>20, <1>21 DEF IInv

LEMMA PermissionAskedKeeps == ASSUME IInv, PermissionAsked PROVE IInv'
<1> DEFINE id == Head(inbox).id
           kept == protection \union {"input"}
<1>1. TypeOK' /\ TypeOK
  BY PermissionAskedTyped DEF IInv
<1>2. /\ inbox # <<>> /\ inbox' = Tail(inbox) /\ Head(inbox).type = "asked"
      /\ KindOf(id) = "permission" /\ seen' = seen \union {id}
      /\ UNCHANGED <<mode, current, issued, agent, open, working, asked, withdrawn, skipped>>
  BY DEF PermissionAsked, Receives, worker
<1>3. id \in Ids /\ InInbox("asked", id) /\ Head(inbox) = inbox[1] /\ 1 \in DOMAIN inbox
  <2>1. Head(inbox) \in Event /\ Head(inbox) = inbox[1] /\ 1 \in DOMAIN inbox
    BY <1>1, <1>2, TailFacts DEF TypeOK
  <2> QED
    BY <2>1, <1>2, EventTypes DEF InInbox
<1>4. current # 0
  BY <1>2, ReceivedFacts
<1>5. CASE id \in seen /\ UNCHANGED <<card, queue, answers, outbox>> /\ protection' = kept
  <2>1. UNCHANGED <<card, queue, seen, answering, pump, outbox>> /\ "input" \in protection'
    BY <1>2, <1>5 DEF answers
  <2>2. id \notin Once
    BY <1>3, <1>5 DEF IInv, Unheard
  <2>3. /\ \A type, x : InInbox(type, x)' => InInbox(type, x)
        /\ \A x : InInbox("asked", x) => InInbox("asked", x)' \/ x = id
        /\ \A x : Accepted(x) <=> Accepted(x)'
    BY <1>1, <1>2, InboxTail
  <2>4. Replies'
    BY <1>1, <1>2, <2>1, RepliesInboxTail DEF IInv
  <2>5. Offline'
    BY <1>2, <1>4 DEF IInv, Offline
  <2>6. Filed'
    BY <1>2, <2>1 DEF IInv, Filed, CardIsHead, HeadOf, InputProtected
  <2>7. Known' /\ Distinct'
    BY <1>2, <2>1, ReceivedFacts DEF IInv, Known, Distinct
  <2>8. Unheard'
    BY <1>2, <2>1, <2>3 DEF IInv, Unheard, InQueue, ToSet
  <2>9. Closed'
    BY <1>2, <2>3 DEF IInv, Closed, ToSet
  <2>10. Acknowledged'
    BY <1>2, <2>1, <2>3 DEF IInv, Acknowledged, ToSet
  <2>11. OpenIsQueued'
    <3> SUFFICES ASSUME NEW x \in Ids \ (Reasked \union skipped), x \in ToSet(open[KindOf(x)])
                 PROVE  InQueue(x) \/ InInbox("asked", x)' \/ InOutbox("cancel")
      BY <1>2, <2>1 DEF OpenIsQueued, InQueue, InOutbox, ToSet
    <3>1. x # id
      BY <2>2 DEF Once
    <3> QED
      BY <3>1, <2>3 DEF IInv, OpenIsQueued
  <2> QED
    BY <1>1, <2>1, <2>4, <2>5, <2>6, <2>7, <2>8, <2>9, <2>10, <2>11, AtHeadFrame DEF IInv
<1>6. CASE Refused({}, kept)
  <2>1. {} \in SUBSET Kinds /\ "input" \in kept
    OBVIOUS
  <2> QED
    BY <1>1, <1>2, <1>6, <2>1, RefusedStep
<1>7. CASE Refused({"permission"}, kept)
  <2>1. {"permission"} \in SUBSET Kinds /\ "input" \in kept
    BY DEF Kinds
  <2> QED
    BY <1>1, <1>2, <1>7, <2>1, RefusedStep
<1>8. CASE /\ ~Full("permission") /\ HeadSynced(Queued(id), "permission")
           /\ PumpCalled(queue'["permission"], mode) /\ UNCHANGED answering
  <2>1. PumpMoves /\ ((PumpRuns(queue'["permission"], mode, outbox) /\ pump = None) \/ UNCHANGED <<pump, outbox>>)
    <3>1. CASE pump = None /\ PumpRuns(queue'["permission"], mode, outbox)
      BY <3>1 DEF PumpMoves
    <3>2. CASE UNCHANGED <<pump, outbox>>
      BY <3>2 DEF PumpMoves
    <3> QED
      BY <1>8, <3>1, <3>2 DEF PumpCalled
  <2>2. queue' = Queued(id)
    BY <1>8 DEF HeadSynced
  <2>3. /\ queue' \in [Kinds -> Seq(Request)]
        /\ \A i \in DOMAIN queue'["permission"] : queue'["permission"][i].id \in Permissions
    <3>1. /\ queue' \in [Kinds -> Seq(Request)]
          /\ \A kind \in Kinds : \A i \in DOMAIN queue'[kind] :
               \/ i \in DOMAIN queue[kind] /\ queue'[kind][i] = queue[kind][i]
               \/ /\ kind = KindOf(id) /\ i = Len(queue[kind]) + 1
                  /\ queue'[kind][i].id = id /\ queue'[kind][i].client = current
      BY <1>2, <1>3, <1>4, <1>8, <2>2, JoinedFacts
    <3>2. id \in Permissions
      BY <1>2 DEF KindOf
    <3>3. \A i \in DOMAIN queue["permission"] : queue["permission"][i].id \in Permissions
      BY <1>1, PermissionIds DEF IInv
    <3> QED
      BY <3>1, <3>2, <3>3 DEF Kinds
  <2>4. Replies'
    <3>1. CASE UNCHANGED <<pump, outbox>>
      BY <3>1, <1>1, <1>2, <1>8, RepliesInboxTail DEF IInv
    <3>2. CASE PumpRuns(queue'["permission"], mode, outbox) /\ pump = None
      <4>1. queue'["permission"] \in Seq(Request)
        BY <2>3 DEF Kinds
      <4> QED
        BY <3>2, <4>1, <1>1, <1>2, <1>8, <2>3, RepliesPump DEF IInv
    <3> QED
      BY <2>1, <3>1, <3>2
  <2> QED
    BY <1>1, <1>2, <1>3, <1>8, <2>1, <2>4, JoinedStep
<1> QED
  BY <1>5, <1>6, <1>7, <1>8 DEF PermissionAsked

LEMMA QuestionAskedKeeps == ASSUME IInv, QuestionAsked PROVE IInv'
<1> DEFINE id == Head(inbox).id
           emptied == [queue EXCEPT !["question"] = <<>>]
<1>1. TypeOK' /\ TypeOK
  BY QuestionAskedTyped DEF IInv
<1>2. /\ inbox # <<>> /\ inbox' = Tail(inbox) /\ Head(inbox).type = "asked"
      /\ KindOf(id) = "question" /\ seen' = seen
      /\ UNCHANGED <<current, issued, agent, open, working, asked, withdrawn, skipped>>
  BY DEF QuestionAsked, Receives, worker
<1>3. id \in Ids
  <2>1. Head(inbox) \in Event
    BY <1>1, <1>2, TailFacts DEF TypeOK
  <2> QED
    BY <2>1, <1>2, EventTypes
<1>4. current # 0
  BY <1>2, ReceivedFacts
<1>5. CASE Refused({"question"}, InputSynced(emptied))
  <2>1. {"question"} \in SUBSET Kinds
    BY DEF Kinds
  <2>2. queue' = emptied
    BY <1>1, <1>5 DEF Refused, TypeOK
  <2>3. \A kind \in Kinds : queue'[kind] # <<>> => "input" \in InputSynced(emptied)
    BY <1>4, <2>2 DEF InputSynced
  <2> QED
    BY <1>1, <1>2, <1>5, <2>1, <2>3, RefusedStep
<1>6. CASE ~Full("question") /\ HeadSynced(Queued(id), "question") /\ UNCHANGED <<answers, outbox>>
  <2>1. UNCHANGED <<answering, pump, outbox>> /\ PumpMoves
    BY <1>6 DEF answers, PumpMoves
  <2>2. Replies'
    BY <1>1, <1>2, <2>1, RepliesInboxTail DEF IInv
  <2> QED
    BY <1>1, <1>2, <1>3, <1>6, <2>1, <2>2, JoinedStep
<1> QED
  BY <1>5, <1>6 DEF QuestionAsked

\* A request is taken from its queue, unless it is not there.
LEMMA LeftFacts ==
  ASSUME IInv, TypeOK', NEW id \in Ids, NEW gone \in SUBSET (DOMAIN queue[KindOf(id)]),
         \A n \in gone : queue[KindOf(id)][n].id = id,
         Shrunk(queue[KindOf(id)], queue'[KindOf(id)], gone),
         \A other \in Kinds : other # KindOf(id) => queue'[other] = queue[other]
  PROVE  /\ \A kind \in Kinds : \A i \in DOMAIN queue'[kind] :
              \E j \in DOMAIN queue[kind] : queue'[kind][i] = queue[kind][j]
         /\ \A kind \in Kinds : \A i, k \in DOMAIN queue'[kind] : \E j, l \in DOMAIN queue[kind] :
              queue'[kind][i] = queue[kind][j] /\ queue'[kind][k] = queue[kind][l] /\ (j = l => i = k)
         /\ \A x \in Ids : InQueue(x)' => InQueue(x)
         /\ \A x \in Ids : x # id /\ InQueue(x) => InQueue(x)'
         /\ id \in Once /\ gone # {} => ~InQueue(id)'
         /\ \A x \in Once : HeadOf(queue[KindOf(x)]) = x /\ InQueue(x)' => HeadOf(queue'[KindOf(x)]) = x
<1> DEFINE s == queue[KindOf(id)]
           t == queue'[KindOf(id)]
<1>1. KindOf(id) \in Kinds /\ s \in Seq(Request) /\ t \in Seq(Request)
      /\ \A x \in Ids : KindOf(x) \in Kinds
  BY KindFacts DEF IInv, TypeOK
<1>2. Shrunk(s, t, gone) /\ gone \in SUBSET (DOMAIN s) /\ \A n \in gone : s[n].id = id
  OBVIOUS
<1> HIDE DEF s, t
<1>3. \A i, k \in DOMAIN t : \E j, l \in DOMAIN s : t[i] = s[j] /\ t[k] = s[l] /\ (j = l => i = k)
  BY <1>1, <1>2, ShrunkFacts
<1>4. \A j \in DOMAIN s \ gone : \E i \in DOMAIN t : t[i] = s[j]
  BY <1>1, <1>2, ShrunkFacts
<1>5. (\A n, m \in gone : n = m) => \A i \in DOMAIN t : \E j \in DOMAIN s \ gone : t[i] = s[j]
  BY <1>1, <1>2, ShrunkFacts
<1>6. s # <<>> /\ 1 \notin gone => t # <<>> /\ Head(t) = Head(s)
  BY <1>1, <1>2, ShrunkFacts
<1>7. \A kind \in Kinds : \A i, k \in DOMAIN queue'[kind] : \E j, l \in DOMAIN queue[kind] :
        queue'[kind][i] = queue[kind][j] /\ queue'[kind][k] = queue[kind][l] /\ (j = l => i = k)
  <2> SUFFICES ASSUME NEW kind \in Kinds, NEW i \in DOMAIN queue'[kind], NEW k \in DOMAIN queue'[kind]
               PROVE  \E j, l \in DOMAIN queue[kind] :
                        queue'[kind][i] = queue[kind][j] /\ queue'[kind][k] = queue[kind][l] /\ (j = l => i = k)
    OBVIOUS
  <2>1. CASE kind = KindOf(id)
    <3>1. queue'[kind] = t /\ queue[kind] = s
      BY <2>1 DEF s, t
    <3>2. i \in DOMAIN t /\ k \in DOMAIN t
      BY <3>1
    <3>3. PICK j \in DOMAIN s, l \in DOMAIN s : t[i] = s[j] /\ t[k] = s[l] /\ (j = l => i = k)
      BY <3>2, <1>3
    <3> QED
      BY <3>1, <3>3
  <2>2. CASE kind # KindOf(id)
    <3>1. queue'[kind] = queue[kind]
      BY <2>2
    <3> QED
      BY <3>1, Zenon
  <2> QED
    BY <2>1, <2>2
<1>8. \A kind \in Kinds : \A i \in DOMAIN queue'[kind] :
        \E j \in DOMAIN queue[kind] : queue'[kind][i] = queue[kind][j]
  BY <1>7
<1>9. \A x \in Ids : InQueue(x)' => InQueue(x)
  BY <1>1, <1>8 DEF InQueue
<1>10. \A x \in Ids : x # id /\ InQueue(x) => InQueue(x)'
  <2> SUFFICES ASSUME NEW x \in Ids, x # id, InQueue(x) PROVE InQueue(x)'
    OBVIOUS
  <2>1. CASE KindOf(x) # KindOf(id)
    BY <2>1, <1>1 DEF InQueue
  <2>2. CASE KindOf(x) = KindOf(id)
    <3>1. PICK j \in DOMAIN s : s[j].id = x
      BY <2>2 DEF InQueue, s
    <3>2. j \notin gone
      BY <3>1, <1>2
    <3>3. \E i \in DOMAIN t : t[i].id = x
      BY <3>1, <3>2, <1>4
    <3> QED
      BY <3>3, <2>2 DEF InQueue, t
  <2> QED
    BY <2>1, <2>2
<1>11. ASSUME id \in Once, gone # {}
       PROVE  ~InQueue(id)'
  <2>1. \A i, j \in DOMAIN s : s[i].id = id /\ s[j].id = id => i = j
    BY <1>1, <1>11 DEF IInv, Distinct, s
  <2>2. \A i \in DOMAIN t : \E j \in DOMAIN s \ gone : t[i] = s[j]
    BY <2>1, <1>2, <1>5
  <2>3. \A i \in DOMAIN t : t[i].id # id
    BY <2>1, <2>2, <1>2, <1>11
  <2> QED
    BY <2>3 DEF InQueue, t
<1>12. \A x \in Once : HeadOf(queue[KindOf(x)]) = x /\ InQueue(x)' => HeadOf(queue'[KindOf(x)]) = x
  <2> SUFFICES ASSUME NEW x \in Once, HeadOf(queue[KindOf(x)]) = x, InQueue(x)'
               PROVE  HeadOf(queue'[KindOf(x)]) = x
    OBVIOUS
  <2>1. x \in Ids /\ x # None /\ KindOf(x) \in Kinds
    BY KindFacts DEF Once
  <2>2. CASE KindOf(x) # KindOf(id)
    BY <2>1, <2>2
  <2>3. CASE KindOf(x) = KindOf(id)
    <3>1. HeadOf(s) = x
      BY <2>3 DEF s
    <3>2. s # <<>> /\ HeadOf(s) = s[1].id /\ HeadOf(s) = Head(s).id
      BY <3>1, <2>1, <1>1, HeadOfType
    <3>3. 1 \notin gone
      BY <3>1, <3>2, <1>2, <1>11
    <3>4. HeadOf(t) = x
      BY <3>1, <3>2, <3>3, <1>1, <1>6, HeadOfType
    <3> QED
      BY <3>4, <2>3 DEF t
  <2> QED
    BY <2>2, <2>3
<1> QED
  BY <1>7, <1>8, <1>9, <1>10, <1>11, <1>12

\* Main hears that a request is settled.
LEMMA SettledStep ==
  ASSUME IInv, TypeOK', inbox # <<>>, inbox' = Tail(inbox), Head(inbox).type \in {"answered", "resolved"},
         NEW id \in Ids, id = Head(inbox).id, NEW gone \in SUBSET (DOMAIN queue[KindOf(id)]),
         \A n \in gone : queue[KindOf(id)][n].id = id,
         Shrunk(queue[KindOf(id)], queue'[KindOf(id)], gone),
         \A other \in Kinds : other # KindOf(id) => queue'[other] = queue[other],
         id \in Once /\ Head(inbox).type = "answered" /\ Head(inbox).ok => ~InQueue(id)',
         Head(inbox).type = "answered" /\ ~Head(inbox).ok => gone = {},
         CardIsHead', InputProtected', Replies', PumpMoves, answering' \in {answering, None},
         UNCHANGED <<seen, current, issued, agent, open, working, asked, withdrawn, skipped>>
  PROVE  IInv'
<1>1. /\ TypeOK /\ current # 0
      /\ \A i, j \in DOMAIN inbox' : inbox'[i].type = "asked" /\ inbox'[j].type = "asked"
           /\ inbox'[i].id = inbox'[j].id /\ inbox'[i].id \in Once => i = j
      /\ \A i \in DOMAIN inbox' : inbox'[i].type # "prompted" => inbox'[i].id \in asked
  BY ReceivedFacts DEF IInv
<1>2. /\ \A type, x : InInbox(type, x)' => InInbox(type, x)
      /\ \A x : InInbox("asked", x) => InInbox("asked", x)'
      /\ \A x : Accepted(x) =>
           Accepted(x)' \/ (Head(inbox).type = "answered" /\ Head(inbox).id = x /\ Head(inbox).ok)
      /\ \A x : Accepted(x)' => Accepted(x)
      /\ (Head(inbox).type = "answered" => Head(inbox).ok) => Accepted(id) \/ InInbox("resolved", id)
  <2>1. Head(inbox) = inbox[1] /\ 1 \in DOMAIN inbox
    BY <1>1, InboxTail
  <2>2. (Head(inbox).type = "answered" => Head(inbox).ok) => Accepted(id) \/ InInbox("resolved", id)
    BY <2>1 DEF Accepted, InInbox
  <2>3. /\ \A type, x : InInbox(type, x)' => InInbox(type, x)
        /\ \A x : Accepted(x)' => Accepted(x)
        /\ \A x : InInbox("asked", x) => InInbox("asked", x)'
    BY <1>1, InboxTail
  <2>4. \A x : Accepted(x) =>
           Accepted(x)' \/ (Head(inbox).type = "answered" /\ Head(inbox).id = x /\ Head(inbox).ok)
    BY <1>1, InboxTail
  <2> QED
    BY <2>2, <2>3, <2>4
<1>3. /\ \A kind \in Kinds : \A i \in DOMAIN queue'[kind] :
           \E j \in DOMAIN queue[kind] : queue'[kind][i] = queue[kind][j]
      /\ \A kind \in Kinds : \A i, k \in DOMAIN queue'[kind] : \E j, l \in DOMAIN queue[kind] :
           queue'[kind][i] = queue[kind][j] /\ queue'[kind][k] = queue[kind][l] /\ (j = l => i = k)
      /\ \A x \in Ids : InQueue(x)' => InQueue(x)
      /\ \A x \in Ids : x # id /\ InQueue(x) => InQueue(x)'
      /\ \A x \in Once : HeadOf(queue[KindOf(x)]) = x /\ InQueue(x)' => HeadOf(queue'[KindOf(x)]) = x
  BY LeftFacts
<1>4. Filed'
  BY <1>3 DEF IInv, Filed
<1>5. /\ \A type : InOutbox(type) => InOutbox(type)'
      /\ \/ pump' = pump
         \/ pump' = None
         \/ /\ pump' # None /\ ~pump'.stale /\ KindOf(pump'.id) = "permission" /\ pump'.id \in Ids
            /\ HeadOf(queue'["permission"]) = pump'.id /\ InQueue(pump.id)'
            /\ \E i \in DOMAIN queue'["permission"] : queue'["permission"][i].id = pump'.id
  BY <1>1, <1>4, PumpMovesFacts
<1>6. Offline'
  BY <1>1 DEF IInv, Offline
<1>7. \A kind \in Kinds : \A i \in DOMAIN queue'[kind] : queue'[kind][i].id \in asked
  BY <1>3 DEF IInv, Known
<1>8. Known'
  <2>1. pump' # None => pump'.id \in asked
    BY <1>5, <1>7 DEF IInv, Known, Kinds
  <2>2. answering' # None => answering'.id \in asked
    BY DEF IInv, Known
  <2>3. seen \subseteq asked /\ \A kind \in Kinds : \A i \in DOMAIN open[kind] : open[kind][i] \in asked
    BY DEF IInv, Known
  <2>4. \A i \in DOMAIN inbox' : inbox'[i].type # "prompted" => inbox'[i].id \in asked
    BY <1>1
  <2>5. seen' = seen /\ open' = open /\ asked' = asked
    OBVIOUS
  <2> QED
    BY <2>1, <2>2, <2>3, <2>4, <2>5, <1>7, Zenon DEF Known
<1>9. Distinct'
  <2>1. \A x \in Once, kind \in Kinds : \A i, j \in DOMAIN queue'[kind] :
          queue'[kind][i].id = x /\ queue'[kind][j].id = x => i = j
    BY <1>3 DEF IInv, Distinct
  <2> QED
    BY <2>1, <1>1 DEF IInv, Distinct
<1>10. Unheard'
  <2> SUFFICES ASSUME NEW x \in Once, InInbox("asked", x)'
               PROVE  /\ x \notin seen /\ ~InQueue(x)' /\ (answering' # None => answering'.id # x)
                      /\ (pump' # None => pump'.id # x)
                      /\ x \in ToSet(open[KindOf(x)]) \union withdrawn
    BY DEF Unheard, ToSet
  <2>1. InInbox("asked", x) /\ x \in Ids
    BY <1>2 DEF Once
  <2>2. /\ x \notin seen /\ ~InQueue(x) /\ (answering # None => answering.id # x)
        /\ (pump # None => pump.id # x) /\ x \in ToSet(open[KindOf(x)]) \union withdrawn
    BY <2>1 DEF IInv, Unheard
  <2>3. ~InQueue(x)'
    BY <2>1, <2>2, <1>3
  <2>4. pump' # None => pump'.id # x
    <3>1. \A i \in DOMAIN queue'["permission"] : KindOf(x) = "permission" => queue'["permission"][i].id # x
      BY <2>3 DEF InQueue
    <3> QED
      BY <3>1, <2>2, <1>5
  <2> QED
    BY <2>2, <2>3, <2>4
<1>11. Closed'
  BY <1>2 DEF IInv, Closed, ToSet
<1>12. ASSUME NEW a, HeadFor(a), a # None, a.id \in Once, InQueue(a.id)'
       PROVE  ~a.stale /\ HeadOf(queue'[KindOf(a.id)]) = a.id
  <2>1. a.id \in Ids
    BY <1>12 DEF Once
  <2>2. InQueue(a.id)
    BY <2>1, <1>3, <1>12
  <2> QED
    BY <2>2, <1>3, <1>12 DEF HeadFor
<1>13. AtHead'
  <2>1. HeadFor(answering)'
    BY <1>12 DEF HeadFor, IInv, AtHead, InQueue
  <2>2. HeadFor(pump)'
    <3>1. CASE pump' = pump
      BY <3>1, <1>12 DEF HeadFor, IInv, AtHead, InQueue
    <3>2. CASE pump' # pump
      BY <3>2, <1>5 DEF HeadFor
    <3> QED
      BY <3>1, <3>2
  <2> QED
    BY <2>1, <2>2 DEF AtHead
<1>14. Acknowledged'
  <2> SUFFICES ASSUME NEW kind \in Kinds, NEW i \in DOMAIN queue'[kind], queue'[kind][i].client = current,
                      queue'[kind][i].id \notin ToSet(open[kind]) \union withdrawn \union Reasked
               PROVE  Accepted(queue[kind][i].id)'
    BY DEF Acknowledged, ToSet
  <2> PICK x : x = queue'[kind][i].id
    OBVIOUS
  <2>1. Accepted(x)
    BY <1>3 DEF IInv, Acknowledged
  <2>2. x \in Ids /\ KindOf(x) = kind /\ x \in Once
    BY <1>4, KindFacts DEF Filed, Once
  <2>3. InQueue(x)'
    BY <2>2 DEF InQueue
  <2>4. ~(Head(inbox).type = "answered" /\ Head(inbox).id = x /\ Head(inbox).ok)
    <3> SUFFICES ASSUME Head(inbox).type = "answered", id = x, Head(inbox).ok PROVE FALSE
      OBVIOUS
    <3>1. ~InQueue(id)'
      BY <2>2
    <3> QED
      BY <3>1, <2>3 DEF InQueue
  <2>5. Accepted(x)'
    BY <2>1, <2>4, <1>2
  <2> QED
    BY <2>5 DEF Accepted
<1>15. OpenIsQueued'
  <2> SUFFICES ASSUME NEW x \in Ids \ (Reasked \union skipped), x \in ToSet(open[KindOf(x)])
               PROVE  InQueue(x)' \/ InInbox("asked", x)' \/ InOutbox("cancel")'
    BY DEF OpenIsQueued, ToSet
  <2>1. InQueue(x) \/ InInbox("asked", x) \/ InOutbox("cancel")
    BY DEF IInv, OpenIsQueued
  <2>2. CASE x # id
    BY <2>1, <2>2, <1>2, <1>3, <1>5
  <2>3. CASE x = id
    <3>1. Head(inbox).type = "answered" /\ ~Head(inbox).ok
      BY <2>3, <1>2 DEF IInv, Closed, Once
    <3>2. queue'[KindOf(x)] = queue[KindOf(x)]
      BY <2>3, <3>1 DEF Shrunk
    <3> QED
      BY <2>1, <3>2, <1>2, <1>5 DEF InQueue
  <2> QED
    BY <2>2, <2>3
<1> QED
  BY <1>4, <1>6, <1>8, <1>9, <1>10, <1>11, <1>13, <1>14, <1>15 DEF IInv

\* The array of an answer under way is shifted: the head leaves it.
LEMMA ShiftedFacts ==
  ASSUME IInv, NEW answer \in Answer, HeadFor(answer), HeadOf(queue[KindOf(answer.id)]) = answer.id
  PROVE  \E gone \in SUBSET (DOMAIN queue[KindOf(answer.id)]) :
           /\ \A n \in gone : queue[KindOf(answer.id)][n].id = answer.id
           /\ Shrunk(queue[KindOf(answer.id)], Shifted(answer)[KindOf(answer.id)], gone)
           /\ \A other \in Kinds : other # KindOf(answer.id) => Shifted(answer)[other] = queue[other]
           /\ answer.id \in Once => gone # {}
<1> DEFINE kind == KindOf(answer.id)
           s == queue[kind]
<1>1. kind \in Kinds /\ s \in Seq(Request) /\ queue \in [Kinds -> Seq(Request)] /\ answer.id # None /\ answer.id \in Ids
      /\ answer # None
  BY AnswerTypes, KindFacts DEF IInv, TypeOK
<1>2. s # <<>> /\ 1 \in DOMAIN s /\ s[1].id = answer.id
  BY <1>1, HeadOfType
<1>3. CASE answer.stale
  <2>1. Shifted(answer) = queue
    BY <1>3 DEF Shifted
  <2>2. InQueue(answer.id)
    BY <1>2 DEF InQueue
  <2>3. answer.id \notin Once
    BY <1>1, <1>3, <2>2 DEF HeadFor
  <2>4. Shrunk(s, s, {}) /\ {} \in SUBSET (DOMAIN s)
    BY DEF Shrunk
  <2> QED
    BY <2>1, <2>3, <2>4
<1>4. CASE ~answer.stale
  <2>1. Shifted(answer) = [queue EXCEPT ![kind] = Tail(s)]
    BY <1>4 DEF Shifted
  <2>2. Shifted(answer)[kind] = Tail(s) /\ \A other \in Kinds : other # kind => Shifted(answer)[other] = queue[other]
    BY <1>1, <2>1
  <2>3. /\ Tail(s) \in Seq(Request) /\ Len(Tail(s)) = Len(s) - 1 /\ Len(s) \in Nat
        /\ DOMAIN Tail(s) = 1 .. (Len(s) - 1)
        /\ \A i \in DOMAIN Tail(s) : i + 1 \in DOMAIN s /\ Tail(s)[i] = s[i + 1]
    BY <1>1, <1>2, TailFacts, HeadTailProperties
  <2>4. /\ DOMAIN Tail(s) = 1 .. (Len(s) - 1) /\ Len(Tail(s)) = Len(s) - 1
        /\ \A i \in 1 .. (Len(s) - 1) : Tail(s)[i] = IF i < 1 THEN s[i] ELSE s[i + 1]
    BY <2>3
  <2>5. Shrunk(s, Tail(s), {1})
    BY <2>4 DEF Shrunk
  <2>6. {1} \in SUBSET (DOMAIN s) /\ \A n \in {1} : s[n].id = answer.id
    BY <1>2
  <2> QED
    BY <2>2, <2>5, <2>6
<1> QED
  BY <1>3, <1>4

\* Main takes the reply to the user's answer; the pump does nothing.
LEMMA RepliesUserTail ==
  ASSUME TypeOK, Replies, inbox # <<>>, inbox' = Tail(inbox), Head(inbox).type = "answered", Head(inbox).by = "user",
         answering' = None, UNCHANGED <<outbox, pump, current>>
  PROVE  Replies'
<1>1. /\ \A i \in DOMAIN inbox' : i + 1 \in DOMAIN inbox /\ inbox'[i] = inbox[i + 1] /\ i + 1 # 1 /\ i \in Nat
      /\ Head(inbox) = inbox[1] /\ 1 \in DOMAIN inbox
  BY InboxTail
<1>2. \A i \in DOMAIN inbox' : inbox'[i].type = "answered" => inbox'[i].by # "user"
  BY <1>1 DEF Replies
<1>3. \A i \in DOMAIN outbox : outbox[i].type = "answer" => outbox[i].by # "user"
  BY <1>1 DEF Replies
<1>4. \A i, j \in DOMAIN inbox' :
        inbox'[i].type = "answered" /\ inbox'[j].type = "answered" /\ inbox'[i].by = inbox'[j].by => i = j
  <2>1. \A i, j \in DOMAIN inbox' :
          inbox'[i].type = "answered" /\ inbox'[j].type = "answered" /\ inbox'[i].by = inbox'[j].by => i + 1 = j + 1
    BY <1>1 DEF Replies
  <2> QED
    BY <2>1, <1>1
<1>5. \A i \in DOMAIN outbox', j \in DOMAIN inbox' :
        outbox'[i].type = "answer" /\ inbox'[j].type = "answered" => outbox'[i].by # inbox'[j].by
  BY <1>1 DEF Replies
<1>6. \A i \in DOMAIN inbox' : inbox'[i].type = "resolved" => KindOf(inbox'[i].id) = "question"
  BY <1>1 DEF Replies
<1>7. \A i \in DOMAIN inbox' : inbox'[i].type = "answered" /\ inbox'[i].by = "pump" => Owns(pump, inbox'[i])
  BY <1>1 DEF Replies
<1> QED
  BY <1>2, <1>3, <1>4, <1>5, <1>6, <1>7 DEF Replies, Owns

LEMMA QuestionResolvedKeeps == ASSUME IInv, QuestionResolved PROVE IInv'
<1> DEFINE id == Head(inbox).id
           left == [queue EXCEPT !["question"] = Spliced(@, id)]
           s == queue["question"]
           gone == {i \in DOMAIN s : s[i].id = id}
<1>1. TypeOK' /\ TypeOK
  BY QuestionResolvedTyped DEF IInv
<1>2. /\ inbox # <<>> /\ inbox' = Tail(inbox) /\ Head(inbox).type = "resolved"
      /\ UNCHANGED <<seen, answering, pump, outbox, current, issued, agent, open, working, asked,
                     withdrawn, skipped>>
  BY DEF QuestionResolved, Receives, worker, answers
<1>3. id \in Ids /\ KindOf(id) = "question" /\ "question" \in Kinds
  <2>1. Head(inbox) \in Event /\ Head(inbox) = inbox[1] /\ 1 \in DOMAIN inbox
    BY <1>1, <1>2, TailFacts DEF TypeOK
  <2> QED
    BY <2>1, <1>2, EventTypes DEF IInv, Replies, Kinds
<1>4. s \in Seq(Request) /\ current # 0
  BY <1>1, <1>2, <1>3, ReceivedFacts DEF TypeOK
<1>5. Spliced(s, id) \in Seq(Request) /\ Shrunk(s, Spliced(s, id), gone)
  BY <1>4, SplicedFacts
<1>6. left \in [Kinds -> Seq(Request)] /\ left["question"] = Spliced(s, id)
      /\ \A other \in Kinds : other # "question" => left[other] = queue[other]
  BY <1>1, <1>3, <1>5 DEF TypeOK
<1>7. gone \in SUBSET (DOMAIN s) /\ \A n \in gone : s[n].id = id
  OBVIOUS
<1> HIDE DEF gone, left
<1>8. queue' = left /\ CardIsHead' /\ InputProtected'
  <2>1. CASE HeadSynced(left, "question")
    BY <2>1, <1>2, <1>3, <1>4, <1>6, SyncedFacts
  <2>2. CASE left = queue /\ UNCHANGED <<card, queue, protection>>
    BY <2>2, <1>2 DEF IInv, Filed, CardIsHead, InputProtected, HeadOf
  <2> QED
    BY <2>1, <2>2 DEF QuestionResolved, left
<1>9. Replies'
  BY <1>1, <1>2, RepliesInboxTail DEF IInv
<1>10. PumpMoves
  BY <1>2 DEF PumpMoves
<1>11. /\ gone \in SUBSET (DOMAIN queue[KindOf(id)]) /\ \A n \in gone : queue[KindOf(id)][n].id = id
       /\ Shrunk(queue[KindOf(id)], queue'[KindOf(id)], gone)
       /\ \A other \in Kinds : other # KindOf(id) => queue'[other] = queue[other]
  BY <1>3, <1>5, <1>6, <1>7, <1>8
<1> QED
  BY <1>1, <1>2, <1>3, <1>8, <1>9, <1>10, <1>11, SettledStep

LEMMA UserAnsweredKeeps == ASSUME IInv, UserAnswered PROVE IInv'
<1>1. PICK id : id = Head(inbox).id
  OBVIOUS
<1> DEFINE kind == KindOf(id)
<1>2. TypeOK' /\ TypeOK
  BY UserAnsweredTyped DEF IInv
<1>3. /\ inbox # <<>> /\ inbox' = Tail(inbox) /\ Head(inbox).type = "answered" /\ Head(inbox).by = "user"
      /\ answering' = None
      /\ UNCHANGED <<seen, mode, current, issued, agent, open, working, asked, withdrawn, skipped>>
  BY DEF UserAnswered, Receives, worker
<1>4. id \in Ids /\ kind \in Kinds /\ answering \in Answer /\ answering.id = id /\ answering # None /\ current # 0
  <2>1. Head(inbox) \in Event /\ Head(inbox) = inbox[1] /\ 1 \in DOMAIN inbox
    BY <1>2, <1>3, TailFacts DEF TypeOK
  <2>2. Owns(answering, Head(inbox))
    BY <2>1, <1>3 DEF IInv, Replies
  <2>3. id \in Ids
    BY <2>1, <1>1, <1>3, EventTypes
  <2> QED
    BY <2>2, <2>3, <1>1, <1>2, <1>3, KindFacts, ReceivedFacts DEF Owns, TypeOK
<1>5. CASE /\ Head(inbox).ok /\ HeadOf(queue[kind]) = id /\ HeadSynced(Shifted(answering), kind)
           /\ \/ kind = "permission" /\ mode = "auto" /\ PumpCalled(queue'[kind], mode)
              \/ UNCHANGED <<pump, spinning, outbox>>
  <2>1. PICK gone \in SUBSET (DOMAIN queue[kind]) :
           /\ \A n \in gone : queue[kind][n].id = id
           /\ Shrunk(queue[kind], Shifted(answering)[kind], gone)
           /\ \A other \in Kinds : other # kind => Shifted(answering)[other] = queue[other]
           /\ id \in Once => gone # {}
    <3>1. HeadFor(answering) /\ HeadOf(queue[KindOf(answering.id)]) = answering.id
      BY <1>4, <1>5 DEF IInv, AtHead
    <3> QED
      BY <3>1, <1>4, ShiftedFacts
  <2>2. Shifted(answering) \in [Kinds -> Seq(Request)]
    BY <1>2, <1>4, <1>5, ShiftedType
  <2>3. queue' = Shifted(answering) /\ CardIsHead' /\ InputProtected'
    BY <2>1, <2>2, <1>3, <1>4, <1>5, SyncedFacts
  <2>4. id \in Once => ~InQueue(id)'
    BY <2>1, <2>3, <1>2, <1>4, LeftFacts
  <2>5. \/ UNCHANGED <<pump, outbox>>
        \/ pump = None /\ kind = "permission" /\ PumpRuns(queue'["permission"], mode, outbox)
    BY <1>5 DEF PumpCalled
  <2>6. PumpMoves
    BY <2>5 DEF PumpMoves
  <2>7. Replies'
    <3>1. CASE UNCHANGED <<pump, outbox>>
      BY <3>1, <1>2, <1>3, RepliesUserTail DEF IInv
    <3>2. CASE pump = None /\ kind = "permission" /\ PumpRuns(queue'["permission"], mode, outbox)
      <4>1. queue'["permission"] \in Seq(Request)
        BY <2>2, <2>3 DEF Kinds
      <4>2. \A i \in DOMAIN queue'["permission"] : queue'["permission"][i].id \in Permissions
        <5>1. \A k \in Kinds : \A i \in DOMAIN queue'[k] : \E j \in DOMAIN queue[k] : queue'[k][i] = queue[k][j]
          BY <2>1, <2>3, <1>2, <1>4, LeftFacts
        <5>2. \A j \in DOMAIN queue["permission"] : queue["permission"][j].id \in Permissions
          BY <1>2, PermissionIds DEF IInv
        <5> QED
          BY <5>1, <5>2 DEF Kinds
      <4> QED
        BY <3>2, <4>1, <4>2, <1>2, <1>3, RepliesPump DEF IInv
    <3> QED
      BY <2>5, <3>1, <3>2
  <2>8. Shrunk(queue[kind], queue'[kind], gone) /\ \A other \in Kinds : other # kind => queue'[other] = queue[other]
    BY <2>1, <2>3
  <2> QED
    BY <1>1, <1>2, <1>3, <1>4, <1>5, <2>1, <2>3, <2>4, <2>6, <2>7, <2>8, SettledStep
<1>6. CASE /\ ~Head(inbox).ok \/ HeadOf(queue[kind]) # id
           /\ UNCHANGED <<card, queue, protection, pump, outbox>>
  <2>1. {} \in SUBSET (DOMAIN queue[kind]) /\ \A n \in {} : queue[kind][n].id = id
    OBVIOUS
  <2>2. Shrunk(queue[kind], queue'[kind], {}) /\ \A other \in Kinds : other # kind => queue'[other] = queue[other]
    BY <1>6 DEF Shrunk
  <2>3. Head(inbox).ok /\ id \in Once => ~InQueue(id)'
    BY <1>4, <1>6 DEF IInv, AtHead, HeadFor, InQueue
  <2>4. CardIsHead' /\ InputProtected' /\ PumpMoves
    BY <1>3, <1>6 DEF IInv, Filed, CardIsHead, InputProtected, HeadOf, PumpMoves
  <2>5. Replies'
    BY <1>2, <1>3, <1>6, RepliesUserTail DEF IInv
  <2> QED
    BY <1>1, <1>2, <1>3, <1>4, <2>1, <2>2, <2>3, <2>4, <2>5, SettledStep
<1> QED
  BY <1>1, <1>5, <1>6 DEF UserAnswered

LEMMA PumpAnsweredKeeps == ASSUME IInv, PumpAnswered PROVE IInv'
<1>1. PICK id : id = Head(inbox).id
  OBVIOUS
<1>2. TypeOK' /\ TypeOK
  BY PumpAnsweredTyped DEF IInv
<1>3. /\ inbox # <<>> /\ inbox' = Tail(inbox) /\ Head(inbox).type = "answered" /\ Head(inbox).by = "pump"
      /\ answering' = answering
      /\ UNCHANGED <<seen, current, issued, agent, open, working, asked, withdrawn, skipped>>
  BY DEF PumpAnswered, Receives, worker
<1>4. /\ id \in Ids /\ KindOf(id) = "permission" /\ "permission" \in Kinds
      /\ pump \in Answer /\ pump.id = id /\ pump # None /\ current # 0
  <2>1. Head(inbox) \in Event /\ Head(inbox) = inbox[1] /\ 1 \in DOMAIN inbox
    BY <1>2, <1>3, TailFacts DEF TypeOK
  <2>2. Owns(pump, Head(inbox)) /\ (pump # None => KindOf(pump.id) = "permission")
    BY <2>1, <1>3 DEF IInv, Replies
  <2>3. id \in Ids
    BY <2>1, <1>1, <1>3, EventTypes
  <2> QED
    BY <2>2, <2>3, <1>1, <1>2, <1>3, ReceivedFacts DEF Owns, TypeOK, Kinds
<1>5. ASSUME NEW q \in Seq(Request), NEW permissionMode, PumpRuns(q, permissionMode, outbox),
             \A i \in DOMAIN q : q[i].id \in Permissions
      PROVE  Replies'
  BY <1>2, <1>3, <1>5, RepliesPump DEF IInv
<1>6. CASE /\ Head(inbox).ok /\ HeadOf(queue["permission"]) = id /\ HeadSynced(Shifted(pump), "permission")
           /\ PumpRuns(queue'["permission"], mode, outbox)
  <2>1. PICK gone \in SUBSET (DOMAIN queue["permission"]) :
           /\ \A n \in gone : queue["permission"][n].id = id
           /\ Shrunk(queue["permission"], Shifted(pump)["permission"], gone)
           /\ \A other \in Kinds : other # "permission" => Shifted(pump)[other] = queue[other]
           /\ id \in Once => gone # {}
    <3>1. HeadFor(pump) /\ HeadOf(queue[KindOf(pump.id)]) = pump.id
      BY <1>4, <1>6 DEF IInv, AtHead
    <3> QED
      BY <3>1, <1>4, ShiftedFacts
  <2>2. Shifted(pump) \in [Kinds -> Seq(Request)]
    BY <1>2, <1>4, <1>6, ShiftedType
  <2>3. queue' = Shifted(pump) /\ CardIsHead' /\ InputProtected'
    BY <2>1, <2>2, <1>3, <1>4, <1>6, SyncedFacts
  <2>4. Shrunk(queue["permission"], queue'["permission"], gone)
        /\ \A other \in Kinds : other # "permission" => queue'[other] = queue[other]
    BY <2>1, <2>3
  <2>5. /\ id \in Once => ~InQueue(id)'
        /\ \A k \in Kinds : \A i \in DOMAIN queue'[k] : \E j \in DOMAIN queue[k] : queue'[k][i] = queue[k][j]
    BY <2>1, <2>4, <1>2, <1>4, LeftFacts
  <2>6. Replies'
    <3>1. queue'["permission"] \in Seq(Request)
      BY <2>2, <2>3, <1>4
    <3>2. \A i \in DOMAIN queue'["permission"] : queue'["permission"][i].id \in Permissions
      <4>1. \A j \in DOMAIN queue["permission"] : queue["permission"][j].id \in Permissions
        BY <1>2, PermissionIds DEF IInv
      <4> QED
        BY <4>1, <2>5, <1>4
    <3> QED
      BY <3>1, <3>2, <1>5, <1>6
  <2>7. PumpMoves
    BY <1>6 DEF PumpMoves
  <2> QED
    BY <1>1, <1>2, <1>3, <1>4, <1>6, <2>1, <2>3, <2>4, <2>5, <2>6, <2>7, SettledStep
<1>7. CASE /\ ~Head(inbox).ok \/ HeadOf(queue["permission"]) # id
           /\ UNCHANGED <<card, queue, protection>>
           /\ PumpRuns(queue["permission"], mode, outbox) \/ (pump' = None /\ UNCHANGED outbox)
  <2>1. {} \in SUBSET (DOMAIN queue["permission"]) /\ \A n \in {} : queue["permission"][n].id = id
    OBVIOUS
  <2>2. Shrunk(queue["permission"], queue'["permission"], {})
        /\ \A other \in Kinds : other # "permission" => queue'[other] = queue[other]
    BY <1>7 DEF Shrunk
  <2>3. Head(inbox).ok /\ id \in Once => ~InQueue(id)'
    BY <1>4, <1>7 DEF IInv, AtHead, HeadFor, InQueue
  <2>4. CardIsHead' /\ InputProtected' /\ PumpMoves
    BY <1>3, <1>7 DEF IInv, Filed, CardIsHead, InputProtected, HeadOf, PumpMoves
  <2>5. Replies'
    <3>1. CASE PumpRuns(queue["permission"], mode, outbox)
      BY <3>1, <1>2, <1>5, PermissionIds DEF IInv
    <3>2. CASE pump' = None /\ UNCHANGED outbox
      <4>1. /\ \A i \in DOMAIN inbox' : i + 1 \in DOMAIN inbox /\ inbox'[i] = inbox[i + 1] /\ i + 1 # 1 /\ i \in Nat
            /\ Head(inbox) = inbox[1] /\ 1 \in DOMAIN inbox
        BY <1>2, <1>3, InboxTail
      <4>2. \A i \in DOMAIN inbox' : inbox'[i].type = "answered" => inbox'[i].by # "pump"
        BY <4>1, <1>3 DEF IInv, Replies
      <4>3. \A i \in DOMAIN outbox : outbox[i].type = "answer" => outbox[i].by # "pump"
        BY <4>1, <1>3 DEF IInv, Replies
      <4>4. \A i, j \in DOMAIN inbox' :
              inbox'[i].type = "answered" /\ inbox'[j].type = "answered" /\ inbox'[i].by = inbox'[j].by => i = j
        <5>1. \A i, j \in DOMAIN inbox' :
                inbox'[i].type = "answered" /\ inbox'[j].type = "answered" /\ inbox'[i].by = inbox'[j].by
                  => i + 1 = j + 1
          BY <4>1 DEF IInv, Replies
        <5> QED
          BY <5>1, <4>1
      <4>5. \A i \in DOMAIN outbox, j \in DOMAIN inbox' :
              outbox[i].type = "answer" /\ inbox'[j].type = "answered" => outbox[i].by # inbox'[j].by
        BY <4>1 DEF IInv, Replies
      <4>6. \A i \in DOMAIN inbox' : inbox'[i].type = "resolved" => KindOf(inbox'[i].id) = "question"
        BY <4>1 DEF IInv, Replies
      <4>7. \A i \in DOMAIN inbox' : inbox'[i].type = "answered" /\ inbox'[i].by = "user" => Owns(answering, inbox'[i])
        BY <4>1 DEF IInv, Replies
      <4> QED
        BY <4>2, <4>3, <4>4, <4>5, <4>6, <4>7, <3>2, <1>3 DEF IInv, Replies, Owns
    <3> QED
      BY <1>7, <3>1, <3>2
  <2> QED
    BY <1>1, <1>2, <1>3, <1>4, <2>1, <2>2, <2>3, <2>4, <2>5, SettledStep
<1> QED
  BY <1>1, <1>4, <1>6, <1>7 DEF PumpAnswered, PumpAgain, record

-----------------------------------------------------------------------------
(***************************************************************************)
(* The theorems.                                                           *)
(***************************************************************************)
Inductive == IInv /\ Prompted

LEMMA InitEstablishes == Init => Inductive
<1> SUFFICES ASSUME Init PROVE Inductive
  OBVIOUS
<1>1. /\ queue = Empty /\ open = Empty /\ card = NoCards /\ outbox = <<>> /\ inbox = <<>>
      /\ DOMAIN <<>> = {} /\ ToSet(<<>>) = {} /\ Len(<<>>) = 0
      /\ \A kind \in Kinds : queue[kind] = <<>> /\ open[kind] = <<>>
  BY EmptyFacts DEF Init, Empty
<1>2. TypeOK
  <2>1. queue \in [Kinds -> Seq(Request)] /\ open \in [Kinds -> Seq(Ids)]
        /\ outbox \in Seq(Command) /\ inbox \in Seq(Event) /\ card \in [Kinds -> Ids \union {None}]
    BY <1>1, EmptySeq DEF Empty, NoCards
  <2>2. turn \in [Turns -> [stage : {"none", "connecting", "sent", "over"}, client : 0 .. MaxClients]]
    BY SizesAssumption DEF Init
  <2>3. \A kind \in Kinds : Len(queue[kind]) <= MaxQueue
    BY <1>1, SizesAssumption
  <2>4. /\ status \in {"idle", "running", "waiting", "failed"} /\ mode \in {"ask", "auto"}
        /\ answering \in Answer \union {None} /\ pump \in Answer \union {None} /\ spinning \in BOOLEAN
        /\ seen \subseteq Permissions /\ protection \subseteq {"turn", "input"}
    BY DEF Init
  <2>5. /\ lifecycle \in 0 .. MaxTurns /\ cancelled \in 0 .. MaxTurns /\ pathChanges \in 0 .. MaxPathChanges
        /\ current \in 0 .. MaxClients /\ issued \in 0 .. MaxClients
    BY SizesAssumption DEF Init
  <2>6. /\ agent = "down" /\ working \subseteq Turns /\ asked \subseteq Ids
        /\ withdrawn \subseteq Ids /\ skipped \subseteq Ids
    BY DEF Init
  <2> QED
    BY <2>1, <2>2, <2>3, <2>4, <2>5, <2>6 DEF TypeOK
<1>3. Replies /\ Offline
  BY <1>1 DEF Init, Replies, Offline
<1>4. Filed
  BY <1>1 DEF Init, Filed, CardIsHead, InputProtected, HeadOf, NoCards
<1>5. Known /\ Distinct /\ Acknowledged
  BY <1>1 DEF Init, Known, Distinct, Acknowledged
<1>6. Unheard /\ Closed
  BY <1>1 DEF Unheard, Closed, Accepted, InInbox
<1>7. AtHead
  BY DEF Init, AtHead, HeadFor
<1>8. OpenIsQueued
  BY <1>1, KindFacts DEF OpenIsQueued
<1>9. Prompted
  BY DEF Init, Prompted
<1> QED
  BY <1>2, <1>3, <1>4, <1>5, <1>6, <1>7, <1>8, <1>9 DEF Inductive, IInv

LEMMA StepPreserves == Inductive /\ [Next]_vars => Inductive'
<1> SUFFICES ASSUME IInv, Prompted, [Next]_vars PROVE Inductive'
  BY DEF Inductive
<1>1. Prompted'
  BY PromptedStep DEF IInv
<1> SUFFICES IInv'
  BY <1>1 DEF Inductive
<1>2. CASE Prompt \/ ConnectionFails \/ CancelTurn \/ Reconnect
  BY <1>2, PromptKeeps, ConnectionFailsKeeps, CancelTurnKeeps, ReconnectKeeps
<1>3. CASE ChangeEffort \/ SetGrokCliPath \/ Evict \/ ClientExits
  BY <1>3, DetachKeeps
<1>4. CASE \E t \in Turns : PromptSent(t) \/ StalePromptEnds(t)
  BY <1>4, PromptSentKeeps, StalePromptEndsKeeps
<1>5. CASE \E kind \in Kinds : UserAnswers(kind) \/ UserAnswersOffline(kind)
  BY <1>5, UserAnswersKeeps, UserAnswersOfflineKeeps
<1>6. CASE \E permissionMode \in {"ask", "auto"} : SetMode(permissionMode)
  BY <1>6, SetModeKeeps
<1>7. CASE MainHandles
  <2>1. CASE PromptEnds \/ PermissionAsked \/ QuestionAsked \/ QuestionResolved
    BY <2>1, PromptEndsKeeps, PermissionAskedKeeps, QuestionAskedKeeps, QuestionResolvedKeeps
  <2>2. CASE UserAnswered \/ PumpAnswered \/ StaleUserAnswerEnds \/ StalePumpEnds
    BY <2>2, UserAnsweredKeeps, PumpAnsweredKeeps, StaleUserAnswerEndsKeeps, StalePumpEndsKeeps
  <2> QED
    BY <1>7, <2>1, <2>2 DEF MainHandles
<1>8. CASE WorkerHandles
  BY <1>8, WorkerPromptsKeeps, WorkerCancelsKeeps, WorkerAnswersKeeps DEF WorkerHandles
<1>9. CASE \E id \in Ids, options \in BOOLEAN : AgentAsks(id, options)
  BY <1>9, AgentAsksKeeps
<1>10. CASE \E id \in Questions : AgentResolves(id)
  BY <1>10, AgentResolvesKeeps
<1>11. CASE \E t \in Turns, ok \in BOOLEAN : AgentFinishes(t, ok)
  BY <1>11, AgentFinishesKeeps
<1>12. CASE AgentLoads \/ StartFails \/ AgentEnds
  BY <1>12, AgentLoadsKeeps, StartFailsKeeps, AgentEndsKeeps
<1>13. CASE UNCHANGED vars
  <2>1. UNCHANGED <<status, card, mode, queue, seen, turn, lifecycle, cancelled, answering, pump, spinning,
                    pathChanges, current, issued, protection, outbox, inbox, agent, open,
                    working, asked, withdrawn, skipped>>
    BY <1>13 DEF vars, record, queues, turns, answers, managed, worker, channels
  <2>2. TypeOK'
    BY <2>1 DEF IInv, TypeOK
  <2> QED
    BY <2>1, <2>2, RepliesFrame, OfflineFrame, FiledFrame, KnownFrame, DistinctFrame, UnheardFrame, ClosedFrame,
       AtHeadFrame, AcknowledgedFrame, OpenIsQueuedFrame DEF IInv
<1> QED
  BY <1>2, <1>3, <1>4, <1>5, <1>6, <1>7, <1>8, <1>9, <1>10, <1>11, <1>12, <1>13 DEF Next

\* In every state the queues, their cards, the two channels, the answers under way and the
\* worker's tables agree (AppController's handlers with SessionManager and AcpClient).
THEOREM Invariance == Spec => []Inductive
<1> QED
  BY InitEstablishes, StepPreserves, PTL DEF Spec

\* Every variable keeps its type: in particular no queue grows beyond its cap of 64, and
\* every message names a request or a turn (the handlers of onPermission and onInteraction).
THEOREM TypeCorrect == Spec => []TypeOK
<1>1. Inductive => TypeOK
  BY DEF Inductive, IInv
<1> QED
  BY <1>1, Invariance, PTL

\* The card the renderer shows is the head of its queue, whatever interleaves
\* (syncPermissionHead, syncInteractionHead and every place that deletes a queue).
THEOREM CardIsHeadAlways == Spec => []CardIsHead
<1>1. Inductive => CardIsHead
  BY DEF Inductive, IInv, Filed
<1> QED
  BY <1>1, Invariance, PTL

\* A session with a queued request of its current client is protected from eviction
\* (syncInputProtection and the protection onPermission takes).
THEOREM InputProtectedAlways == Spec => []InputProtected
<1>1. Inductive => InputProtected
  BY DEF Inductive, IInv, Filed
<1> QED
  BY <1>1, Invariance, PTL

\* No request is lost between the worker and the queues: what the agent waits for is queued,
\* on its way, or about to be cancelled, except what a cancel left open because it found no
\* session (onPermission and onInteraction with AcpClient.cancel).
THEOREM OpenIsQueuedAlways == Spec => []OpenIsQueued
<1>1. Inductive => OpenIsQueued
  BY DEF Inductive, IInv
<1> QED
  BY <1>1, Invariance, PTL

\* One answer per request: what left the worker's table for an answer leaves the queue with
\* the reply (answerPermission, answerInteraction and pumpAutoPermissions).
THEOREM AnsweredLeavesAlways == Spec => []AnsweredLeaves
<1>1. Inductive => AnsweredLeaves
  BY DEF Inductive, IInv, Acknowledged, AnsweredLeaves, Accepted, InInbox
<1> QED
  BY <1>1, Invariance, PTL
=============================================================================
