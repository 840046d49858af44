--------------------------- MODULE ServicesProofs ---------------------------
(***************************************************************************)
(* TLAPS proofs about the services of main, each in a behaviour of its     *)
(* own, for any number of sessions, requests and steps.                    *)
(***************************************************************************)
EXTENDS MCServices, HoldersProofs

-----------------------------------------------------------------------------
(* A panel of the renderer: it shows the answer to its newest request,     *)
(* which is about the project that it shows as selected.                   *)

ShownOf == Projects \union {Looks!None}
Asked == [number : Nat, expected : ShownOf, of : ShownOf, at : ShownOf]
Told == [kind : {"snapshot", "answer"}, of : ShownOf, number : Nat, expected : ShownOf]

\* What is asked or answered is not newer than the newest request, which is about the project that is shown.
NotNewer(ask, newest, selected) == ask.number <= newest /\ (ask.number = newest => ask.expected = selected)
LooksTyped == h \in Nat /\ j \in {0, h} /\ b \in ShownOf /\ f \in ShownOf /\ d \subseteq Asked /\ e \in Seq(Told)
AsksAreOld ==
  /\ \A x \in d : NotNewer(x, h, f)
  /\ \A x \in DOMAIN e : e[x].kind = "answer" => NotNewer(e[x], h, f)

LooksInv == LooksTyped /\ AsksAreOld /\ Looks!ShowsTheSelected /\ Looks!WaitsForAnAnswer

LEMMA LooksInit == Looks!Init => LooksInv
BY DEF Looks!Init, LooksInv, LooksTyped, AsksAreOld, ShownOf, Looks!ShowsTheSelected, Looks!WaitsForAnAnswer

LEMMA CallIsAsked ==
  ASSUME NEW number \in Nat, NEW of \in ShownOf
  PROVE  Looks!Call(number, of) \in Asked /\ Looks!Call(number, of).number = number /\ Looks!Call(number, of).expected = of
BY DEF Looks!Call, Asked, ShownOf

\* A newer number makes all that was asked old.
LEMMA NewerKeeps ==
  ASSUME LooksTyped, AsksAreOld, NEW newest \in Nat, newest > h, NEW selected
  PROVE  /\ \A x \in d : NotNewer(x, newest, selected) /\ x.number # newest
         /\ \A x \in DOMAIN e : e[x].kind = "answer" => NotNewer(e[x], newest, selected) /\ e[x].number # newest
<1>1. ASSUME NEW x \in d PROVE NotNewer(x, newest, selected) /\ x.number # newest
  BY DEF LooksTyped, AsksAreOld, Asked, NotNewer
<1>2. ASSUME NEW x \in DOMAIN e, e[x].kind = "answer" PROVE NotNewer(e[x], newest, selected) /\ e[x].number # newest
  <2>1. e[x] \in Told
    BY DEF LooksTyped
  <2>2. e[x].number \in Nat
    BY <2>1 DEF Told
  <2> QED
    BY <1>2, <2>2 DEF LooksTyped, AsksAreOld, NotNewer
<1> QED
  BY <1>1, <1>2

LEMMA WireTail ==
  ASSUME NEW told \in Seq(Told), told # <<>>
  PROVE  /\ Tail(told) \in Seq(Told) /\ 1 \in DOMAIN told /\ Head(told) = told[1] /\ told[1] \in Told
         /\ \A x \in DOMAIN Tail(told) : x + 1 \in DOMAIN told /\ Tail(told)[x] = told[x + 1]
         /\ \A x \in DOMAIN told : x # 1 => x - 1 \in DOMAIN Tail(told) /\ Tail(told)[x - 1] = told[x]
OBVIOUS

LEMMA RequestsKeep ==
  ASSUME LooksInv, NEW number \in Nat, number > h, Looks!Requests(number, f'), f' \in ShownOf, UNCHANGED <<a, b>>,
         f' # f => a = "catalog", UNCHANGED e \/ (e # <<>> /\ e' = Tail(e))
  PROVE  LooksInv'
<1> DEFINE call == Looks!Call(number, f')
<1>1. h' = number /\ j' \in {0, number} /\ k' \in {k, Looks!None} /\ (d' = d \/ d' = d \union {call})
      /\ (a = "catalog" => k' = Looks!None) /\ i' = (a = "dashboard") /\ (i' => d' = d \union {call})
  BY DEF Looks!Requests
<1>2. call \in Asked /\ call.number = number /\ call.expected = f'
  BY CallIsAsked
<1> HIDE DEF call
<1>3. e' \in Seq(Told) /\ \A x \in DOMAIN e' : \E y \in DOMAIN e : e'[x] = e[y]
  <2>1. e \in Seq(Told)
    BY DEF LooksInv, LooksTyped
  <2>2. CASE e # <<>> /\ e' = Tail(e)
    BY <2>1, <2>2, WireTail
  <2> QED
    BY <2>1, <2>2
<1>4. LooksTyped'
  BY <1>1, <1>2, <1>3 DEF LooksInv, LooksTyped
<1>5. \A x \in d' : NotNewer(x, h', f')
  BY <1>1, <1>2, NewerKeeps DEF LooksInv, NotNewer
<1>6. \A x \in DOMAIN e' : e'[x].kind = "answer" => NotNewer(e'[x], h', f')
  BY <1>1, <1>3, NewerKeeps DEF LooksInv
<1>7. Looks!ShowsTheSelected'
  BY <1>1 DEF LooksInv, Looks!ShowsTheSelected
<1>8. Looks!WaitsForAnAnswer'
  BY <1>1, <1>2 DEF Looks!WaitsForAnAnswer
<1> QED
  BY <1>4, <1>5, <1>6, <1>7, <1>8 DEF LooksInv, AsksAreOld

\* A newer number of which there is no request, as when the panel closes.
LEMMA ClosesKeep ==
  ASSUME LooksInv, h' \in Nat, h' > h, i' = FALSE, j' = 0, f' \in ShownOf, UNCHANGED <<a, b>>,
         k' = Looks!None \/ (k' = k /\ f' = f), UNCHANGED e \/ (e # <<>> /\ e' = Tail(e)),
         UNCHANGED d \/ \E older \in Nat, of \in ShownOf : older < h' /\ d' = d \union {Looks!Call(older, of)}
  PROVE  LooksInv'
<1>1. e' \in Seq(Told) /\ \A x \in DOMAIN e' : \E y \in DOMAIN e : e'[x] = e[y]
  BY WireTail DEF LooksInv, LooksTyped
<1>2. d' \subseteq Asked /\ \A x \in d' : NotNewer(x, h', f')
  <2>1. CASE UNCHANGED d
    BY <2>1, NewerKeeps DEF LooksInv, LooksTyped
  <2>2. ASSUME NEW older \in Nat, NEW of \in ShownOf, older < h', d' = d \union {Looks!Call(older, of)}
        PROVE  d' \subseteq Asked /\ \A x \in d' : NotNewer(x, h', f')
    <3>1. Looks!Call(older, of) \in Asked /\ NotNewer(Looks!Call(older, of), h', f')
      BY <2>2, CallIsAsked DEF NotNewer
    <3>2. \A x \in d : NotNewer(x, h', f')
      BY NewerKeeps DEF LooksInv
    <3> QED
      BY <2>2, <3>1, <3>2 DEF LooksInv, LooksTyped
  <2> QED
    BY <2>1, <2>2
<1>3. \A x \in DOMAIN e' : e'[x].kind = "answer" => NotNewer(e'[x], h', f')
  BY <1>1, NewerKeeps DEF LooksInv
<1> QED
  BY <1>1, <1>2, <1>3 DEF LooksInv, LooksTyped, AsksAreOld, Looks!ShowsTheSelected, Looks!WaitsForAnAnswer

\* Main takes and answers a call; the renderer's state stays.
LEMMA AnswerKeeps ==
  ASSUME LooksInv, NEW x \in d, NEW of \in ShownOf, Looks!Answer(x, of)
  PROVE  LooksInv'
<1> DEFINE answer == [kind |-> "answer", of |-> of, number |-> x.number, expected |-> x.expected]
<1>1. d' = d \ {x} /\ e' = Append(e, answer) /\ UNCHANGED <<a, b, f, h, i, j, k>>
  BY DEF Looks!Answer, Looks!panel
<1>2. x \in Asked /\ NotNewer(x, h, f)
  BY DEF LooksInv, LooksTyped, AsksAreOld
<1>3. answer \in Told /\ answer.kind = "answer" /\ answer.number = x.number /\ answer.expected = x.expected
  BY <1>2 DEF Asked, Told
<1> HIDE DEF answer
<1>4. LooksTyped'
  BY <1>1, <1>3 DEF LooksInv, LooksTyped
<1>5. /\ DOMAIN e' = DOMAIN e \union {Len(e) + 1} /\ e'[Len(e) + 1] = answer
      /\ \A y \in DOMAIN e : e'[y] = e[y]
  BY <1>1, <1>3 DEF LooksInv, LooksTyped
<1>6. AsksAreOld'
  BY <1>1, <1>2, <1>3, <1>5 DEF LooksInv, AsksAreOld, NotNewer
<1>7. Looks!WaitsForAnAnswer'
  BY <1>1, <1>3, <1>5 DEF LooksInv, Looks!WaitsForAnAnswer
<1> QED
  BY <1>1, <1>4, <1>6, <1>7 DEF LooksInv, Looks!ShowsTheSelected

LEMMA TakesKeeps ==
  ASSUME LooksInv, NEW x \in d, Looks!Takes(x)
  PROVE  LooksInv'
<1> DEFINE taken == [x EXCEPT !.at = b, !.of = IF a = "catalog" THEN x.expected ELSE b]
<1>1. d' = (d \ {x}) \union {taken} /\ UNCHANGED <<a, b, e, f, h, i, j, k>>
  BY DEF Looks!Takes, Looks!panel
<1>2. x \in Asked /\ NotNewer(x, h, f) /\ b \in ShownOf
  BY DEF LooksInv, LooksTyped, AsksAreOld
<1>3. taken \in Asked /\ taken.number = x.number /\ taken.expected = x.expected
  BY <1>2 DEF Asked
<1> HIDE DEF taken
<1>4. LooksTyped'
  BY <1>1, <1>3 DEF LooksInv, LooksTyped
<1>5. AsksAreOld'
  BY <1>1, <1>2, <1>3 DEF LooksInv, AsksAreOld, NotNewer
<1>6. Looks!WaitsForAnAnswer'
  BY <1>1, <1>3 DEF LooksInv, Looks!WaitsForAnAnswer
<1> QED
  BY <1>1, <1>4, <1>5, <1>6 DEF LooksInv, Looks!ShowsTheSelected

LEMMA TimerKeeps == LooksInv /\ Looks!TimerFires => LooksInv'
<1> SUFFICES ASSUME LooksInv, Looks!TimerFires PROVE LooksInv'
  OBVIOUS
<1> DEFINE call == Looks!Call(j, f)
<1>1. d' = d \union {call} /\ j' = 0 /\ UNCHANGED <<a, b, e, f, h, i, k>>
  BY DEF Looks!TimerFires
<1>2. call \in Asked /\ call.number = h /\ call.expected = f
  BY CallIsAsked DEF LooksInv, LooksTyped, Looks!TimerFires
<1> HIDE DEF call
<1>3. LooksTyped'
  BY <1>1, <1>2 DEF LooksInv, LooksTyped
<1>4. AsksAreOld'
  BY <1>1, <1>2 DEF LooksInv, LooksTyped, AsksAreOld, NotNewer
<1> QED
  BY <1>1, <1>3, <1>4 DEF LooksInv, Looks!ShowsTheSelected, Looks!WaitsForAnAnswer

LEMMA BroadcastKeeps == LooksInv /\ Looks!Broadcasts => LooksInv'
<1> SUFFICES ASSUME LooksInv, Looks!Broadcasts PROVE LooksInv'
  OBVIOUS
<1> DEFINE snapshot == [kind |-> "snapshot", of |-> b, number |-> 0, expected |-> Looks!None]
<1>1. e' = Append(e, snapshot) /\ UNCHANGED <<a, b, d, f, h, i, j, k>>
  BY DEF Looks!Broadcasts, Looks!panel
<1>2. snapshot \in Told /\ snapshot.kind # "answer"
  BY DEF LooksInv, LooksTyped, ShownOf, Told
<1> HIDE DEF snapshot
<1>3. LooksTyped'
  BY <1>1, <1>2 DEF LooksInv, LooksTyped
<1>4. /\ DOMAIN e' = DOMAIN e \union {Len(e) + 1} /\ e'[Len(e) + 1] = snapshot
      /\ \A y \in DOMAIN e : e'[y] = e[y]
  BY <1>1, <1>2 DEF LooksInv, LooksTyped
<1>5. AsksAreOld'
  BY <1>1, <1>2, <1>4 DEF LooksInv, AsksAreOld
<1>6. Looks!WaitsForAnAnswer'
  BY <1>1, <1>4 DEF LooksInv, Looks!WaitsForAnAnswer
<1> QED
  BY <1>1, <1>3, <1>5, <1>6 DEF LooksInv, Looks!ShowsTheSelected

\* A snapshot of the same project changes nothing; one of another makes a newer number.
LEMMA ShowsKeeps == LooksInv /\ Looks!Shows => LooksInv'
<1> SUFFICES ASSUME LooksInv, Looks!Shows PROVE LooksInv'
  OBVIOUS
<1>1. e # <<>> /\ e[1].kind # "answer" /\ e' = Tail(e) /\ UNCHANGED <<a, b>> /\ f' = Head(e).of /\ h \in Nat /\ e \in Seq(Told)
  BY DEF Looks!Shows, LooksInv, LooksTyped
<1>2. f' \in ShownOf
  <2>1. Head(e) \in Told
    BY <1>1, WireTail
  <2> QED
    BY <1>1, <2>1 DEF Told
<1>3. CASE f' = f
  <2>1. UNCHANGED <<d, g, h, i, j, k>>
    BY <1>1, <1>3 DEF Looks!Shows, Looks!panel
  <2>2. e' \in Seq(Told) /\ \A x \in DOMAIN e' : x + 1 \in DOMAIN e /\ e'[x] = e[x + 1]
    BY <1>1
  <2>3. \A x \in DOMAIN e : x # 1 => x - 1 \in DOMAIN e' /\ e'[x - 1] = e[x]
    BY <1>1
  <2>4. Looks!WaitsForAnAnswer'
    BY <1>1, <2>1, <2>3 DEF LooksInv, Looks!WaitsForAnAnswer
  <2>5. AsksAreOld'
    BY <1>3, <2>1, <2>2 DEF LooksInv, AsksAreOld
  <2> QED
    BY <1>1, <1>3, <2>1, <2>2, <2>4, <2>5 DEF LooksInv, LooksTyped, Looks!ShowsTheSelected
<1>4. CASE f' # f /\ a = "catalog" /\ g
  <2>1. Looks!Requests(h + 2, f')
    BY <1>1, <1>4 DEF Looks!Shows
  <2> QED
    BY <1>1, <1>2, <1>4, <2>1, RequestsKeep
<1>5. CASE f' # f /\ ~(a = "catalog" /\ g)
  <2>1. /\ h' = h + 2 /\ i' = FALSE /\ j' = 0 /\ k' = Looks!None
        /\ d' = IF a = "dashboard" /\ g THEN d \union {Looks!Call(h + 1, f')} ELSE d
    BY <1>1, <1>5 DEF Looks!Shows
  <2>2. d' = d \/ \E older \in Nat, of \in ShownOf : older < h' /\ d' = d \union {Looks!Call(older, of)}
    <3>1. h + 1 \in Nat /\ h + 1 < h'
      BY <1>1, <2>1
    <3> QED
      BY <1>2, <2>1, <3>1
  <2>3. h' \in Nat /\ h' > h
    BY <1>1, <2>1
  <2> QED
    BY <1>1, <1>2, <2>1, <2>2, <2>3, ClosesKeep
<1> QED
  BY <1>3, <1>4, <1>5

LEMMA HearsKeeps == LooksInv /\ Looks!Hears => LooksInv'
<1> SUFFICES ASSUME LooksInv, Looks!Hears PROVE LooksInv'
  OBVIOUS
<1>1. e # <<>> /\ Head(e) = e[1] /\ 1 \in DOMAIN e /\ e[1].kind = "answer" /\ e' = Tail(e) /\ e \in Seq(Told)
      /\ UNCHANGED <<a, b, d, f, h, j>>
  BY DEF Looks!Hears, LooksInv, LooksTyped
<1>2. e' \in Seq(Told) /\ \A x \in DOMAIN e' : x + 1 \in DOMAIN e /\ e'[x] = e[x + 1]
  BY <1>1
<1>3. \A x \in DOMAIN e : x # 1 => x - 1 \in DOMAIN e' /\ e'[x - 1] = e[x]
  BY <1>1
<1>4. e[1].number = h => e[1].expected = f
  BY <1>1 DEF LooksInv, AsksAreOld, NotNewer
<1>5. LooksTyped'
  BY <1>1, <1>2 DEF LooksInv, LooksTyped
<1>6. AsksAreOld'
  BY <1>1, <1>2 DEF LooksInv, AsksAreOld
<1>7. CASE e[1].number = h
  <2>1. k' \in {e[1].expected, Looks!None} /\ i' = FALSE
    BY <1>1, <1>7 DEF Looks!Hears, Looks!Current
  <2> QED
    BY <1>1, <1>4, <1>5, <1>6, <1>7, <2>1 DEF LooksInv, Looks!ShowsTheSelected, Looks!WaitsForAnAnswer
<1>8. CASE e[1].number # h
  <2>1. UNCHANGED <<k, i>>
    BY <1>1, <1>8 DEF Looks!Hears, Looks!Current
  <2>2. Looks!WaitsForAnAnswer'
    BY <1>1, <1>3, <1>8, <2>1 DEF LooksInv, Looks!WaitsForAnAnswer
  <2> QED
    BY <1>1, <1>5, <1>6, <2>1, <2>2 DEF LooksInv, Looks!ShowsTheSelected
<1> QED
  BY <1>7, <1>8

LEMMA LooksStep == LooksInv /\ (Looks!Next \/ UNCHANGED <<a, b, d, e, f, h, i, j, k>>) => LooksInv'
<1> SUFFICES ASSUME LooksInv, Looks!Next \/ UNCHANGED <<a, b, d, e, f, h, i, j, k>> PROVE LooksInv'
  OBVIOUS
<1>1. h \in Nat /\ f \in ShownOf
  BY DEF LooksInv, LooksTyped
<1>2. CASE Looks!Opens \/ Looks!Refreshes
  <2>1. (Looks!Requests(h + 1, f) \/ Looks!Requests(h + 2, f)) /\ UNCHANGED <<a, b>> /\ UNCHANGED e /\ f' = f
    BY <1>2 DEF Looks!Opens, Looks!Refreshes
  <2>2. ASSUME NEW number \in Nat, number > h, Looks!Requests(number, f) PROVE LooksInv'
    <3>1. Looks!Requests(number, f') /\ f' \in ShownOf
      BY <1>1, <2>1, <2>2
    <3> QED
      BY <2>1, <2>2, <3>1, RequestsKeep
  <2> QED
    BY <1>1, <2>1, <2>2
<1>3. CASE Looks!Closes
  <2>1. /\ h' \in Nat /\ h' > h /\ i' = FALSE /\ j' = 0 /\ f' \in ShownOf /\ UNCHANGED <<a, b>> /\ UNCHANGED d /\ UNCHANGED e
        /\ k' = Looks!None \/ (k' = k /\ f' = f)
    BY <1>1, <1>3 DEF Looks!Closes
  <2> QED
    BY <2>1, ClosesKeep
<1>4. ASSUME NEW q \in Projects, Looks!Picks(q) PROVE LooksInv'
  BY <1>4 DEF Looks!Picks, Looks!panel, LooksInv, LooksTyped, AsksAreOld, ShownOf, Looks!ShowsTheSelected, Looks!WaitsForAnAnswer
<1>5. ASSUME NEW x \in d, Looks!Takes(x) \/ Looks!Answers(x) \/ Looks!Fails(x) PROVE LooksInv'
  <2>1. x.of \in ShownOf /\ Looks!None \in ShownOf
    BY DEF LooksInv, LooksTyped, Asked, ShownOf
  <2> QED
    BY <1>5, <2>1, AnswerKeeps, TakesKeeps DEF Looks!Answers, Looks!Fails
<1>6. CASE UNCHANGED <<a, b, d, e, f, h, i, j, k>>
  BY <1>6 DEF LooksInv, LooksTyped, AsksAreOld, Looks!ShowsTheSelected, Looks!WaitsForAnAnswer
<1> QED
  BY <1>2, <1>3, <1>4, <1>5, <1>6, TimerKeeps, BroadcastKeeps, ShowsKeeps, HearsKeeps DEF Looks!Next

-----------------------------------------------------------------------------
(* The roster of the agents: what was reported as saved is kept, by two    *)
(* stores, or by any number of them as long as no process dies.  Of three  *)
(* with one that died, the slower of the two that find its lock stale may  *)
(* take the new lock of the other.                                         *)

FewStores == MaxCrashes = 0 \/ \A x, y, z \in Stores : x = y \/ y = z \/ x = z

\* The steps at which a store has the lock.
Holding == {"record", "locked", "writing", "recovering", "checked", "aside", "replaced", "release", "releasing"}

\* Locks are numbered as they are made, and those of the dead are of a process that is gone.
LocksNumbered ==
  /\ DOMAIN g = Stores /\ DOMAIN h = Stores /\ DOMAIN j = Stores /\ DOMAIN l = Stores 
  /\ b \in Nat /\ a \in 0 .. b /\ o \in Nat
  /\ \A x \in Stores : j[x] \in 0 .. b
  /\ \A x, y \in Stores : j[x] = j[y] /\ j[x] # 0 => x = y
  /\ c # {} => MaxCrashes # 0 /\ \E x \in Stores : g[x] = "gone"

\* A lock is taken for stale only when a process has died; the lock of the store that works is at its path.
LockIsOurs ==
  /\ \A x \in Stores : g[x] \in {"judged", "compared"} => c # {}
  /\ \A x \in Stores : g[x] \in Holding => a = j[x] /\ j[x] # 0

\* From the comparison to the rename the roster is what the store has read; a recovery puts its own where none is.
RosterRead ==
  /\ p \in Nat /\ e.id \in 0 .. p /\ DOMAIN e = DOMAIN Roster!Missing
  /\ \A x \in Stores :
       /\ g[x] \in {"writing", "recovering"} => l[x].id \in 0 .. p /\ (l[x].id = e.id => l[x] = e)
       /\ g[x] \in {"checked", "aside"} => l[x] = e
       /\ g[x] \in {"writing", "checked"} /\ h[x] = "recover" => e = Roster!Missing
       /\ g[x] = "replaced" /\ h[x] \in Mutations => h[x] \in e.has

RosterInv == LocksNumbered /\ LockIsOurs /\ RosterRead /\ Roster!SavedIsKept

LEMMA RosterInit == Roster!Init => RosterInv
BY DEF Roster!Init, Roster!Missing, RosterInv, LocksNumbered, LockIsOurs, RosterRead, Holding, Roster!SavedIsKept

\* A step of store x on the lock file, the roster staying as it is.
LEMMA LockingKeeps ==
  ASSUME RosterInv, NEW x \in Stores, UNCHANGED <<e, f, i, l, m, n, p>>, LocksNumbered', LockIsOurs',
         \A y \in Stores : y # x => g'[y] = g[y] /\ h'[y] = h[y],
         g'[x] \notin {"writing", "recovering", "checked", "aside", "replaced"}
  PROVE  RosterInv'
<1>1. RosterRead'
  BY DEF RosterInv, RosterRead
<1> QED
  BY <1>1 DEF RosterInv, Roster!SavedIsKept

\* Nobody takes the lock of the store that works: whoever finds a lock stale has seen the other one die.
LEMMA HeldAlone ==
  ASSUME FewStores, LocksNumbered, LockIsOurs, NEW x \in Stores, NEW y \in Stores, x # y
  PROVE  /\ g[x] \in Holding => g[y] \notin Holding \union {"judged", "compared"}
<1> SUFFICES ASSUME g[x] \in Holding, g[y] \in Holding \union {"judged", "compared"} PROVE FALSE
  OBVIOUS
<1>1. CASE g[y] \in Holding
  BY <1>1 DEF LocksNumbered, LockIsOurs
<1>2. CASE g[y] \in {"judged", "compared"}
  <2>1. PICK z \in Stores : g[z] = "gone"
    BY <1>2 DEF LocksNumbered, LockIsOurs
  <2>2. z # x /\ z # y /\ MaxCrashes # 0
    <3>1. z # x /\ z # y
      BY <1>2, <2>1 DEF Holding
    <3> QED
      BY <1>2, <3>1 DEF LocksNumbered, LockIsOurs
  <2> QED
    BY <2>2 DEF FewStores
<1> QED
  BY <1>1, <1>2

\* A step of a store which has the lock, and keeps it.
LEMMA WorkingKeeps ==
  ASSUME RosterInv, NEW x \in Stores, g[x] \in Holding, NEW step \in Holding, g' = [g EXCEPT ![x] = step], UNCHANGED <<a, b, c, h, j, o>>,
         DOMAIN l' = Stores
  PROVE  LocksNumbered' /\ LockIsOurs'
<1>1. DOMAIN g' = Stores /\ g'[x] = step /\ \A y \in Stores : y # x => g'[y] = g[y]
  BY DEF RosterInv, LocksNumbered
<1>2. g[x] # "gone" /\ step \notin {"gone", "judged", "compared"}
  BY DEF Holding
<1>3. LocksNumbered'
  <2>1. DOMAIN l' = Stores
    OBVIOUS
  <2>2. \A y \in Stores : g[y] = "gone" => g'[y] = "gone"
    BY <1>1, <1>2
  <2> QED
    BY <1>1, <2>1, <2>2 DEF RosterInv, LocksNumbered
<1>4. LockIsOurs'
  BY <1>1, <1>2 DEF RosterInv, LockIsOurs
<1> QED
  BY <1>3, <1>4

\* While it works the others do not.
LEMMA WorksAlone ==
  ASSUME FewStores, RosterInv, NEW x \in Stores, g[x] \in Holding, NEW step, g' = [g EXCEPT ![x] = step]
  PROVE  /\ g'[x] = step
         /\ \A y \in Stores : y # x => g'[y] \notin {"writing", "recovering", "checked", "aside", "replaced"}
<1>1. DOMAIN g = Stores
  BY DEF RosterInv, LocksNumbered
<1>2. \A y \in Stores : y # x => g'[y] = g[y] /\ g[y] \notin Holding
  BY <1>1, HeldAlone DEF RosterInv
<1> QED
  BY <1>1, <1>2 DEF Holding

LEMMA LocksStep ==
  ASSUME FewStores, RosterInv, NEW x \in Stores,
         \/ \E u \in Mutations : Roster!Commit(x, u)
         \/ Roster!Recover(x) \/ Roster!GivesUp(x) \/ Roster!CreateLock(x) \/ Roster!RecordLock(x) \/ Roster!Judge(x)
         \/ Roster!Compare(x) \/ Roster!Unlink(x) \/ Roster!Fails(x) \/ Roster!Release(x) \/ Roster!Released(x) \/ Roster!Crash(x)
  PROVE  RosterInv'
<1> USE DEF Roster!Goes, Roster!lockVars, Roster!fileVars, Roster!callVars
<1>0. /\ DOMAIN g = Stores /\ DOMAIN h = Stores /\ DOMAIN j = Stores /\ b \in Nat /\ a \in 0 .. b /\ o \in Nat
      /\ DOMAIN l = Stores
      /\ \A y \in Stores : y # x /\ g[x] \in Holding => g[y] \notin Holding \union {"judged", "compared"}
      /\ \A y \in Stores : y # x /\ g[y] \in Holding => g[x] \notin Holding \union {"judged", "compared"}
  BY HeldAlone DEF RosterInv, LocksNumbered
<1>1. CASE (\E u \in Mutations : Roster!Commit(x, u)) \/ Roster!Recover(x) \/ Roster!GivesUp(x)
  <2>1. PICK step \in {"acquire", "idle"} : /\ g[x] \in {"idle", "acquire"} /\ g' = [g EXCEPT ![x] = step] /\ UNCHANGED <<a, b, c, e, f, j, l, m, o, p>>
                                           /\ UNCHANGED <<i, n>> /\ \E u : h' = [h EXCEPT ![x] = u]
    BY <1>1 DEF Roster!Commit, Roster!Recover, Roster!GivesUp
  <2>4. DOMAIN h' = Stores /\ DOMAIN g' = Stores /\ \A y \in Stores : g[y] = "gone" => g'[y] = "gone"
    BY <1>0, <2>1
  <2>2. LocksNumbered'
    BY <1>0, <2>1, <2>4 DEF RosterInv, LocksNumbered
  <2>3. LockIsOurs'
    BY <1>0, <2>1 DEF RosterInv, LockIsOurs, Holding
  <2> QED
    BY <1>0, <2>1, <2>2, <2>3, LockingKeeps
<1>2. CASE Roster!CreateLock(x)
  <2>1. LocksNumbered'
    BY <1>0, <1>2 DEF Roster!CreateLock, RosterInv, LocksNumbered
  <2>2. LockIsOurs'
    BY <1>0, <1>2 DEF Roster!CreateLock, RosterInv, LocksNumbered, LockIsOurs, Holding
  <2> QED
    BY <1>0, <1>2, <2>1, <2>2, LockingKeeps DEF Roster!CreateLock
<1>3. CASE Roster!RecordLock(x) \/ Roster!Fails(x)
  <2>1. PICK step \in {"locked", "release"} : /\ g[x] \in Holding /\ g' = [g EXCEPT ![x] = step] /\ UNCHANGED <<a, b, c, e, f, h, i, j, l, m, n, o, p>>
    BY <1>3 DEF Roster!RecordLock, Roster!Fails, Holding
  <2>2. LocksNumbered' /\ LockIsOurs'
    <3>1. step \in Holding
      BY DEF Holding
    <3> QED
      BY <1>0, <2>1, <3>1, WorkingKeeps
  <2> QED
    BY <1>0, <2>1, <2>2, LockingKeeps
<1>4. CASE Roster!Judge(x) \/ Roster!Compare(x)
  <2>1. PICK step \in {"judged", "compared", "acquire"} :
          /\ g[x] \in {"acquire", "judged"} /\ g' = [g EXCEPT ![x] = step] /\ UNCHANGED <<a, b, c, e, f, h, i, j, l, m, n, o, p>>
          /\ g[x] = "acquire" => c # {}
    BY <1>4 DEF Roster!Judge, Roster!Compare, Roster!OwnerGone
  <2>2. LocksNumbered'
    BY <1>0, <2>1 DEF RosterInv, LocksNumbered
  <2>3. LockIsOurs'
    BY <1>0, <2>1 DEF RosterInv, LockIsOurs, Holding
  <2> QED
    BY <1>0, <2>1, <2>2, <2>3, LockingKeeps
<1>5. CASE Roster!Unlink(x)
  <2>1. LocksNumbered'
    BY <1>0, <1>5 DEF Roster!Unlink, RosterInv, LocksNumbered
  <2>2. LockIsOurs'
    BY <1>0, <1>5 DEF Roster!Unlink, RosterInv, LockIsOurs, Holding
  <2> QED
    BY <1>0, <1>5, <2>1, <2>2, LockingKeeps DEF Roster!Unlink
<1>6. CASE Roster!Release(x)
  <2>1. a = j[x]
    BY <1>6 DEF Roster!Release, RosterInv, LockIsOurs, Holding
  <2>2. g[x] \in Holding /\ g' = [g EXCEPT ![x] = "releasing"] /\ UNCHANGED <<a, b, c, e, f, h, i, j, l, m, n, o, p>>
    BY <1>6, <2>1 DEF Roster!Release, Holding
  <2>3. LocksNumbered' /\ LockIsOurs'
    <3>1. "releasing" \in Holding
      BY DEF Holding
    <3> QED
      BY <1>0, <2>2, <3>1, WorkingKeeps
  <2> QED
    BY <1>0, <2>2, <2>3, LockingKeeps
<1>7. CASE Roster!Released(x)
  <2>1. g[x] \in Holding
    BY <1>7 DEF Roster!Released, Holding
  <2>2. LocksNumbered'
    BY <1>0, <1>7 DEF Roster!Released, RosterInv, LocksNumbered
  <2>3. LockIsOurs'
    BY <1>0, <1>7, <2>1 DEF Roster!Released, RosterInv, LockIsOurs, Holding
  <2> QED
    BY <1>0, <1>7, <2>2, <2>3, LockingKeeps DEF Roster!Released
<1>8. CASE Roster!Crash(x)
  <2>1. MaxCrashes # 0 /\ o' \in Nat
    BY <1>0, <1>8 DEF Roster!Crash
  <2>2. LocksNumbered'
    BY <1>0, <1>8, <2>1 DEF Roster!Crash, RosterInv, LocksNumbered
  <2>3. LockIsOurs'
    BY <1>0, <1>8 DEF Roster!Crash, RosterInv, LockIsOurs, Holding
  <2> QED
    BY <1>0, <1>8, <2>2, <2>3, LockingKeeps DEF Roster!Crash
<1> QED
  BY <1>1, <1>2, <1>3, <1>4, <1>5, <1>6, <1>7, <1>8

\* The store which has the lock reads, compares and replaces the roster.
LEMMA RosterWorks ==
  ASSUME FewStores, RosterInv, NEW x \in Stores,
         Roster!ReadRoster(x) \/ Roster!CheckPath(x) \/ Roster!MoveAside(x) \/ Roster!Replace(x) \/ Roster!Synced(x)
  PROVE  RosterInv'
<1> USE DEF Roster!Goes, Roster!lockVars, Roster!fileVars, Roster!callVars
<1>0. p \in Nat /\ e.id \in 0 .. p /\ DOMAIN e = DOMAIN Roster!Missing /\ DOMAIN l = Stores /\ DOMAIN g = Stores /\ g[x] \in Holding
  BY DEF RosterInv, RosterRead, LocksNumbered, Roster!ReadRoster, Roster!CheckPath, Roster!MoveAside, Roster!Replace, Roster!Synced, Holding
<1>1. ASSUME NEW step \in Holding, g' = [g EXCEPT ![x] = step], UNCHANGED <<a, b, c, h, j, o>>, DOMAIN l' = Stores,
             DOMAIN e' = DOMAIN Roster!Missing, p' \in Nat, e'.id \in 0 .. p', Roster!SavedIsKept',
             /\ step \in {"writing", "recovering"} => l'[x].id \in 0 .. p' /\ (l'[x].id = e'.id => l'[x] = e')
             /\ step \in {"checked", "aside"} => l'[x] = e'
             /\ step \in {"writing", "checked"} /\ h[x] = "recover" => e' = Roster!Missing
             /\ step = "replaced" /\ h[x] \in Mutations => h[x] \in e'.has
      PROVE  RosterInv'
  <2>1. LocksNumbered' /\ LockIsOurs'
    BY <1>0, <1>1, WorkingKeeps
  <2>2. /\ g'[x] = step
        /\ \A y \in Stores : y # x => g'[y] \notin {"writing", "recovering", "checked", "aside", "replaced"}
    BY <1>0, <1>1, WorksAlone
  <2>3. RosterRead'
    BY <1>1, <2>2 DEF RosterRead
  <2> QED
    BY <1>1, <2>1, <2>3 DEF RosterInv
<1>2. CASE Roster!ReadRoster(x)
  <2>1. PICK step \in Holding : /\ g' = [g EXCEPT ![x] = step] /\ step \in {"release", "recovering", "writing"}
                                /\ step = "writing" => h[x] # "recover"
    BY <1>2 DEF Roster!ReadRoster, Holding
  <2>2. l'[x] = e /\ DOMAIN l' = Stores /\ UNCHANGED <<a, b, c, e, f, h, j, m, o, p>>
    BY <1>0, <1>2 DEF Roster!ReadRoster
  <2>3. Roster!SavedIsKept'
    BY <2>2 DEF RosterInv, Roster!SavedIsKept
  <2> QED
    BY <1>0, <1>1, <2>1, <2>2, <2>3
<1>3. CASE Roster!CheckPath(x)
  <2>1. PICK step \in Holding : /\ g' = [g EXCEPT ![x] = step] /\ step \in {"checked", "aside", "release"}
                                /\ step \in {"checked", "aside"} => e.id = l[x].id /\ g[x] \in {"writing", "recovering"}
                                /\ step = "checked" => g[x] = "writing"
    BY <1>3 DEF Roster!CheckPath, Holding
  <2>2. UNCHANGED <<a, b, c, e, f, h, j, l, m, o, p>>
    BY <1>3 DEF Roster!CheckPath
  <2>3. Roster!SavedIsKept'
    BY <2>2 DEF RosterInv, Roster!SavedIsKept
  <2>4. /\ step \in {"checked", "aside"} => l[x] = e
        /\ step \in {"writing", "checked"} /\ h[x] = "recover" => e = Roster!Missing
    BY <2>1 DEF RosterInv, RosterRead
  <2> QED
    BY <1>0, <1>1, <2>1, <2>2, <2>3, <2>4
<1>4. CASE Roster!MoveAside(x)
  <2>1. g' = [g EXCEPT ![x] = "writing"] /\ "writing" \in Holding /\ UNCHANGED <<a, b, c, h, j, m, o, p>>
    BY <1>4 DEF Roster!MoveAside, Holding
  <2>2. f' = f \union {e} /\ e' = Roster!Missing /\ l'[x] = Roster!Missing /\ DOMAIN l' = Stores
    BY <1>0, <1>4 DEF Roster!MoveAside
  <2>3. Roster!SavedIsKept'
    BY <2>1, <2>2 DEF RosterInv, Roster!SavedIsKept
  <2>4. Roster!Missing.id = 0 /\ 0 \in 0 .. p
    BY <1>0 DEF Roster!Missing
  <2> QED
    BY <1>0, <1>1, <2>1, <2>2, <2>3, <2>4
<1>5. CASE Roster!Replace(x)
  <2>1. g' = [g EXCEPT ![x] = "replaced"] /\ "replaced" \in Holding /\ UNCHANGED <<a, b, c, f, h, j, l, m, o>> /\ p' = p + 1
    BY <1>5 DEF Roster!Replace, Holding
  <2>2. g[x] = "checked" /\ e'.id = p + 1 /\ e'.has = IF h[x] = "recover" THEN {} ELSE l[x].has \union {h[x]}
    BY <1>5 DEF Roster!Replace
  <2>3. l[x] = e /\ (h[x] = "recover" => e.has = {})
    BY <2>2 DEF RosterInv, RosterRead, Roster!Missing
  <2>4. Roster!SavedIsKept'
    BY <2>1, <2>2, <2>3 DEF RosterInv, Roster!SavedIsKept
  <2>5. h[x] \in Mutations => h[x] \in e'.has
    BY <2>2, RosterAssumption
  <2>6. p' \in Nat /\ e'.id \in 0 .. p' /\ DOMAIN e' = DOMAIN Roster!Missing
    BY <1>0, <1>5, <2>1, <2>2 DEF Roster!Replace, Roster!Missing
  <2> QED
    BY <1>0, <1>1, <2>1, <2>4, <2>5, <2>6
<1>6. CASE Roster!Synced(x)
  <2>1. g' = [g EXCEPT ![x] = "release"] /\ "release" \in Holding /\ UNCHANGED <<a, b, c, e, f, h, j, l, o, p>>
    BY <1>6 DEF Roster!Synced, Holding
  <2>2. g[x] = "replaced" /\ m' = m \union ({h[x]} \intersect Mutations)
    BY <1>6 DEF Roster!Synced
  <2>3. h[x] \in Mutations => h[x] \in e.has
    BY <2>2 DEF RosterInv, RosterRead
  <2>4. Roster!SavedIsKept'
    BY <2>1, <2>2, <2>3 DEF RosterInv, Roster!SavedIsKept
  <2> QED
    BY <1>0, <1>1, <2>1, <2>4
<1> QED
  BY <1>2, <1>3, <1>4, <1>5, <1>6

LEMMA RosterDamaged == RosterInv /\ Roster!Damage => RosterInv'
<1> SUFFICES ASSUME RosterInv, Roster!Damage PROVE RosterInv'
  OBVIOUS
<1>1. /\ UNCHANGED <<a, b, c, f, g, h, j, l, m, o>> /\ e' = [e EXCEPT !.id = p + 1, !.valid = FALSE] /\ p' = p + 1
      /\ e.id # 0 /\ e.valid /\ \A x \in Stores : g[x] \notin {"checked", "replaced", "aside"}
  BY DEF Roster!Damage, Roster!lockVars, Roster!callVars
<1>2. e.id \in 0 .. p /\ p \in Nat /\ DOMAIN e' = DOMAIN Roster!Missing /\ e'.id = p + 1 /\ e'.has = e.has
  BY <1>1 DEF RosterInv, RosterRead, Roster!Missing
<1>3. Roster!SavedIsKept'
  BY <1>1, <1>2 DEF RosterInv, Roster!SavedIsKept
<1>4. LocksNumbered' /\ LockIsOurs'
  BY <1>1 DEF RosterInv, LocksNumbered, LockIsOurs
<1>5. ASSUME NEW x \in Stores
      PROVE  /\ g[x] \in {"writing", "recovering"} => l[x].id \in 0 .. p + 1 /\ l[x].id # p + 1
             /\ g[x] \in {"writing", "checked"} => h[x] # "recover"
  BY <1>1, <1>2 DEF RosterInv, RosterRead, Roster!Missing
<1>6. RosterRead'
  BY <1>1, <1>2, <1>5 DEF RosterRead
<1> QED
  BY <1>3, <1>4, <1>6 DEF RosterInv

LEMMA RosterStep ==
  ASSUME FewStores, RosterInv, Roster!Next \/ UNCHANGED <<a, b, c, d, e, f, g, h, i, j, k, l, m, n, o, p>> PROVE RosterInv'
<1>1. CASE UNCHANGED <<a, b, c, d, e, f, g, h, i, j, k, l, m, n, o, p>>
  BY <1>1 DEF RosterInv, LocksNumbered, LockIsOurs, RosterRead, Roster!SavedIsKept
<1> QED
  BY <1>1, LocksStep, RosterWorks, RosterDamaged DEF Roster!Next

-----------------------------------------------------------------------------
(* The registry of sessions: SessionManagerProofs has the proofs, of which *)
(* Managed is the instance for the sessions of this module.                *)

Managed == INSTANCE SessionManagerProofs WITH Sessions <- Pooled, clients <- a, older <- b, generation <- c, limit <- d,
             running <- e, exited <- f, stopping <- g, emitted <- h, heard <- i, stopAll <- j, barrier <- k, unswept <- l, exempt <- m

LEMMA ManagedAssumptions ==
  /\ Managed!IsFiniteSet(Pooled) /\ "input" \in Reasons /\ Limits \subseteq Nat /\ Limits # {} /\ PayloadBytes \subseteq Nat
  /\ MaxGeneration \in Nat /\ MaxEvents \in Nat /\ MaxDeferredCount \in Nat /\ MaxDeferredBytes \in Nat
BY PoolAssumption DEF Managed!IsFiniteSet, IsFiniteSet

\* The two instances of SessionManager say the same.
LEMMA SameOperations ==
  /\ Pool!Registered = Managed!Registered
  /\ \A map, order, max, spared : Pool!EvictIfNeeded(map, order, max, spared) <=> Managed!EvictIfNeeded(map, order, max, spared)
  /\ \A gone : Pool!Remove(gone) <=> Managed!Remove(gone)
<1>1. Pool!Registered = Managed!Registered
  BY DEF Pool!Registered, Managed!Registered
<1>2. ASSUME NEW map, NEW order, NEW max, NEW spared
      PROVE  Pool!EvictIfNeeded(map, order, max, spared) <=> Managed!EvictIfNeeded(map, order, max, spared)
  BY DEF Pool!EvictIfNeeded, Managed!EvictIfNeeded, Pool!IsEvicted, Managed!IsEvicted, Pool!Candidates, Managed!Candidates,
         Pool!Cardinality, Managed!Cardinality, Pool!Without, Managed!Without, Pool!Among, Managed!Among
<1>3. ASSUME NEW gone PROVE Pool!Remove(gone) <=> Managed!Remove(gone)
  BY <1>1 DEF Pool!Remove, Managed!Remove, Pool!Without, Managed!Without, Pool!Among, Managed!Among
<1> QED
  BY <1>1, <1>2, <1>3

LEMMA SameSweeps ==
  /\ \A max : Pool!SetLimit(max) <=> Managed!SetLimit(max)
  /\ \A s, deferred : Pool!CreateManaged(s, deferred) <=> Managed!CreateManaged(s, deferred)
  /\ \A spared : Pool!EnforceLimit(spared) <=> Managed!EnforceLimit(spared)
  /\ \A s, reason, enabled : Pool!SetProtection(s, reason, enabled) <=> Managed!SetProtection(s, reason, enabled)
<1> USE SameOperations
<1>1. ASSUME NEW max PROVE Pool!SetLimit(max) <=> Managed!SetLimit(max)
  BY DEF Pool!SetLimit, Managed!SetLimit, Pool!barriers, Managed!barriers
<1>2. ASSUME NEW s, NEW deferred PROVE Pool!CreateManaged(s, deferred) <=> Managed!CreateManaged(s, deferred)
  <2>1. Pool!NewClient(s, deferred) = Managed!NewClient(s, deferred) /\ Pool!Touch(b, s, Pool!Registered) = Managed!Touch(b, s, Managed!Registered)
    BY DEF Pool!NewClient, Managed!NewClient, Pool!Put, Managed!Put, Pool!Touch, Managed!Touch
  <2> QED
    BY <2>1 DEF Pool!CreateManaged, Managed!CreateManaged, Pool!barriers, Managed!barriers
<1>3. ASSUME NEW spared PROVE Pool!EnforceLimit(spared) <=> Managed!EnforceLimit(spared)
  BY DEF Pool!EnforceLimit, Managed!EnforceLimit, Pool!barriers, Managed!barriers
<1>4. ASSUME NEW s, NEW reason, NEW enabled PROVE Pool!SetProtection(s, reason, enabled) <=> Managed!SetProtection(s, reason, enabled)
  <2>1. Pool!Put(a, s, Pool!Protect(a[s], reason, enabled)) = Managed!Put(a, s, Managed!Protect(a[s], reason, enabled))
        /\ Pool!Touch(b, s, Pool!Registered) = Managed!Touch(b, s, Managed!Registered)
    BY DEF Pool!Protect, Managed!Protect, Pool!Put, Managed!Put, Pool!Touch, Managed!Touch
  <2> QED
    BY <2>1 DEF Pool!SetProtection, Managed!SetProtection, Pool!barriers, Managed!barriers
<1> QED
  BY <1>1, <1>2, <1>3, <1>4

LEMMA SameCalls == Pool!Call => Managed!Next
<1> SUFFICES ASSUME Pool!Call PROVE Managed!Call
  BY DEF Managed!Next
<1> USE SameOperations
<1>1. ASSUME NEW s \in Pooled, Pool!Get(s) PROVE Managed!Get(s)
  BY <1>1 DEF Pool!Get, Managed!Get, Pool!Touch, Managed!Touch, Pool!barriers, Managed!barriers, Pool!processes, Managed!processes
<1>2. ASSUME NEW s \in Pooled, Pool!ActivateDeferred(s) PROVE Managed!ActivateDeferred(s)
  <2>1. \A q : Pool!Played(q) = Managed!Played(q)
    BY DEF Pool!Played, Managed!Played
  <2>2. \A q : Pool!Forward(s, q) <=> Managed!Forward(s, q)
    BY DEF Pool!Forward, Managed!Forward, Pool!HasKind, Managed!HasKind, Pool!Put, Managed!Put, Pool!Touch, Managed!Touch, Pool!Protect, Managed!Protect
  <2> QED
    BY <1>2, <2>1, <2>2 DEF Pool!ActivateDeferred, Managed!ActivateDeferred, Pool!barriers, Managed!barriers, Pool!processes, Managed!processes
<1>3. ASSUME NEW s \in Pooled, Pool!Stop(s) PROVE Managed!Stop(s)
  BY <1>3 DEF Pool!Stop, Managed!Stop, Pool!ClientOf, Managed!ClientOf, Pool!barriers, Managed!barriers
<1>4. CASE Pool!StopAll
  <2>1. Managed!StopAll
    BY <1>4 DEF Pool!StopAll, Managed!StopAll, Pool!ClientOf, Managed!ClientOf
  <2> QED
    BY <2>1 DEF Managed!Call
<1> QED
  BY <1>1, <1>2, <1>3, <1>4, SameSweeps DEF Pool!Call, Managed!Call

LEMMA SameLimit == Pool!LimitHeld <=> Managed!LimitHeld
BY SameOperations DEF Pool!LimitHeld, Managed!LimitHeld, Pool!Cardinality, Managed!Cardinality

LEMMA SameEvictions == Pool!EvictedRightly <=> Managed!EvictedRightly
<1>1. Pool!EvictionStep <=> Managed!EvictionStep
  BY SameSweeps DEF Pool!EvictionStep, Managed!EvictionStep, Pool!Unprotects, Managed!Unprotects
<1>2. \A s, r : Pool!Unprotects(s, r) <=> Managed!Unprotects(s, r)
  BY SameSweeps DEF Pool!Unprotects, Managed!Unprotects
<1> QED
  BY <1>1, <1>2, SameOperations DEF Pool!EvictedRightly, Managed!EvictedRightly

LEMMA ManagedKept ==
  /\ Pool!Init => Managed!IInv /\ Managed!LimitHeld
  /\ Managed!IInv /\ Managed!LimitHeld /\ (Pool!Call \/ UNCHANGED <<a, b, c, d, e, f, g, h, i, j, k, l, m>>)
       => Managed!IInv' /\ Managed!LimitHeld' /\ Managed!EvictedRightly
<1>1. Pool!Init => Managed!Init
  BY DEF Pool!Init, Managed!Init, Pool!Clients, Managed!Clients, Pool!Generations, Managed!Generations
<1>2. Managed!Init => Managed!IInv
  BY Managed!InitIInv, ManagedAssumptions
<1>3. Managed!Init => Managed!LimitHeld
  BY Managed!InitLimit, ManagedAssumptions
<1>4. UNCHANGED <<a, b, c, d, e, f, g, h, i, j, k, l, m>> => UNCHANGED Managed!vars
  BY DEF Managed!vars
<1>5. Managed!IInv /\ [Managed!Next]_(Managed!vars) => Managed!IInv'
  BY Managed!Inductive, ManagedAssumptions
<1>6. Managed!IInv /\ Managed!LimitHeld /\ [Managed!Next]_(Managed!vars) => Managed!LimitHeld'
  BY Managed!LimitInductive, ManagedAssumptions
<1>7. Managed!IInv => Managed!EvictedRightly
  BY Managed!EvictedStep, ManagedAssumptions DEF Managed!IInv
<1> QED
  BY <1>1, <1>2, <1>3, <1>4, <1>5, <1>6, <1>7, SameCalls

-----------------------------------------------------------------------------
(* The services together.                                                  *)

ServicesInv ==
  /\ service = "pool" => Managed!IInv /\ Managed!LimitHeld
  /\ service = "files" => Files!OneGeneration /\ FilesInv
  /\ service = "roster" => (FewStores => RosterInv)
  /\ service = "config" => LockInv /\ ConfigInv
  /\ service = "history" => HistoryInv
  /\ service = "uploads" => UploadsInv /\ GivenInv
  /\ service = "catalog" => CatalogInv /\ DefinitionsInv
  /\ service = "workspaces" => ChecksShaped /\ WorkersInv /\ DashInv
  /\ service = "update" => Installed /\ ReclaimInv /\ ReleaseInv /\ PhaseOfRun
  /\ service = "prompts" => PromptsInv
  /\ service = "panels" => LooksInv

LEMMA ServicesInit == Init => ServicesInv
<1>1. Usable!Init => ChecksShaped
  BY DEF Usable!Init, ChecksShaped
<1>2. Update!Init => Installed
  BY DEF Update!Init, Installed
<1> QED
  BY <1>1, <1>2, ManagedKept, FilesTokens, LockInit, HistoryInit, UploadsInit, GivenInit, CatalogInit, DefinitionsInit, WorkersInit, DashInit, ReclaimInit,
     LooksInit, FilesInit, ReleaseInit, PhaseInit, PromptsInit, RosterInit, ConfigInit DEF Init, ServicesInv

LEMMA ServicesStep == ServicesInv /\ [Next]_vars => ServicesInv'
<1> SUFFICES ASSUME ServicesInv, [Next]_vars PROVE ServicesInv'
  OBVIOUS
<1>1. UNCHANGED service
  BY DEF Next, vars
<1>2. CASE service = "pool"
  BY <1>1, <1>2, ManagedKept DEF Next, vars, ServicesInv
<1>3. CASE service = "files"
  BY <1>1, <1>3, FilesTokens, FilesStep DEF Next, vars, ServicesInv
<1>4. CASE service = "config"
  BY <1>1, <1>4, LockStep, ConfigStep DEF Next, vars, ServicesInv, ConfigInv
<1>5. CASE service = "history"
  BY <1>1, <1>5, HistoryStep DEF Next, vars, ServicesInv
<1>6. CASE service = "uploads"
  BY <1>1, <1>6, UploadsStep, GivenStep DEF Next, vars, ServicesInv
<1>7. CASE service = "catalog"
  BY <1>1, <1>7, CatalogStep, DefinitionsStep DEF Next, vars, ServicesInv
<1>8. CASE service = "workspaces"
  BY <1>1, <1>8, ChecksKeep, WorkersStep, DashStep DEF Next, vars, ServicesInv
<1>9. CASE service = "update"
  BY <1>1, <1>9, InstalledStep, ReclaimStep, ReleaseStep, PhaseStep DEF Next, vars, ServicesInv
<1>10. CASE service = "panels"
  BY <1>1, <1>10, LooksStep DEF Next, vars, ServicesInv
<1>11. CASE service = "prompts"
  BY <1>1, <1>11, PromptsStep DEF Next, vars, ServicesInv
<1>12. CASE service = "roster"
  BY <1>1, <1>12, RosterStep DEF Next, vars, ServicesInv
<1> QED
  BY <1>1, <1>2, <1>3, <1>4, <1>5, <1>6, <1>7, <1>8, <1>9, <1>10, <1>11, <1>12 DEF ServicesInv

\* The invariant of each service holds in the behaviours where it is the one.
THEOREM ServicesInvariance == Spec => []ServicesInv
BY ServicesInit, ServicesStep, PTL DEF Spec

\* SessionManager.evictIfNeeded: the soft limit holds for every limit and number of sessions.
THEOREM LimitHeldAlways == Spec => []LimitHeld
<1>1. ServicesInv => LimitHeld
  BY SameLimit DEF ServicesInv, LimitHeld
<1> QED
  BY <1>1, ServicesInvariance, PTL

\* The tokens that the list issued for a memory file, a remote session or an agent are valid only while that list is the
\* newest, and those of the agents stay within the bound of the cache, whatever lists, changes and evictions there are.
\* A panel has the data of the project that is shown as selected, in whatever order the answers come.
THEOREM TokensOfNewestListAlways == Spec => []TokensOfNewestList
<1>1. ServicesInv => TokensOfNewestList
  BY DEF ServicesInv, TokensOfNewestList, HistoryInv, CatalogInv, LooksInv
<1> QED
  BY <1>1, ServicesInvariance, PTL

\* SessionManager.evictIfNeeded: what is evicted is unprotected, and was touched before what is spared.
THEOREM EvictsOldestUnprotectedAlways == Spec => EvictsOldestUnprotected
<1>1. ServicesInv /\ [Next]_vars => [service = "pool" => Pool!EvictedRightly]_vars
  BY ManagedKept, SameEvictions DEF Next, vars, ServicesInv
<1> QED
  BY <1>1, ServicesInvariance, PTL DEF Spec, EvictsOldestUnprotected

\* No lock of config.toml, worker of the history, handle of an image, worker of a workspace, directory of an update or
\* waiting panel is left behind without an owner, whatever calls, failures and ends of the process there are.
THEOREM NothingLeaksAlways == Spec => []NothingLeaks
<1>1. ServicesInv => NothingLeaks
  BY LockSafe, HistorySafe, UploadsSafe, WorkersSafe, ReclaimSafe DEF ServicesInv, NothingLeaks, LooksInv
<1> QED
  BY <1>1, ServicesInvariance, PTL

\* The history deletes what it lists at that moment and nothing uses, an agent is chosen by what the catalog showed of
\* it, and the dashboard answers about the project that is still selected.
THEOREM DecidesOnWhatIsTrueAlways == Spec => DecidesOnWhatIsTrue
<1>1. ServicesInv /\ [Next]_vars =>
        [/\ service = "history" => History!DeletesListed
         /\ service = "catalog" => Catalog!AnswersShown
         /\ service = "workspaces" => Usable!AnswersOfSelected]_vars
  BY HistoryDecides, CatalogDecides, DashDecides DEF Next, vars, ServicesInv
<1> QED
  BY <1>1, ServicesInvariance, PTL DEF Spec, DecidesOnWhatIsTrue

\* MemoryBroker: a file is destroyed as a list showed it.  SessionHistoryBroker: what is deleted is bound to no session
\* that is there.  AttachmentBroker: a token is good for one prompt, which gets the images in the version in which they
\* were staged.  GrokAgentsBroker: a token stands for one definition, that of no moment between two.
\* TrustedSquirrelUpdater: what Squirrel can install is the release that was offered, downloaded and verified.  App.tsx:
\* the queued messages of a session are sent one after the other, as they are shown.
THEOREM ActsOnWhatWasShownAlways == Spec => []ActsOnWhatWasShown
<1>1. ServicesInv => ActsOnWhatWasShown
  BY FilesSafe, HistorySafe, GivenSafe, DefinitionsSafe, ReleaseSafe, PromptsSafe DEF ServicesInv, ActsOnWhatWasShown
<1> QED
  BY <1>1, ServicesInvariance, PTL

\* The parts of SavedIsKept of the roster, of config.toml and of the update.  A mutation of the roster that was reported as
\* saved is in it, with two stores or when no process dies (AgentRosterStore.mutate under acquireRosterLock); config.toml has
\* every edit that was made of it, and the user's own text (GrokModelConfigStore.mutate under withExclusiveLock); Squirrel is
\* asked once, and keeps its archive and feed when prepare fails after that (TrustedSquirrelUpdater.prepare).
THEOREM StoresKeepSaved ==
  Spec => [](/\ service = "roster" => (FewStores => Roster!SavedIsKept)
             /\ service = "config" => Config!NothingOverwritten
             /\ service = "update" => Update!AskedOnce)
<1>1. ServicesInv => /\ service = "roster" => (FewStores => Roster!SavedIsKept)
                     /\ service = "config" => Config!NothingOverwritten
                     /\ service = "update" => Update!AskedOnce
  BY PhaseSafe DEF ServicesInv, RosterInv, ConfigInv
<1> QED
  BY <1>1, ServicesInvariance, PTL

\* The parts of ReferencesKept of config.toml and of the update: no step takes away a provider to which a model or the
\* user's text refers (applyMutation of managedToml.ts), and the sweep of a launch keeps what is not of a stage, also when it
\* came meanwhile (TrustedUpdateStager.cleanupStale).
THEOREM ReferredKept ==
  Spec => [][/\ service = "config" => Config!KeepsReferences
             /\ service = "update" => Update!SweepsStagesOnly]_vars
<1>1. ServicesInv /\ [Next]_vars =>
        [/\ service = "config" => Config!KeepsReferences
         /\ service = "update" => Update!SweepsStagesOnly]_vars
  BY ConfigStep, SweepSpares DEF Next, vars, ServicesInv
<1> QED
  BY <1>1, ServicesInvariance, PTL DEF Spec
=============================================================================
