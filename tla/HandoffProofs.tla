----------------------------- MODULE HandoffProofs -----------------------------
(***************************************************************************)
(* Theorems about HandoffDelivery, for any files, events, editions, limits *)
(* and any number of failures.                                             *)
(*                                                                         *)
(* The server only ever adds to its log, so what is delivered stays so.    *)
(* PassSound says what the watcher's memory stands for: the events it has  *)
(* counted are on the server, and its book holds delivered files only and  *)
(* at least what the ledger holds.                                         *)
(***************************************************************************)
EXTENDS HandoffDelivery, WellFoundedInduction, TLAPS

Known(p) == p.id \in DOMAIN log /\ log[p.id] = p.content

\* The first n events of f are on the server.
DeliveredUpTo(f, n) == \A k \in 1..n : Known(EventsOf[f][k])

PassSound ==
    pass \notin Idle =>
        /\ \A k \in DOMAIN pass.book : Delivered(pass.book[k].file)
        /\ \A k \in DOMAIN ledger : \E n \in DOMAIN pass.book : pass.book[n] = ledger[k]
        /\ pass.at = "posting" =>
              /\ pass.sent <= Len(EventsOf[Current])
              /\ DeliveredUpTo(Current, pass.sent)
              /\ \A n \in DOMAIN pass.book : pass.book[n].file # Current
        /\ pass.at = "recorded" => Delivered(Current)

IInv == TypeOK /\ NothingIsLost /\ PassSound

-----------------------------------------------------------------------------
(* Helpers *)

\* The file at hand is one of those to come.
LEMMA CurrentIsToCome ==
    ASSUME NEW T \in SUBSET File, T # {}
    PROVE  (CHOOSE f \in T : \A g \in T : f <= g) \in T
<1> DEFINE R == {ss \in Nat \X Nat : ss[1] < ss[2]}
<1>1. T \subseteq Nat
  BY HandoffAssumption
<1>1a. IsWellFoundedOn(R, Nat)
  BY NatLessThanWellFounded, Zenon DEF OpToRel
<1> HIDE DEF R
<1>2. PICK x \in T : \A y \in T : ~(<<y, x>> \in R)
  BY <1>1a, <1>1, WFMin, Zenon
<1>3. \A y \in T : x <= y
  <2> SUFFICES ASSUME NEW y \in T PROVE x <= y
    OBVIOUS
  <2>1. ~(y < x)
    BY <1>1, <1>2 DEF R
  <2> QED
    BY <1>1, <2>1
<1> QED
  BY <1>2, <1>3

\* What is written of a book are entries of it.
LEMMA LastEntriesOfBook ==
    ASSUME NEW book \in Seq(Entry)
    PROVE  /\ LastEntries(book) \in Seq(Entry)
           /\ \A k \in DOMAIN LastEntries(book) :
                 \E n \in DOMAIN book : book[n] = LastEntries(book)[k]
<1>1. CASE Len(book) <= LedgerLimit
  BY <1>1 DEF LastEntries
<1>2. CASE ~(Len(book) <= LedgerLimit)
  <2> DEFINE first == Len(book) - LedgerLimit + 1
             last == SubSeq(book, first, Len(book))
  <2>1. first \in 1..Len(book) /\ LedgerLimit \in Nat /\ Len(book) \in Nat
    BY <1>2, HandoffAssumption
  <2>2. LastEntries(book) = last
    BY <1>2 DEF LastEntries
  <2>3. last \in Seq(Entry) /\ Len(last) = Len(book) - first + 1
        /\ \A k \in 1..Len(last) : last[k] = book[first + k - 1]
    BY <2>1
  <2>4. \A k \in DOMAIN last : first + k - 1 \in DOMAIN book /\ last[k] = book[first + k - 1]
    BY <2>1, <2>3
  <2> QED
    BY <2>2, <2>3, <2>4
<1> QED
  BY <1>1, <1>2

\* A request that reaches the server leaves the event known, or is a conflict,
\* and what was known stays known.
LEMMA ReceiveKeeps ==
    ASSUME Log!LogType, NEW p \in Post, Log!Receive(p.id, p.content)
    PROVE  /\ Log!LogType'
           /\ \A q : Known(q) => Known(q)'
           /\ Log!Answer(p.id, p.content) \in {"accepted", "duplicate"} => Known(p)'
BY DEF Log!LogType, Log!Receive, Log!Accept, Log!Answer, Known, Post

LEMMA DeliveredKnown == \A f \in File : Delivered(f) <=> DeliveredUpTo(f, Len(EventsOf[f]))
BY DEF Delivered, DeliveredUpTo, Known

LEMMA PostsTyped ==
    ASSUME NEW f \in File
    PROVE  /\ Len(EventsOf[f]) \in Nat /\ DOMAIN EventsOf[f] = 1..Len(EventsOf[f])
           /\ \A k \in 1..Len(EventsOf[f]) : EventsOf[f][k] \in Post
BY HandoffAssumption

\* Everything that was delivered stays so while the log only grows.
LogGrows == \A p : Known(p) => Known(p)'

LEMMA DeliveredStays ==
    ASSUME LogGrows, NEW f \in File
    PROVE  /\ Delivered(f) => Delivered(f)'
           /\ \A n : DeliveredUpTo(f, n) => DeliveredUpTo(f, n)'
BY DEF LogGrows, Delivered, DeliveredUpTo, Known

\* What TypeOK says of a pass in progress.
LEMMA PassTyped ==
    ASSUME TypeOK, pass \notin Idle
    PROVE  /\ pass \in InPass
           /\ pass.todo \subseteq File /\ pass.todo \subseteq DOMAIN inbox
           /\ pass.book \in Seq(Entry) /\ \A n \in DOMAIN pass.book : pass.book[n] \in Entry
           /\ pass.at \in {"reading", "posting", "recorded"}
           /\ pass.at \in {"posting", "recorded"} => pass.doc \in Edition
           /\ pass.at = "posting" => pass.sent \in Nat
           /\ pass.todo # {} => Current \in pass.todo
<1>1. pass \in InPass
  BY DEF TypeOK
<1>2. /\ pass.todo \subseteq File /\ pass.book \in Seq(Entry)
      /\ pass.at \in {"reading", "posting", "recorded"}
      /\ pass.at \in {"posting", "recorded"} => pass.doc \in Edition
      /\ pass.at = "posting" => pass.sent \in Nat
  BY <1>1 DEF InPass
<1>3. pass.todo # {} => Current \in pass.todo
  BY <1>2, CurrentIsToCome DEF Current
<1> QED
  BY <1>1, <1>2, <1>3 DEF TypeOK

-----------------------------------------------------------------------------
(* The steps that leave the watcher's memory behind, and those around it *)

\* A pass that ends leaves the disk, which is sound by itself.
LEMMA Ended == ASSUME pass' \in Idle PROVE PassSound'
BY DEF PassSound

\* The server hears of an event and nothing else changes on the disk.
LEMMA ReceivedSafe ==
    ASSUME IInv, NEW p \in Post, Log!Receive(p.id, p.content), UNCHANGED <<disk, exports>>
    PROVE  Log!LogType' /\ LogGrows /\ NothingIsLost'
<1>1. Log!LogType' /\ LogGrows
  BY ReceiveKeeps DEF IInv, TypeOK, LogGrows
<1>2. \A k \in DOMAIN exports : exports[k] \in File
  BY DEF IInv, TypeOK
<1>3. \A k \in DOMAIN ledger : ledger[k].file \in File
  <2>1. \A k \in DOMAIN ledger : ledger[k] \in Entry
    BY DEF IInv, TypeOK
  <2> QED BY <2>1 DEF Entry
<1>4. DOMAIN archive \subseteq File
  BY DEF IInv, TypeOK, IsFolder
<1>5. \A f \in File : Delivered(f) => Delivered(f)'
  BY <1>1, DeliveredStays
<1> QED
  BY <1>1, <1>2, <1>3, <1>4, <1>5 DEF IInv, NothingIsLost, disk

LEMMA ExportSound ==
    ASSUME IInv, NEW f \in File, NEW e \in Edition, Export(f, e)
    PROVE  IInv'
<1>1. UNCHANGED <<log, archive, ledger, pass>> /\ DOMAIN inbox' = DOMAIN inbox \cup {f}
      /\ exports' = Append(exports, f)
  BY DEF Export
<1>2. TypeOK'
  <2>1. Log!LogType' /\ IsFolder(archive)' /\ ledger' \in Seq(Entry)
        /\ pass' \in Idle \cup InPass
        /\ (pass'.at \in {"posting", "recorded"} => pass'.todo # {})
    BY <1>1 DEF IInv, TypeOK, Log!LogType, IsFolder
  <2>2. exports' \in Seq(File) /\ Len(exports') \in Nat
    BY <1>1 DEF IInv, TypeOK
  <2>3. IsFolder(inbox)'
    BY <2>2 DEF Export, IInv, TypeOK, IsFolder, Copy
  <2>4. pass' \notin Idle => pass'.todo \subseteq DOMAIN inbox'
    BY <1>1 DEF IInv, TypeOK
  <2> QED
    BY <2>1, <2>2, <2>3, <2>4 DEF TypeOK
<1>3. NothingIsLost'
  <2>1. \A k \in DOMAIN exports' : exports'[k] = f \/ \E n \in DOMAIN exports : exports'[k] = exports[n]
    BY <1>1 DEF IInv, TypeOK
  <2>2. \A g : Delivered(g)' <=> Delivered(g)
    BY <1>1 DEF Delivered
  <2> QED
    BY <1>1, <2>1, <2>2 DEF IInv, NothingIsLost
<1>4. PassSound'
  BY <1>1 DEF IInv, PassSound, Current, DeliveredUpTo, Delivered, Known
<1> QED
  BY <1>2, <1>3, <1>4 DEF IInv

LEMMA PostElsewhereSound ==
    ASSUME IInv, NEW p \in OtherPosts, PostElsewhere(p)
    PROVE  IInv'
<1>1. p \in Post
  BY HandoffAssumption
<1>2. Log!LogType' /\ LogGrows /\ NothingIsLost'
  BY <1>1, ReceivedSafe DEF PostElsewhere
<1>3. UNCHANGED <<inbox, archive, ledger, exports, pass>> /\ Current' = Current
  BY DEF PostElsewhere, disk, Current
<1>4. TypeOK'
  BY <1>2, <1>3 DEF IInv, TypeOK, IsFolder
<1>5. PassSound'
  <2> SUFFICES ASSUME pass \notin Idle PROVE PassSound'
    BY <1>3 DEF PassSound
  <2>1. PassSound /\ \A n \in DOMAIN pass.book : pass.book[n].file \in File
    BY PassTyped DEF IInv, Entry
  <2>2. pass.at \in {"posting", "recorded"} => Current \in File
    BY PassTyped DEF IInv, TypeOK
  <2>3. \A f \in File : /\ Delivered(f) => Delivered(f)'
                        /\ \A n : DeliveredUpTo(f, n) => DeliveredUpTo(f, n)'
    BY <1>2, DeliveredStays
  <2> QED
    BY <1>3, <2>1, <2>2, <2>3 DEF PassSound
<1> QED
  BY <1>2, <1>4, <1>5 DEF IInv

-----------------------------------------------------------------------------
(* The steps of a pass *)

\* The end of a pass keeps everything but the memory.
LEMMA RaiseSound ==
    ASSUME IInv, pass' \in Idle, UNCHANGED <<log, disk, exports>>
    PROVE  IInv'
<1>1. UNCHANGED <<log, inbox, archive, ledger, exports>> /\ pass' \in Idle
  BY DEF disk
<1>2. TypeOK'
  BY <1>1 DEF IInv, TypeOK, Log!LogType, IsFolder, Resting, Failed, Idle
<1>3. NothingIsLost'
  BY <1>1 DEF IInv, NothingIsLost, Delivered
<1>4. PassSound'
  BY <1>1, Ended
<1> QED
  BY <1>2, <1>3, <1>4 DEF IInv

LEMMA BeginSound ==
    ASSUME IInv, Begin
    PROVE  IInv'
<1>1. UNCHANGED <<log, inbox, archive, ledger, exports>> /\ pass'.at = "reading"
      /\ pass'.book = ledger /\ pass'.todo \subseteq DOMAIN inbox /\ pass' \in InPass
  BY DEF Begin, disk, InPass, IInv, TypeOK, IsFolder
<1>2. TypeOK'
  BY <1>1 DEF IInv, TypeOK, Log!LogType, IsFolder
<1>3. NothingIsLost'
  BY <1>1 DEF IInv, NothingIsLost, Delivered
<1>4. PassSound'
  BY <1>1, <1>3 DEF PassSound, NothingIsLost
<1> QED
  BY <1>2, <1>3, <1>4 DEF IInv

\* An entry of the book for the file at hand is what Read looks for.
LEMMA EntryOf ==
    ASSUME NEW book \in Seq(Entry), NEW f
    PROVE  /\ EntriesOf(book, f) = {} => \A n \in DOMAIN book : book[n].file # f
           /\ EntriesOf(book, f) # {} => \E n \in DOMAIN book : book[n].file = f
<1>1. DOMAIN book = 1..Len(book)
  OBVIOUS
<1> QED
  BY <1>1, Zenon DEF EntriesOf

LEMMA ReadSound ==
    ASSUME IInv, Read
    PROVE  IInv'
<1> DEFINE f == Current
           e == inbox[f].edition
           prior == EntriesOf(pass.book, f)
<1>1. pass \notin Idle /\ pass.at = "reading" /\ pass.todo # {}
      /\ UNCHANGED <<log, inbox, archive, ledger, exports>>
  BY DEF Read, Resting, Failed, Idle, disk
<1>2. /\ pass.todo \subseteq File /\ pass.todo \subseteq DOMAIN inbox /\ f \in pass.todo
      /\ pass.book \in Seq(Entry)
  BY <1>1, PassTyped DEF IInv
<1>3. e \in Edition
  BY <1>2 DEF IInv, TypeOK, IsFolder, Copy
<1>4. CASE Raise
  BY <1>1, <1>4, RaiseSound DEF disk, Raise, Idle
<1>5. CASE /\ prior # {}
           /\ pass' = [at |-> "recorded", todo |-> pass.todo, book |-> pass.book, doc |-> e]
  <2>1. pass' \in InPass /\ Current' = Current
    BY <1>2, <1>3, <1>5 DEF InPass, Current
  <2>2. TypeOK'
    BY <1>1, <1>2, <1>5, <2>1 DEF IInv, TypeOK, Log!LogType, IsFolder
  <2>3. NothingIsLost' /\ \A g : Delivered(g)' <=> Delivered(g)
    BY <1>1 DEF IInv, NothingIsLost, Delivered
  <2>4. Delivered(f)
    BY <1>1, <1>2, <1>5, EntryOf DEF IInv, PassSound
  <2>5. PassSound'
    BY <1>1, <1>5, <2>1, <2>3, <2>4 DEF IInv, PassSound
  <2> QED
    BY <2>2, <2>3, <2>5 DEF IInv
<1>6. CASE /\ prior = {}
           /\ pass' = [at |-> "posting", todo |-> pass.todo, book |-> pass.book,
                       doc |-> e, sent |-> 0]
  <2>1. pass' \in InPass /\ Current' = Current
    BY <1>2, <1>3, <1>6 DEF InPass, Current
  <2>2. TypeOK'
    BY <1>1, <1>2, <1>6, <2>1 DEF IInv, TypeOK, Log!LogType, IsFolder
  <2>3. NothingIsLost' /\ \A g : Delivered(g)' <=> Delivered(g)
    BY <1>1 DEF IInv, NothingIsLost, Delivered
  <2>4. \A n \in DOMAIN pass.book : pass.book[n].file # f
    BY <1>2, <1>6, EntryOf
  <2>5. 0 <= Len(EventsOf[f]) /\ DeliveredUpTo(f, 0)'
    BY <1>2, PostsTyped DEF DeliveredUpTo
  <2>6. PassSound'
    BY <1>1, <1>6, <2>1, <2>3, <2>4, <2>5 DEF IInv, PassSound
  <2> QED
    BY <2>2, <2>3, <2>6 DEF IInv
<1> QED
  BY <1>4, <1>5, <1>6 DEF Read

LEMMA PostSound ==
    ASSUME IInv, PostEvent
    PROVE  IInv'
<1>1. pass \notin Idle /\ pass.at = "posting" /\ pass.sent < Len(EventsOf[Current])
      /\ UNCHANGED <<inbox, archive, ledger, exports>> /\ UNCHANGED <<disk, exports>>
  BY DEF PostEvent, Resting, Failed, Idle, disk
<1>2. /\ pass \in InPass /\ pass.todo \subseteq File /\ pass.todo # {} /\ Current \in File
      /\ pass.book \in Seq(Entry) /\ pass.sent \in Nat
      /\ \A n \in DOMAIN pass.book : pass.book[n] \in Entry
  BY <1>1, PassTyped DEF IInv, TypeOK
<1>3. PICK f \in File, n \in Nat : f = Current /\ n = pass.sent
  BY <1>2
<1>4. Len(EventsOf[f]) \in Nat /\ n + 1 \in 1..Len(EventsOf[f])
  BY <1>1, <1>3, PostsTyped
<1>5. PICK p \in Post : p = EventsOf[f][n + 1] /\ p = NextEvent
  BY <1>3, <1>4, PostsTyped DEF NextEvent
<1>6. Log!Receive(p.id, p.content)
  BY <1>5 DEF PostEvent
<1>7. Log!LogType' /\ LogGrows /\ NothingIsLost'
  BY <1>1, <1>6, ReceivedSafe
<1>8. CASE Raise
  <2>1. TypeOK'
    BY <1>1, <1>7, <1>8 DEF Raise, IInv, TypeOK, IsFolder, Resting, Failed, Idle
  <2> QED
    BY <1>7, <1>8, <2>1, Ended DEF IInv, Raise, Idle
<1>9. CASE /\ Log!Answer(p.id, p.content) \in {"accepted", "duplicate"}
           /\ pass' = [pass EXCEPT !.sent = @ + 1]
  <2>1. pass' \in InPass /\ pass'.at = "posting" /\ pass'.todo = pass.todo
        /\ pass'.book = pass.book /\ pass'.sent = n + 1 /\ Current' = f
    BY <1>1, <1>2, <1>3, <1>9 DEF InPass, Current
  <2>2. TypeOK'
    BY <1>1, <1>2, <1>7, <2>1 DEF IInv, TypeOK, IsFolder
  <2>3. Known(p)'
    BY <1>6, <1>9, ReceiveKeeps DEF IInv, TypeOK
  <2>4. PassSound
    BY DEF IInv
  <2>5. DeliveredUpTo(f, n + 1)'
    <3>1. DeliveredUpTo(f, n)'
      BY <1>1, <1>3, <1>7, <2>4, DeliveredStays DEF PassSound
    <3> SUFFICES ASSUME NEW k \in 1..(n + 1) PROVE Known(EventsOf[f][k])'
      BY DEF DeliveredUpTo
    <3>2. CASE k = n + 1
      BY <1>5, <2>3, <3>2 DEF Known
    <3>3. CASE k \in 1..n
      BY <3>1, <3>3 DEF DeliveredUpTo
    <3> QED
      BY <1>3, <3>2, <3>3
  <2>6. \A g \in File : Delivered(g) => Delivered(g)'
    BY <1>7, DeliveredStays
  <2>7. \A x \in DOMAIN pass.book : pass.book[x].file \in File
    BY <1>2 DEF Entry
  <2>8. (\A x \in DOMAIN pass.book : Delivered(pass.book[x].file))'
    <3>1. \A x \in DOMAIN pass.book : Delivered(pass.book[x].file)
      BY <1>1, <2>4 DEF PassSound
    <3> QED
      BY <2>1, <2>6, <2>7, <3>1
  <2>9. PassSound'
    BY <1>1, <1>3, <1>4, <2>1, <2>4, <2>5, <2>8 DEF PassSound
  <2> QED
    BY <1>7, <2>2, <2>9 DEF IInv
<1> QED
  BY <1>5, <1>8, <1>9 DEF PostEvent, Settled

LEMMA UnansweredSound ==
    ASSUME IInv, PostUnanswered
    PROVE  IInv'
<1>1. pass \notin Idle /\ pass.at = "posting" /\ pass.sent < Len(EventsOf[Current])
      /\ UNCHANGED <<inbox, archive, ledger, exports>> /\ UNCHANGED <<disk, exports>>
      /\ pass' \in Idle
  BY DEF PostUnanswered, Resting, Failed, Idle, disk, Raise
<1>2. Current \in File /\ pass.sent \in Nat
  BY <1>1, PassTyped DEF IInv, TypeOK
<1>3. NextEvent \in Post
  BY <1>1, <1>2, PostsTyped DEF NextEvent
<1>4. Log!LogType' /\ NothingIsLost'
  BY <1>1, <1>3, ReceivedSafe DEF PostUnanswered
<1>5. TypeOK'
  BY <1>1, <1>4 DEF IInv, TypeOK, IsFolder, Resting, Failed, Idle
<1> QED
  BY <1>1, <1>4, <1>5, Ended DEF IInv

LEMMA RecordSound ==
    ASSUME IInv, Record
    PROVE  IInv'
<1>1. pass \notin Idle /\ pass.at = "posting" /\ pass.sent = Len(EventsOf[Current])
      /\ UNCHANGED <<log, inbox, archive, exports>>
  BY DEF Record, Resting, Failed, Idle
<1>2. /\ pass.todo \subseteq File /\ pass.todo \subseteq DOMAIN inbox /\ pass.todo # {}
      /\ Current \in File /\ pass.book \in Seq(Entry) /\ pass.doc \in Edition
  BY <1>1, PassTyped DEF IInv, TypeOK
<1>3. PICK f \in File : f = Current
  BY <1>2
<1>3a. [file |-> f, edition |-> pass.doc] \in Entry
  BY <1>2, <1>3 DEF Entry
<1>3b. Append(pass.book, [file |-> f, edition |-> pass.doc]) \in Seq(Entry)
  BY <1>2, <1>3a
<1>4. PICK book \in Seq(Entry) :
          /\ book = Append(pass.book, [file |-> f, edition |-> pass.doc])
          /\ ledger' = LastEntries(book)
          /\ pass' = [at |-> "recorded", todo |-> pass.todo, book |-> book, doc |-> pass.doc]
  BY <1>3, <1>3b DEF Record
<1>5. /\ ledger' \in Seq(Entry)
      /\ \A k \in DOMAIN ledger' : \E n \in DOMAIN book : book[n] = ledger'[k]
  BY <1>4, LastEntriesOfBook
<1>6. TypeOK'
  <2>1. pass' \in InPass
    BY <1>2, <1>4 DEF InPass
  <2> QED
    BY <1>1, <1>2, <1>4, <1>5, <2>1 DEF IInv, TypeOK, Log!LogType, IsFolder
<1>7. \A g : Delivered(g)' <=> Delivered(g)
  BY <1>1 DEF Delivered
<1>8. Current' = f
  BY <1>3, <1>4 DEF Current
<1>9. Delivered(f)
  BY <1>1, <1>3, DeliveredKnown DEF IInv, PassSound
<1>10. \A n \in DOMAIN book : Delivered(book[n].file)
  <2>1. \A n \in DOMAIN book : book[n].file = f
            \/ \E m \in DOMAIN pass.book : book[n] = pass.book[m]
    BY <1>2, <1>4
  <2> QED
    BY <1>1, <1>9, <2>1 DEF IInv, PassSound
<1>11. NothingIsLost'
  BY <1>1, <1>5, <1>7, <1>10 DEF IInv, NothingIsLost
<1>12. PassSound'
  BY <1>4, <1>5, <1>7, <1>8, <1>9, <1>10 DEF PassSound
<1> QED
  BY <1>6, <1>11, <1>12 DEF IInv

LEMMA ArchiveSound ==
    ASSUME IInv, Archive
    PROVE  IInv'
<1>1. pass \notin Idle /\ pass.at = "recorded" /\ UNCHANGED <<log, ledger, exports>>
  BY DEF Archive, Resting, Failed, Idle
<1>2. /\ pass.todo \subseteq File /\ pass.todo \subseteq DOMAIN inbox /\ Current \in pass.todo
      /\ pass.book \in Seq(Entry)
  BY <1>1, PassTyped DEF IInv, TypeOK
<1>3. PICK f \in pass.todo : f = Current
  BY <1>2
<1>4. Delivered(f) /\ \A g : Delivered(g)' <=> Delivered(g)
  BY <1>1, <1>3 DEF IInv, PassSound, Delivered
<1>5. CASE Raise /\ UNCHANGED <<inbox, archive>>
  BY <1>1, <1>5, RaiseSound DEF disk, Raise, Idle
<1>6. CASE /\ inbox' = Without(inbox, f)
           /\ pass' = [at |-> "reading", todo |-> pass.todo \ {f}, book |-> pass.book]
           /\ \/ UNCHANGED archive
              \/ archive' = [g \in DOMAIN archive \cup {f} |->
                                IF g = f THEN inbox[f] ELSE archive[g]]
  <2>1. IsFolder(inbox)' /\ DOMAIN inbox' = DOMAIN inbox \ {f}
    BY <1>6 DEF IInv, TypeOK, IsFolder, Without
  <2>2. IsFolder(archive)' /\ DOMAIN archive' \subseteq DOMAIN archive \cup {f}
    BY <1>2, <1>6 DEF IInv, TypeOK, IsFolder
  <2>3. pass' \in InPass
    BY <1>2, <1>6 DEF InPass
  <2>4. TypeOK'
    BY <1>1, <1>2, <1>6, <2>1, <2>2, <2>3 DEF IInv, TypeOK, Log!LogType
  <2>5. NothingIsLost'
    BY <1>1, <1>4, <2>1, <2>2 DEF IInv, NothingIsLost
  <2>6. PassSound'
    BY <1>1, <1>4, <1>6 DEF IInv, PassSound
  <2> QED
    BY <2>4, <2>5, <2>6 DEF IInv
<1> QED
  BY <1>3, <1>5, <1>6 DEF Archive

LEMMA EndPassSound ==
    ASSUME IInv, EndPass
    PROVE  IInv'
<1>1. UNCHANGED <<log, inbox, ledger, exports>> /\ pass' \in Idle
      /\ archive' = [f \in {g \in DOMAIN archive : Kept(g)} |-> archive[f]]
  BY DEF EndPass, Idle
<1>2. IsFolder(archive)' /\ DOMAIN archive' \subseteq DOMAIN archive
  BY <1>1 DEF IInv, TypeOK, IsFolder
<1>3. TypeOK'
  BY <1>1, <1>2 DEF IInv, TypeOK, Log!LogType, IsFolder, Resting, Failed, Idle
<1>4. NothingIsLost'
  BY <1>1, <1>2 DEF IInv, NothingIsLost, Delivered
<1> QED
  BY <1>1, <1>3, <1>4, Ended DEF IInv

-----------------------------------------------------------------------------
(* Theorems *)

LEMMA Initially == Init => IInv
<1> SUFFICES ASSUME Init PROVE IInv
  OBVIOUS
<1>1. TypeOK
  BY DEF Init, TypeOK, Log!Init, Log!LogType, IsFolder, Resting, Failed, Idle
<1>2. NothingIsLost /\ PassSound
  BY DEF Init, NothingIsLost, PassSound, Idle
<1> QED
  BY <1>1, <1>2 DEF IInv

LEMMA Inductive == IInv /\ [Next]_vars => IInv'
<1> SUFFICES ASSUME IInv, [Next]_vars PROVE IInv'
  OBVIOUS
<1>1. ASSUME NEW f \in File, NEW e \in EditionsOf[f], Export(f, e) PROVE IInv'
  <2>1. e \in Edition
    BY HandoffAssumption
  <2> QED
    BY <1>1, <2>1, ExportSound
<1>2. ASSUME NEW p \in OtherPosts, PostElsewhere(p) PROVE IInv'
  BY <1>2, PostElsewhereSound
<1>3. CASE Watcher
  BY <1>3, BeginSound, ReadSound, PostSound, RecordSound, ArchiveSound, EndPassSound DEF Watcher
<1>4. CASE Failure
  BY <1>4, RaiseSound, UnansweredSound DEF Failure, Crash, Idle
<1>5. CASE UNCHANGED vars
  <2>1. UNCHANGED <<log, inbox, archive, ledger, exports, pass>>
    BY <1>5 DEF vars
  <2>2. TypeOK' /\ NothingIsLost'
    BY <2>1 DEF IInv, TypeOK, Log!LogType, IsFolder, NothingIsLost, Delivered
  <2>3. PassSound'
    BY <2>1 DEF IInv, PassSound, Current, Delivered, DeliveredUpTo, Known
  <2> QED
    BY <2>2, <2>3 DEF IInv
<1> QED
  BY <1>1, <1>2, <1>3, <1>4, <1>5 DEF Next

LEMMA Invariant == Spec => []IInv
BY Initially, Inductive, PTL DEF Spec

\* The watcher's memory, its files and the server's log are well typed.
THEOREM TypeCorrect == Spec => []TypeOK
<1>1. IInv => TypeOK
  BY DEF IInv
<1> QED
  BY <1>1, Invariant, PTL

\* No handoff is lost: a file leaves the inbox, is recorded and is archived only
\* with all of its events on the server, whatever crashes, lost answers, repeated
\* exports and competing senders there are (watch_once).
THEOREM NothingLost == Spec => []NothingIsLost
<1>1. IInv => NothingIsLost
  BY DEF IInv
<1> QED
  BY <1>1, Invariant, PTL

\* A file the ledger holds is not posted again (watch_once).
THEOREM RecordedStays == Spec => []RecordedIsNotPosted
<1>1. IInv => RecordedIsNotPosted
  <2> SUFFICES ASSUME IInv, pass.at = "posting", NEW k \in DOMAIN ledger
               PROVE  ledger[k].file # Current
    BY DEF RecordedIsNotPosted
  <2>1. pass \notin Idle
    BY DEF Resting, Failed, Idle
  <2>2. PICK n \in DOMAIN pass.book : pass.book[n] = ledger[k]
    BY <2>1 DEF IInv, PassSound
  <2> QED
    BY <2>1, <2>2 DEF IInv, PassSound
<1> QED
  BY <1>1, Invariant, PTL
=============================================================================
