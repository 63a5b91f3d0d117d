----------------------------- MODULE HandoffDelivery -----------------------------
(***************************************************************************)
(* Delivery of QuietWard's handoff files to the server, by the watcher of  *)
(* watch_quietward_handoffs.py.                                            *)
(*                                                                         *)
(* QuietWard (external) exports a file per cycle into the inbox.  A pass   *)
(* of the watcher takes the files in the order of their names, posts the   *)
(* events of each, records it in the ledger and moves it to the archive.   *)
(* Every error raises out of the pass and ends the process; systemd starts *)
(* it again, and what it then knows is what is on the disk: inbox, archive *)
(* and ledger.  A step is one request or one change of the disk, and the   *)
(* process may die between any two of them.                                *)
(*                                                                         *)
(* The server is what EventLog promises, which Ingestion implements.       *)
(***************************************************************************)
EXTENDS Naturals, Sequences, FiniteSets

CONSTANTS
    EventId,
    Content,
    File,           \* names of handoff files, in their order
    EventsOf,       \* the events of a file: a sequence of records id, content
    Edition,        \* what else a file says; digests tell editions apart
    EditionsOf,     \* the editions a file may be exported in
    Malformed,      \* file and edition of the documents _document rejects
    OtherPosts,     \* events that reach the server in other ways
    LedgerLimit,    \* MAX_LEDGER_ENTRIES, 8192
    MaxFiles,       \* --max-files, 256
    ArchiveFiles,   \* --archive-files, 512
    MaxExports      \* bound of the modelled exports

Post == [id : EventId, content : Content]

ASSUME HandoffAssumption ==
    /\ File \subseteq Nat
    /\ EventsOf \in [File -> Seq(Post) \ {<<>>}]
    /\ EditionsOf \in [File -> SUBSET Edition]
    /\ Malformed \subseteq File \X Edition
    /\ OtherPosts \subseteq Post
    /\ LedgerLimit \in Nat \ {0} /\ MaxFiles \in Nat \ {0}
    /\ ArchiveFiles \in Nat /\ MaxExports \in Nat

VARIABLES
    log,            \* what the server has accepted
    inbox,          \* the files waiting, with edition and modification time
    archive,        \* the files moved away, likewise
    ledger,         \* the ledger file, in the order the entries were made
    exports,        \* the names exported so far: the clock of the exporter
    pass            \* the memory of the watcher

vars == <<log, inbox, archive, ledger, exports, pass>>
disk == <<inbox, archive, ledger>>

Log == INSTANCE EventLog

-----------------------------------------------------------------------------
(* State *)

Entry == [file : File, edition : Edition]
Copy == [edition : Edition, mtime : Nat]

IsFolder(d) == DOMAIN d \subseteq File /\ d \in [DOMAIN d -> Copy]

\* Between two passes.  `doc` is the digest of the file at hand, `sent` how many
\* of its events are posted.
Resting == [at |-> "resting"]
\* After the process or a request of it has failed, which may be over next time.
Failed == [at |-> "failed"]
Idle == {Resting, Failed}

\* todo: the files of this pass still to come; book: the ledger in memory.
InPass ==
    [at : {"reading"}, todo : SUBSET File, book : Seq(Entry)]
    \cup [at : {"posting"}, todo : SUBSET File, book : Seq(Entry), doc : Edition, sent : Nat]
    \cup [at : {"recorded"}, todo : SUBSET File, book : Seq(Entry), doc : Edition]

TypeOK ==
    /\ Log!LogType
    /\ IsFolder(inbox) /\ IsFolder(archive)
    /\ ledger \in Seq(Entry)
    /\ exports \in Seq(File)
    /\ pass \in Idle \cup InPass
    /\ pass \notin Idle => pass.todo \subseteq DOMAIN inbox
    /\ pass.at \in {"posting", "recorded"} => pass.todo # {}

Init ==
    /\ Log!Init
    /\ inbox = [f \in {} |-> f]
    /\ archive = [f \in {} |-> f]
    /\ ledger = <<>>
    /\ exports = <<>>
    /\ pass = Resting

\* The file at hand: the first of those to come.
Current == CHOOSE f \in pass.todo : \A g \in pass.todo : f <= g

EntriesOf(book, f) == {book[k].edition : k \in {n \in 1..Len(book) : book[n].file = f}}

Without(folder, f) == [g \in DOMAIN folder \ {f} |-> folder[g]]

\* What is wrong will be wrong next time.
Raise == pass' = Resting

-----------------------------------------------------------------------------
(* Other actors *)

\* QuietWard writes a file, or writes it again.
Export(f, e) ==
    /\ Len(exports) < MaxExports
    /\ exports' = Append(exports, f)
    /\ inbox' = [g \in DOMAIN inbox \cup {f} |->
            IF g = f THEN [edition |-> e, mtime |-> Len(exports')] ELSE inbox[g]]
    /\ UNCHANGED <<log, archive, ledger, pass>>

\* An event comes from elsewhere: ingest_quietward_handoff.py, run by hand, posts
\* the events of a file without a ledger.
PostElsewhere(p) ==
    /\ Log!Receive(p.id, p.content)
    /\ UNCHANGED <<disk, exports, pass>>

-----------------------------------------------------------------------------
(* The watcher.  A definition marked "Fault" is no part of the model: it is *)
(* the one after it as a plausible mistake would make it.                   *)

\* Fault: the ledger starts empty.
BeginUnread ==
    /\ pass \in Idle
    /\ pass' = [at |-> "reading", book |-> <<>>, todo |-> DOMAIN inbox]
    /\ UNCHANGED <<log, disk, exports>>

\* A pass starts with the ledger and the first MaxFiles files.
Begin ==
    /\ pass \in Idle
    /\ pass' = [at |-> "reading", book |-> ledger,
                todo |-> {f \in DOMAIN inbox :
                            Cardinality({g \in DOMAIN inbox : g < f}) < MaxFiles}]
    /\ UNCHANGED <<log, disk, exports>>

\* What _document accepts.
Document(f, e) == <<f, e>> \notin Malformed

\* Read the next file.  One that is recorded only has to be archived, unless it
\* is no longer what was recorded; another must be a valid document.
Read ==
    /\ pass.at = "reading" /\ pass.todo # {}
    /\ LET f == Current
           e == inbox[f].edition
           prior == EntriesOf(pass.book, f)
           here == [at |-> "recorded", todo |-> pass.todo, book |-> pass.book, doc |-> e]
       IN  \/ prior # {} /\ e \in prior /\ pass' = here
           \/ prior # {} /\ e \notin prior /\ Raise
           \/ prior = {} /\ ~Document(f, e) /\ Raise
           \/ /\ prior = {} /\ Document(f, e)
              /\ pass' = [at |-> "posting", todo |-> pass.todo, book |-> pass.book,
                          doc |-> e, sent |-> 0]
    /\ UNCHANGED <<log, disk, exports>>

NextEvent == EventsOf[Current][pass.sent + 1]

\* Fault: any HTTP 409 is a duplicate.
Settled409(id, c) == {"accepted", "duplicate", "conflict"}

\* Fault: an event must be new.
SettledOnce(id, c) == {"accepted"}

\* The answers that count as success (_post_event).
Settled(id, c) == {"accepted", "duplicate"}

\* Post the next event and get the answer.
PostEvent ==
    /\ pass.at = "posting" /\ pass.sent < Len(EventsOf[Current])
    /\ LET p == NextEvent
       IN  /\ Log!Receive(p.id, p.content)
           /\ IF Log!Answer(p.id, p.content) \in Settled(p.id, p.content)
              THEN pass' = [pass EXCEPT !.sent = @ + 1]
              ELSE Raise
    /\ UNCHANGED <<disk, exports>>

\* The answer is lost: the server may know the event, the watcher does not.
PostUnanswered ==
    /\ pass.at = "posting" /\ pass.sent < Len(EventsOf[Current])
    /\ Log!Receive(NextEvent.id, NextEvent.content)
    /\ pass' = Failed
    /\ UNCHANGED <<disk, exports>>

LastEntries(book) ==
    IF Len(book) <= LedgerLimit THEN book
    ELSE SubSeq(book, Len(book) - LedgerLimit + 1, Len(book))

\* All events are posted: enter the file in the ledger and save it.  The limit
\* applies to what is written, the pass keeps all its entries.
Record ==
    /\ pass.at = "posting" /\ pass.sent = Len(EventsOf[Current])
    /\ LET book == Append(pass.book, [file |-> Current, edition |-> pass.doc])
       IN  /\ ledger' = LastEntries(book)
           /\ pass' = [at |-> "recorded", todo |-> pass.todo, book |-> book,
                       doc |-> pass.doc]
    /\ UNCHANGED <<log, inbox, archive, exports>>

\* Move the file that now has this name.  A file of the name in the archive must
\* be the same one, and the new one is dropped.
Archive ==
    /\ pass.at = "recorded"
    /\ LET f == Current
           done == [at |-> "reading", todo |-> pass.todo \ {f}, book |-> pass.book]
       IN  \/ /\ f \notin DOMAIN archive
              /\ archive' = [g \in DOMAIN archive \cup {f} |->
                                IF g = f THEN inbox[f] ELSE archive[g]]
              /\ inbox' = Without(inbox, f)
              /\ pass' = done
           \/ /\ f \in DOMAIN archive /\ archive[f].edition = pass.doc
              /\ inbox' = Without(inbox, f)
              /\ pass' = done
              /\ UNCHANGED archive
           \/ /\ f \in DOMAIN archive /\ archive[f].edition # pass.doc
              /\ Raise
              /\ UNCHANGED <<inbox, archive>>
    /\ UNCHANGED <<log, ledger, exports>>

\* The archive keeps its latest files by modification time and name.
Kept(f) ==
    Cardinality({g \in DOMAIN archive :
        \/ archive[g].mtime > archive[f].mtime
        \/ archive[g].mtime = archive[f].mtime /\ g > f}) < ArchiveFiles

EndPass ==
    /\ pass.at = "reading" /\ pass.todo = {}
    /\ archive' = [f \in {g \in DOMAIN archive : Kept(g)} |-> archive[f]]
    /\ pass' = Resting
    /\ UNCHANGED <<log, inbox, ledger, exports>>

\* The process dies, or a request fails without reaching the table.
Crash ==
    /\ pass \notin Idle
    /\ pass' = Failed
    /\ UNCHANGED <<log, disk, exports>>

Watcher == Begin \/ Read \/ PostEvent \/ Record \/ Archive \/ EndPass
Failure == Crash \/ PostUnanswered

Next ==
    \/ \E f \in File : \E e \in EditionsOf[f] : Export(f, e)
    \/ \E p \in OtherPosts : PostElsewhere(p)
    \/ Watcher
    \/ Failure

Spec == Init /\ [][Next]_vars

\* The process is started again whenever it ends (Restart=on-failure), a pass goes
\* on, and failures end at some time: nobody could deliver anything otherwise.
FairSpec == Spec /\ WF_vars(Watcher) /\ <>[][~Failure]_vars

-----------------------------------------------------------------------------
(* Properties *)

Delivered(f) ==
    \A k \in 1..Len(EventsOf[f]) :
        LET p == EventsOf[f][k]
        IN  p.id \in DOMAIN log /\ log[p.id] = p.content

\* No evidence is lost: once exported, the events of a file are on the server, in
\* its words, before the file leaves the inbox, is entered in the ledger or is in
\* the archive, whatever fails in between (watch_once).
NothingIsLost ==
    /\ \A f \in {exports[k] : k \in DOMAIN exports} : f \in DOMAIN inbox \/ Delivered(f)
    /\ \A f \in DOMAIN archive : Delivered(f)
    /\ \A k \in DOMAIN ledger : Delivered(ledger[k].file)

\* What the ledger holds is not posted again, also after a crash between the
\* ledger and the archive (watch_once reads the ledger before a file).
RecordedIsNotPosted ==
    pass.at = "posting" => \A k \in DOMAIN ledger : ledger[k].file # Current

\* No file can hold up f: none before it is malformed, exists in two editions or
\* claims an event id that something else uses with another content.
Posts == UNION {{EventsOf[f][k] : k \in DOMAIN EventsOf[f]} : f \in File} \cup OtherPosts
Unobstructed(f) ==
    \A g \in {x \in File : x <= f} :
        /\ \A e, d \in EditionsOf[g] : Document(g, e) /\ e = d
        /\ \A k \in DOMAIN EventsOf[g], p \in Posts :
              p.id = EventsOf[g][k].id => p.content = EventsOf[g][k].content

\* Every file is delivered in the end, unless one at its place or ahead of it is
\* refused for good (docs/threat-model.md: the outbox does not remain permanently
\* stuck when an answer is lost).
FilesAreConsumed ==
    \A f \in File : Unobstructed(f) => (f \in DOMAIN inbox ~> f \notin DOMAIN inbox)
=============================================================================
