------------------------------- MODULE Files -------------------------------
(***************************************************************************)
(* The file store (server/file.rs) and the file services that read and     *)
(* change it: fileOpen, fileRead, fileClose and fileDirectory              *)
(* (server/handler.rs, file_service), FileDelete, FileRename and SetFile   *)
(* through ObtainFile (server/services_ext.rs), driven by the client's own *)
(* loops (client/file.rs, mms/services.rs, mms/client_ext.rs).             *)
(*                                                                         *)
(* The store takes no lock across a request: each system call is a step.   *)
(* A name is a number, in the order the listing sorts names; a file is an  *)
(* inode, which outlives its name while it is being written.               *)
(***************************************************************************)
EXTENDS Integers, Sequences, FiniteSets

CONSTANTS
  FUser,      \* clients of the file services
  FName,      \* file names, numbers in listing order
  Stored,     \* the names in the store at the start
  FileLen,    \* chunks of every file
  MaxFileReq  \* bound: requests

ASSUME FilesAssumption == FName \subseteq Nat \ {0} /\ Stored \subseteq FName
                          /\ Stored = 1 .. Cardinality(Stored)
                          /\ FileLen \in Nat \ {0} /\ MaxFileReq \in Nat

VARIABLES
  store,   \* store[n]: the inode under name n, 0 for none
  data,    \* data[i]: the chunks of inode i
  frsm,    \* the file-read state machines: [id -> [data, pos]], as a set of records
  nextId,  \* FileStoreState.next
  ft,      \* ft[u]: what the user is doing
  nops,    \* requests so far
  kept     \* observation: kept[u], names in the store ever since u began to list

fileVars == <<store, data, frsm, nextId, ft, nops, kept>>

NoOp == [op |-> "none"]
content(u) == [k \in 1 .. FileLen |-> <<u, k>>]

\* The name n is removed from the store; the file under it may be open.
without(n) == [store EXCEPT ![n] = 0]
held == {n \in FName : store[n] # 0}

FilesInit ==
  /\ store = [n \in FName |-> IF n \in Stored THEN n ELSE 0]
  /\ data = [n \in Stored |-> content("device")]
  /\ frsm = {} /\ nextId = 1
  /\ ft = [u \in FUser |-> NoOp]
  /\ kept = [u \in FUser |-> {}]
  /\ nops = 0

newIno == Cardinality(DOMAIN data) + 1
idle(u) == ft[u].op = "none"
doing(u, op) == ft[u].op = op
become(u, r) == ft' = [ft EXCEPT ![u] = r]

-----------------------------------------------------------------------------
(* Reading: Client::read_file                                              *)

\* FileStore::open: the whole file is read when it is opened.
open_machine(n) == [id |-> nextId, data |-> data[store[n]], pos |-> 0]

\* The server's fileOpen.
ServeOpen(n) ==
  /\ store[n] # 0
  /\ frsm' = frsm \cup {open_machine(n)}
  /\ nextId' = nextId + 1
  /\ UNCHANGED <<store, data>>

\* The client opens a file; an open that fails changes nothing.
FileOpen(u, n) ==
  /\ idle(u)
  /\ ServeOpen(n)
  /\ become(u, [op |-> "read", id |-> nextId, got |-> <<>>, was |-> data[store[n]]])

machine(id) == CHOOSE f \in frsm : f.id = id

\* A bug: a read after the first continues one chunk too far.
read_machine_Skips(f) ==
  LET end == IF f.pos + 1 < Len(f.data) THEN f.pos + 1 ELSE Len(f.data)
  IN [chunk |-> SubSeq(f.data, f.pos + 1, end), more |-> end + 1 < Len(f.data),
      after |-> [f EXCEPT !.pos = end + 1]]

\* FileStore::read: a chunk, and whether more follows.
read_machine(f) ==
  LET end == IF f.pos + 1 < Len(f.data) THEN f.pos + 1 ELSE Len(f.data)
  IN [chunk |-> SubSeq(f.data, f.pos + 1, end), more |-> end < Len(f.data),
      after |-> [f EXCEPT !.pos = end]]

\* The server's fileRead.
ServeRead(f) ==
  /\ frsm' = (frsm \ {f}) \cup {read_machine(f).after}
  /\ UNCHANGED <<store, data, nextId>>

\* The client reads to the end (read_to_end), a chunk at a time.
FileRead(u) ==
  /\ doing(u, "read")
  /\ LET f == machine(ft[u].id)
         r == read_machine(f)
     IN /\ ServeRead(f)
        /\ become(u, [ft[u] EXCEPT !.got = @ \o r.chunk, !.op = IF r.more THEN "read" ELSE "close"])

\* FileStore::close.
ServeClose(id) ==
  /\ frsm' = {f \in frsm : f.id # id}
  /\ UNCHANGED <<store, data, nextId>>

\* Whether or not the read succeeded, the client closes the file (close, or a
\* task of its own when the reader is dropped).
FileClose(u) ==
  /\ doing(u, "close")
  /\ ServeClose(ft[u].id)
  /\ become(u, NoOp)

-----------------------------------------------------------------------------
(* Listing: Conn::file_directory                                           *)

ListBegin(u) ==
  /\ idle(u)
  /\ become(u, [op |-> "list", after |-> 0, names |-> <<>>])
  /\ UNCHANGED <<store, data, frsm, nextId>>

\* FileStore::list reads the directory...
ListRead(u) ==
  /\ doing(u, "list")
  /\ become(u, [op |-> "stat", after |-> ft[u].after, names |-> ft[u].names, seen |-> held])
  /\ UNCHANGED <<store, data, frsm, nextId>>

\* ...and then each entry's metadata.  An entry that was removed meanwhile is
\* one whose metadata was read before, one the directory no longer yields, or
\* one whose metadata cannot be read: then the listing as a whole fails.
removed(u) == ft[u].seen \ held

ListFails(u) ==
  /\ doing(u, "stat") /\ removed(u) # {}
  /\ become(u, NoOp)
  /\ UNCHANGED <<store, data, frsm, nextId>>

\* The server's fileDirectory: the entries after the name to continue after,
\* all of them when it is not (or no longer) there.
after_name(a, entries) == IF a \in entries THEN {n \in entries : n > a} ELSE entries

\* FileStore::list sorts by name; a page has one entry.
first_page(ns) == CHOOSE n \in ns : \A k \in ns : n <= k

\* The client keeps the page and, while more follows, asks for the one after
\* its last entry.
ListPage(u) ==
  /\ doing(u, "stat")
  /\ \E gone \in SUBSET removed(u) :
       LET rest == after_name(ft[u].after, ft[u].seen \ gone)
           n == first_page(rest)
       IN IF rest = {} THEN become(u, [op |-> "listed", names |-> ft[u].names])
          ELSE become(u, [op |-> IF rest = {n} THEN "listed" ELSE "list", after |-> n,
                          names |-> Append(ft[u].names, n)])
  /\ UNCHANGED <<store, data, frsm, nextId>>

ListDone(u) ==
  /\ doing(u, "listed")
  /\ become(u, NoOp)
  /\ UNCHANGED <<store, data, frsm, nextId>>

-----------------------------------------------------------------------------
(* Changing the store                                                      *)

FileDelete(u, n) ==
  /\ idle(u) /\ store[n] # 0
  /\ store' = without(n)
  /\ UNCHANGED <<data, frsm, nextId, ft>>

\* FileStore::rename: the file is linked under its new name, unless that is
\* taken, and then the old name is removed.
RenameLink(u, old, new) ==
  /\ idle(u) /\ store[old] # 0 /\ store[new] = 0
  /\ store' = [store EXCEPT ![new] = store[old]]
  /\ become(u, [op |-> "renamed", old |-> old])
  /\ UNCHANGED <<data, frsm, nextId>>

\* The answer is negative when the old name is gone already.
RenameRemove(u) ==
  /\ doing(u, "renamed")
  /\ store' = without(ft[u].old)
  /\ become(u, NoOp)
  /\ UNCHANGED <<data, frsm, nextId>>

-----------------------------------------------------------------------------
(* SetFile: obtain_file, fetch_file, copy_file                             *)

\* The name has to be free; the server then asks the client to open its file.
ObtainBegin(u, dst) ==
  /\ idle(u) /\ store[dst] = 0
  /\ become(u, [op |-> "obtain", dst |-> dst, ino |-> 0, ok |-> FALSE])
  /\ UNCHANGED <<store, data, frsm, nextId>>

\* The client opened its file: the new file is created, if its name is still
\* free.
ObtainCreate(u) ==
  /\ doing(u, "obtain")
  /\ IF store[ft[u].dst] = 0
     THEN /\ store' = [store EXCEPT ![ft[u].dst] = newIno]
          /\ data' = [i \in DOMAIN data \cup {newIno} |-> IF i = newIno THEN <<>> ELSE data[i]]
          /\ become(u, [ft[u] EXCEPT !.op = "copy", !.ino = newIno])
     ELSE become(u, [ft[u] EXCEPT !.op = "release"]) /\ UNCHANGED <<store, data>>
  /\ UNCHANGED <<frsm, nextId>>

\* A chunk comes and is written to the file, whatever its name now is.
ObtainChunk(u) ==
  /\ doing(u, "copy")
  /\ LET i == ft[u].ino
         d == Append(data[i], content(u)[Len(data[i]) + 1])
     IN /\ data' = [data EXCEPT ![i] = d]
        /\ become(u, IF Len(d) < FileLen THEN ft[u] ELSE [ft[u] EXCEPT !.op = "release", !.ok = TRUE])
  /\ UNCHANGED <<store, frsm, nextId>>

\* The client answers a read with an error.
ObtainRefused(u) ==
  /\ doing(u, "copy")
  /\ become(u, [ft[u] EXCEPT !.op = "release"])
  /\ UNCHANGED <<store, data, frsm, nextId>>

\* The client closed its file: the request is answered.
ObtainDone(u) ==
  /\ doing(u, "release")
  /\ store' = IF ft[u].ok THEN store ELSE without(ft[u].dst)
  /\ become(u, NoOp)
  /\ UNCHANGED <<data, frsm, nextId>>

\* The client's open fails, or OBTAIN_TIMEOUT passes while the client is
\* awaited: what is there under the name is deleted.
ObtainFail(u) ==
  /\ ft[u].op \in {"obtain", "copy", "release"}
  /\ store' = without(ft[u].dst)
  /\ become(u, NoOp)
  /\ UNCHANGED <<data, frsm, nextId>>

\* The association ends: the deferred request is dropped where it waits, and
\* a file-read state machine stays open.
Leave(u) ==
  /\ ~idle(u) /\ ~doing(u, "renamed")
  /\ become(u, [op |-> "gone"])
  /\ UNCHANGED <<store, data, frsm, nextId>>

\* The observation: a name leaves it when the store loses it.
Watch == kept' = [u \in FUser |-> IF ft'[u].op = "list" /\ ft[u].op = "none" THEN held
                                  ELSE {n \in kept[u] : store'[n] # 0 /\ ft'[u].op \in {"list", "stat", "listed"}}]

FileRequest(u) ==
  /\ nops < MaxFileReq
  /\ \/ ListBegin(u)
     \/ \E n \in FName : \/ FileOpen(u, n) \/ FileDelete(u, n) \/ ObtainBegin(u, n)
                         \/ \E k \in FName : RenameLink(u, n, k)
  /\ nops' = nops + 1

FileStep(u) ==
  \/ FileRead(u) \/ FileClose(u) \/ ListRead(u) \/ ListFails(u) \/ ListPage(u)
  \/ ListDone(u)
  \/ RenameRemove(u) \/ ObtainCreate(u) \/ ObtainChunk(u) \/ ObtainRefused(u) \/ ObtainDone(u)
  \/ ObtainFail(u) \/ Leave(u)

FileNext == (\E u \in FUser : FileRequest(u) \/ (FileStep(u) /\ UNCHANGED nops)) /\ Watch

-----------------------------------------------------------------------------
FileTypeOK ==
  /\ store \in [FName -> Nat] /\ nextId \in Nat
  /\ \A n \in held : store[n] \in DOMAIN data
  /\ \A f, g \in frsm : f.id = g.id => f = g

\* A file read to its end is the file as it was when it was opened, however
\* the store is changed between the reads: "read whole at open time so a later
\* read cannot fail halfway through a transfer" (server/file.rs).
ReadIsSnapshot == \A u \in FUser : ft[u].op \in {"read", "close"} =>
  IF doing(u, "close") THEN ft[u].got = ft[u].was
  ELSE \E f \in frsm : f.id = ft[u].id /\ ft[u].got \o SubSeq(f.data, f.pos + 1, Len(f.data)) = ft[u].was

\* A listing put together from its pages names every file that was there all
\* the while, whatever is created, renamed and deleted between the pages.
ListingIsComplete ==
  \A u \in FUser : doing(u, "listed") => kept[u] \subseteq {ft[u].names[i] : i \in 1 .. Len(ft[u].names)}

\* What the file services give a client that makes several requests of them.
FilesAreFaithful == ReadIsSnapshot /\ ListingIsComplete

\* A listing names no file twice.  It may: when the name to continue after has
\* been deleted, the next page is the first one again.
ListedOnce ==
  \A u \in FUser : doing(u, "listed") => \A i, k \in 1 .. Len(ft[u].names) :
                                           i # k => ft[u].names[i] # ft[u].names[k]

\* A file under a name is whole or being written by the SetFile that created
\* it.  An association that ends during SetFile leaves part of a file.
StoredIsWhole ==
  \A n \in held : Len(data[store[n]]) = FileLen \/ \E u \in FUser : doing(u, "copy") /\ ft[u].ino = store[n]

\* A SetFile that fails removes only the file it created.  It may remove the
\* file another SetFile has stored under the name since it began.
FailRemovesOwn ==
  [][\A u \in FUser : ft[u].op \in {"obtain", "copy", "release"} /\ ft'[u].op = "none" =>
       \A n \in FName : store'[n] # store[n] => store[n] = ft[u].ino]_fileVars
=============================================================================
