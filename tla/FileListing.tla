---------------------------- MODULE FileListing ----------------------------
(***************************************************************************)
(* The page that lists files of an Android device (FileListingClient) and  *)
(* the middleware that answers it (FileListing, ExtendedSync): one channel *)
(* for each STAT, LIST or RECV, and a table that is cleared when the first *)
(* entry of a new listing comes.  Files dropped on the page are pushed,    *)
(* each with a row in the table (onFilePushUpdate).                        *)
(*                                                                         *)
(* A listing comes in two parts, the first with the entries the user       *)
(* clicks; table holds the paths of the entries shown.  The link to the    *)
(* parent may be clicked at any time, and the entry it keeps from an older *)
(* listing until the new one's ".." is there is taken to be a directory    *)
(* too.  The chunks of a download are left out, and of a push              *)
(* (FilePushHandler, module FilePush) all but its updates.                 *)
(* External: the user, adb, the pushes.  A reply is received when it is    *)
(* sent, since the server does not depend on what the page does meanwhile, *)
(* except for a close that is sent together with a reply (closing).        *)
(* Bounds: MaxChannels channels are open at a time, and one push of each   *)
(* member of Upload.                                                       *)
(***************************************************************************)
EXTENDS FiniteSets, Naturals

CONSTANTS
  Dir, File, Link,   \* what the device has at the paths
  Nowhere,           \* a path with nothing
  Child,             \* the entries that LIST gives for a directory or a link
  Parent,            \* path.dirname; of the root it is the root
  tempPath,
  Upload,            \* names of files the user drops on the page
  MaxChannels        \* at least 2

Path == Dir \cup File \cup Link \cup {Nowhere}

ASSUME FilesAssumption ==
  /\ Nowhere \notin Dir \cup File \cup Link /\ "" \notin Path /\ tempPath \in Dir
  /\ Dir \cap (File \cup Link) = {}
  /\ Child \in [Dir \cup Link -> SUBSET Path] /\ Parent \in [Path -> Dir \cup Link]
  /\ \A p \in File \cup Link : p \in Child[Parent[p]]

VARIABLES
  open,           \* readyState of the page's own channel is OPEN
  path, requestedPath, requireClean,
  table,          \* the entries shown
  channels,       \* the channels the page waits for
  request,        \* what was asked on each channel, None when there is none
  server,         \* what the server still does for it
  closing,        \* channels whose close message is the next on the socket
  uploads,        \* the pushes under way
  target,         \* the directory each goes to, "" before START
  rows,           \* the pushes that have a row in the table
  expiring,       \* rows whose timer will remove them
  overlapped,     \* history: something was loaded while a listing was not complete
  astray          \* history: a push was updated after the page had left its target

asking == <<channels, request, server, requireClean, requestedPath, overlapped>>
shown == <<path, table, rows, expiring, astray, target>>
vars == <<open, closing, asking, shown, uploads>>

Channel == 1..MaxChannels
None == [cmd |-> "none", path |-> "", pathToLoadAfter |-> ""]
Free == {ch \in Channel : request[ch] = None}

(* Channels whose answer may still put an entry into the table. *)
Listing(chs) ==
  {ch \in chs : /\ server[ch] # "stuck"
                /\ \/ request[ch].cmd = "LIST"
                   \/ request[ch].cmd = "STAT" /\ request[ch].path \in File \cup Link}

Init ==
  /\ open = FALSE
  /\ path \in Path /\ requestedPath = "" /\ requireClean = FALSE
  /\ table = {} /\ rows = {} /\ expiring = {}
  /\ channels = {} /\ closing = {}
  /\ request = [ch \in Channel |-> None] /\ server = [ch \in Channel |-> "idle"]
  /\ target = [u \in Upload |-> ""] /\ uploads = {}
  /\ overlapped = FALSE /\ astray = {}

-----------------------------------------------------------------------------
(* loadContent, when chs are the channels: without an entry it does        *)
(* nothing while the page waits for something.                             *)
Blocked(entry, chs) == ~open \/ (entry = "none" /\ (chs # {} \/ uploads # {}))
Command(entry) == CASE entry = "none" -> "STAT" [] entry = "file" -> "RECV" [] OTHER -> "LIST"
expectNoClean == requireClean                                 \* mutant
expectClean == TRUE

(* entry.isFile() *)
Entry(p) == IF p \in File THEN "file" ELSE "other"

Send(p, entry, after, chs) ==
  LET ch == CHOOSE c \in Free : TRUE IN
  /\ Free # {}
  /\ channels' = chs \cup {ch}
  /\ request' = [request EXCEPT ![ch] = [cmd |-> Command(entry), path |-> p,
                                         pathToLoadAfter |-> after]]
  /\ server' = [server EXCEPT ![ch] = "asked"]
  /\ requireClean' = expectClean
  /\ requestedPath' = p
  /\ overlapped' = (overlapped \/ Listing(chs \ closing') # {})

loadContent(p, entry, after, chs) ==
  IF Blocked(entry, chs)
  THEN channels' = chs /\ UNCHANGED <<request, server, requireClean, requestedPath, overlapped>>
  ELSE Send(p, entry, after, chs)

(* After the end of a push, when ups are the others. *)
reload(ups) ==
  IF open /\ channels = {} /\ ups = {} THEN Send(path, "none", "", channels)
  ELSE UNCHANGED asking

(* addEntry: the first entry of a listing of p clears the table.  The      *)
(* timer of a row that is no longer in it does nothing.                    *)
clearNoRows == UNCHANGED <<rows, expiring, astray, target>>   \* mutant
clearRows ==
  /\ rows' = {} /\ expiring' = {} /\ astray' = {}
  /\ target' = [u \in Upload |-> IF u \in uploads THEN target[u] ELSE ""]

addEntry(p, entries) ==
  IF requireClean
  THEN path' = p /\ table' = entries /\ clearRows
  ELSE table' = table \cup entries /\ UNCHANGED <<path, rows, expiring, astray, target>>

-----------------------------------------------------------------------------
(* The page.                                                               *)

onSocketOpen ==
  /\ ~open /\ open' = TRUE /\ \A ch \in Channel : server[ch] = "idle"
  /\ UNCHANGED <<closing, shown, uploads>>
  /\ Send(path, "none", "", channels)

(* The user clicks an entry.  Its name is resolved against path, which     *)
(* gives any path when the entry is of another directory.                  *)
ClickRow ==
  /\ Cardinality(Free) > 1
  /\ UNCHANGED <<open, closing, shown, uploads>>
  /\ \E e \in table : \E p \in (IF Parent[e] = path THEN {e} ELSE Path) \ {path} :
       loadContent(p, Entry(e), "", channels)

(* The row of a push has a name but no entry. *)
ClickPush ==
  /\ Cardinality(Free) > 1 /\ rows # {}
  /\ UNCHANGED <<open, closing, shown, uploads>>
  /\ \E p \in {e \in File : Parent[e] = path} \cup {Nowhere} : loadContent(p, "none", "", channels)

(* A quick link: that to the parent has the entry of "..", others none. *)
ClickLink ==
  /\ Cardinality(Free) > 1
  /\ UNCHANGED <<open, closing, shown, uploads>>
  /\ \/ Parent[path] # path /\ loadContent(Parent[path], "other", "", channels)
     \/ \E d \in Dir \ {path} : loadContent(d, "none", "", channels)

-----------------------------------------------------------------------------
(* onFilePushUpdate.  Its first lines put the row of the push into the     *)
(* table that is shown, also when the one it was in has been cleared.  A   *)
(* row of that name is used again, and so is its timer.                    *)
showRow(u) ==
  /\ rows' = rows \cup {u}
  /\ astray' = IF target'[u] \in {"", path} THEN astray \ {u} ELSE astray \cup {u}

PushBegins(u) ==
  /\ open /\ u \notin uploads
  /\ uploads' = uploads \cup {u} /\ target' = [target EXCEPT ![u] = ""]
  /\ showRow(u)
  /\ UNCHANGED <<open, closing, asking, path, table, expiring>>

(* sendEventStart (external: AdbkitFilePushStream) asks for getPath(). *)
PushStarts(u) ==
  /\ open /\ u \in uploads /\ target[u] = ""
  /\ target' = [target EXCEPT ![u] = path]
  /\ UNCHANGED <<open, closing, asking, path, table, rows, expiring, astray, uploads>>

PushProgress(u) ==
  /\ open /\ u \in uploads /\ target[u] # ""
  /\ UNCHANGED <<open, closing, asking, path, table, expiring, target, uploads>>
  /\ showRow(u)

PushSucceeds(u) ==
  /\ Cardinality(Free) > 1
  /\ open /\ u \in uploads /\ target[u] # "" /\ uploads' = uploads \ {u}
  /\ UNCHANGED <<open, closing, path, table, expiring, target>>
  /\ showRow(u)
  /\ reload(uploads \ {u})

(* The upload is forgotten at once, and its row after REMOVE_ROW_TIMEOUT. *)
PushFails(u) ==
  /\ open /\ u \in uploads /\ uploads' = uploads \ {u}
  /\ expiring' = expiring \cup {u}
  /\ UNCHANGED <<open, closing, asking, path, table, target>>
  /\ showRow(u)

RemoveRow(u) ==
  /\ Cardinality(Free) > 1
  /\ u \in expiring /\ expiring' = expiring \ {u} /\ rows' = rows \ {u}
  /\ UNCHANGED <<open, closing, path, table, astray, target, uploads>>
  /\ reload(uploads)

Push(u) ==
  \/ PushBegins(u) \/ PushStarts(u) \/ PushProgress(u)
  \/ PushSucceeds(u) \/ PushFails(u) \/ RemoveRow(u)

-----------------------------------------------------------------------------
(* handleReply: what the server sends, and what the page does with it.     *)

(* LIST *)
ReceiveDENT(ch) ==
  /\ closing = {} /\ request[ch].cmd = "LIST" /\ request[ch].path \in Dir \cup Link
  /\ \/ server[ch] = "asked" /\ server' = [server EXCEPT ![ch] = "listing"]
     \/ server[ch] = "listing" /\ server' = [server EXCEPT ![ch] = "listed"]
  /\ addEntry(requestedPath, Child[request[ch].path])
  /\ requestedPath' = IF requireClean THEN "" ELSE requestedPath
  /\ requireClean' = FALSE
  /\ UNCHANGED <<open, channels, request, closing, uploads, overlapped>>

(* STAT: nothing there. *)
StatMissing(ch) ==
  /\ closing = {} /\ request[ch].cmd = "STAT" /\ server[ch] = "asked"
  /\ request[ch].path = Nowhere
  /\ closing' = {ch}
  /\ UNCHANGED <<open, shown, uploads>>
  /\ loadContent(tempPath, "none", "", channels \ {ch})

StatDirectory(ch) ==
  /\ closing = {} /\ request[ch].cmd = "STAT" /\ server[ch] = "asked"
  /\ request[ch].path \in Dir
  /\ closing' = {ch}
  /\ UNCHANGED <<open, shown, uploads>>
  /\ loadContent(request[ch].path, "other", "", channels)

(* What is no directory is shown alone in its own, for which requestedPath *)
(* is set before addEntry.  Then a file is loaded, and its directory after *)
(* it; a link is listed.                                                   *)
StatOther(ch) ==
  /\ closing = {} /\ request[ch].cmd = "STAT" /\ server[ch] = "asked"
  /\ request[ch].path \in File \cup Link
  /\ closing' = {ch}
  /\ addEntry(Parent[request[ch].path], {request[ch].path})
  /\ UNCHANGED <<open, uploads>>
  /\ loadContent(request[ch].path, Entry(request[ch].path), Parent[request[ch].path], channels)

(* finishDownload *)
ReceiveDONE(ch) ==
  /\ closing = {} /\ request[ch].cmd = "RECV" /\ server[ch] = "asked"
  /\ request[ch].path \in File
  /\ closing' = {ch}
  /\ UNCHANGED <<open, shown, uploads>>
  /\ IF request[ch].pathToLoadAfter = "" THEN UNCHANGED asking
     ELSE loadContent(request[ch].pathToLoadAfter, "none", "", channels \ {ch})

(* The listener of close forgets the channel.                              *)
remainingAll(ch) == channels                                  \* mutant
remaining(ch) == channels \ {ch}
onClose(ch) ==
  /\ channels' = remaining(ch)
  /\ request' = [request EXCEPT ![ch] = None]
  /\ server' = [server EXCEPT ![ch] = "idle"]
  /\ closing' = closing \ {ch}
  /\ UNCHANGED <<open, requestedPath, requireClean, overlapped, shown, uploads>>

(* After a reply; after a listing, which is empty for what does not exist, *)
(* is no directory or cannot be read; or after adb has said FAIL to a LIST *)
(* or a STAT.                                                              *)
Close(ch) ==
  /\ \/ ch \in closing
     \/ closing = {} /\ request[ch].cmd \in {"LIST", "STAT"} /\ server[ch] \in {"asked", "listing", "listed"}
  /\ onClose(ch)

(* A promise that is rejected (the device is gone, the file cannot be      *)
(* read) passes the catch of handle(), which returns it without await: it  *)
(* is logged, and the channel is left open.                                *)
Rejected(ch) ==
  /\ closing = {} /\ server[ch] \in {"asked", "listing"}
  /\ server' = [server EXCEPT ![ch] = "stuck"]
  /\ UNCHANGED <<open, requestedPath, requireClean, channels, request, closing, overlapped,
                 shown, uploads>>

(* The page's own channel closes, and with it all others.  No update of a  *)
(* push comes any more, since release clears the listeners.                *)
onSocketClose ==
  /\ open /\ open' = FALSE
  /\ channels' = {} /\ closing' = {}
  /\ server' = [ch \in Channel |-> "stuck"] /\ UNCHANGED request
  /\ UNCHANGED <<requestedPath, requireClean, overlapped, shown, uploads>>

Reply(ch) ==
  \/ Close(ch) \/ Rejected(ch)
  \/ ReceiveDENT(ch) \/ StatMissing(ch) \/ StatDirectory(ch) \/ StatOther(ch)
  \/ ReceiveDONE(ch)

Next ==
  \/ onSocketOpen \/ onSocketClose
  \/ ClickRow \/ ClickPush \/ ClickLink
  \/ \E u \in Upload : Push(u)
  \/ \E ch \in Channel : Reply(ch)

(* Each channel has a connection to adb of its own, whose answers come or  *)
(* fail however often others are answered first.                           *)
Fairness == \A ch \in Channel : SF_vars(Reply(ch))

Spec == Init /\ [][Next]_vars /\ Fairness

-----------------------------------------------------------------------------
(* The entries in the table are those of the directory the page names,     *)
(* unless something was loaded while a listing was not complete or while   *)
(* the page asked what a file or link is: requestedPath and requireClean   *)
(* are one pair for all channels.  Files that are loaded, links, listings  *)
(* that stay empty or are cut, paths that do not exist and pushes, whose   *)
(* end reloads the page, leave no entry of another directory.  Rows of     *)
(* pushes are no entries: RowsAreHome is about them.                       *)
Entries == IF path \in Dir \cup Link THEN Child[path] ELSE {}
ListingIsOne == ~overlapped => table \subseteq Entries

(* The row of a push is in the table of the directory the file goes to,    *)
(* unless an update of it came when the page had left that directory: a    *)
(* row is put into whatever table is shown.  The page may have moved       *)
(* before START, since the target is the path at that time, and loads may  *)
(* overlap.                                                                *)
RowsAreHome == \A u \in rows \ astray : target[u] \in {"", path}

(* Every channel the page waits for ends, so that its quick links work     *)
(* again when no push is under way, unless a rejected promise left it      *)
(* open.                                                                   *)
LinksComeBack == \A ch \in Channel : ch \in channels ~> ch \notin channels \/ server[ch] = "stuck"
=============================================================================
