---------------------------- MODULE Page_proofs ----------------------------
(***************************************************************************)
(* Proofs about two parts of a page: FileListing, for every file system,   *)
(* every number of channels and every set of pushes (the types,            *)
(* ListingIsOne and RowsAreHome), and the fingers of                       *)
(* FeaturedInteractionHandler, for every finite set of them                *)
(* (FingersFollow).                                                        *)
(***************************************************************************)
EXTENDS MCPage, SequenceTheorems, FiniteSetTheorems, WellFoundedInduction, TLAPS

-----------------------------------------------------------------------------
(* FileListing.                                                            *)

Busy(ch) == server[ch] \in {"asked", "listing", "listed"}
Listable == Dir \cup Link
Request == [cmd : {"none", "STAT", "LIST", "RECV"}, path : Path \cup {""},
            pathToLoadAfter : Listable \cup {""}]
Server == {"idle", "asked", "listing", "listed", "stuck"}

TypeOK ==
  /\ open \in BOOLEAN /\ requireClean \in BOOLEAN /\ overlapped \in BOOLEAN
  /\ path \in Path /\ requestedPath \in Path \cup {""}
  /\ requireClean => requestedPath \in Path
  /\ table \subseteq Path
  /\ channels \subseteq Channel /\ closing \subseteq Channel
  /\ request \in [Channel -> Request] /\ server \in [Channel -> Server]

(* The page waits for every channel the server still works on, except for  *)
(* one it has just had a reply from; without its own channel for none.     *)
Awaited ==
  /\ \A ch \in Channel : Busy(ch) /\ ch \notin closing => ch \in channels
  /\ \A ch \in closing : request[ch].cmd \in {"STAT", "RECV"}
  /\ ~open => /\ channels = {} /\ closing = {}
              /\ \A ch \in Channel : ~Busy(ch)

(* The first entry of the listing that is under way names its directory,   *)
(* and after it the page does.                                             *)
ListingNamed ==
  ~overlapped =>
    \A ch \in Channel : request[ch].cmd = "LIST" /\ server[ch] \in {"asked", "listing"} =>
      request[ch].path = IF requireClean THEN requestedPath ELSE path

(* While the page asks what a file or a link is, it waits for no listing,  *)
(* and the answer will clear the table.                                    *)
AskedAlone ==
  ~overlapped =>
    \A ch \in Channel \ closing :
      request[ch].cmd = "STAT" /\ request[ch].path \in File \cup Link /\ server[ch] = "asked" =>
        requireClean /\ Listing(channels \ closing) \subseteq {ch}

Inv == TypeOK /\ Awaited /\ ListingNamed /\ AskedAlone /\ ListingIsOne

-----------------------------------------------------------------------------

(* A new request on a free channel keeps the invariant, when only channels *)
(* that were just answered stop being awaited, and what is at a path is    *)
(* asked only while nothing else is awaited.                               *)
LEMMA SendInv ==
  ASSUME Inv, open',
         NEW p \in Path, NEW entry \in {"none", "file", "other"}, NEW after \in Listable \cup {""},
         NEW chs \in SUBSET Channel,
         Send(p, entry, after, chs), entry = "none" => chs = {},
         closing' \subseteq Channel,
         \A ch \in closing' : request[ch].cmd \in {"STAT", "RECV"},
         \A ch \in Channel : Busy(ch) /\ ch \notin closing' => ch \in chs,
         path' \in Path, table' \subseteq Path, ListingIsOne'
  PROVE  Inv'
<1> DEFINE new == [cmd |-> Command(entry), path |-> p, pathToLoadAfter |-> after]
<1>1. PICK c \in Free :
        /\ channels' = chs \cup {c}
        /\ request' = [request EXCEPT ![c] = new]
        /\ server' = [server EXCEPT ![c] = "asked"]
        /\ requireClean' = TRUE /\ requestedPath' = p
        /\ overlapped' = (overlapped \/ Listing(chs \ closing') # {})
  BY DEF Send, expectClean
<1>2. /\ c \in Channel /\ request[c] = None
      /\ Command(entry) \in {"STAT", "LIST", "RECV"}
      /\ Command(entry) = "STAT" => entry = "none"
  BY DEF Free, Command
<1>3. new \in Request
  BY <1>2 DEF Request
<1>4. TypeOK'
  <2>1. request' \in [Channel -> Request]
    BY <1>1, <1>2, <1>3 DEF Inv, TypeOK
  <2>2. server' \in [Channel -> Server]
    BY <1>1, <1>2 DEF Inv, TypeOK, Server
  <2>3. overlapped' \in BOOLEAN
    BY <1>1
  <2> QED BY <1>1, <1>2, <2>1, <2>2, <2>3 DEF Inv, TypeOK
<1>5. c \notin closing'
  <2>0. None.cmd = "none"
    BY DEF None
  <2>1. request[c].cmd = "none"
    BY <1>2, <2>0
  <2> QED BY <2>1
<1>6. \A ch \in Channel \ {c} : request'[ch] = request[ch] /\ server'[ch] = server[ch]
  BY <1>1 DEF Inv, TypeOK
<1>7. /\ request'[c].cmd = Command(entry) /\ request'[c].path = p
      /\ server'[c] = "asked"
  BY <1>1, <1>2 DEF Inv, TypeOK
<1>8. Awaited'
  <2>1. \A ch \in Channel : Busy(ch)' /\ ch \notin closing' => ch \in channels'
    BY <1>1, <1>6 DEF Busy
  <2>2. \A ch \in closing' : request'[ch].cmd \in {"STAT", "RECV"}
    BY <1>5, <1>6
  <2> QED BY <2>1, <2>2 DEF Awaited
<1>9. ListingNamed'
  <2> SUFFICES ASSUME ~overlapped', NEW ch \in Channel,
                      request'[ch].cmd = "LIST", server'[ch] \in {"asked", "listing"}
               PROVE  request'[ch].path = requestedPath'
    BY <1>1 DEF ListingNamed
  <2>1. CASE ch = c
    BY <2>1, <1>1, <1>7
  <2>2. CASE ch # c
    <3>1. request[ch].cmd = "LIST" /\ server[ch] \in {"asked", "listing"}
      BY <2>2, <1>6
    <3>2. ch \in chs \ closing'
      BY <3>1 DEF Busy
    <3>3. ch \in Listing(chs \ closing')
      BY <3>1, <3>2 DEF Listing
    <3> QED BY <3>3, <1>1
  <2> QED BY <2>1, <2>2
<1>10. AskedAlone'
  <2> SUFFICES ASSUME ~overlapped', NEW ch \in Channel \ closing',
                      request'[ch].cmd = "STAT", request'[ch].path \in File \cup Link,
                      server'[ch] = "asked"
               PROVE  channels' \subseteq {ch}
    BY <1>1 DEF AskedAlone, Listing
  <2>1. ch = c
    <3> SUFFICES ASSUME ch # c PROVE FALSE
      OBVIOUS
    <3>1. /\ request[ch].cmd = "STAT" /\ request[ch].path \in File \cup Link
          /\ server[ch] = "asked"
      BY <1>6
    <3>2. ch \in Listing(chs \ closing')
      BY <3>1 DEF Listing, Busy
    <3> QED BY <3>2, <1>1
  <2>2. chs = {}
    BY <2>1, <1>2, <1>7
  <2> QED BY <2>1, <2>2, <1>1
<1> QED BY <1>4, <1>8, <1>9, <1>10 DEF Inv

(* loadContent keeps the invariant, also when it is blocked and nothing    *)
(* else changes.                                                           *)
LEMMA LoadInv ==
  ASSUME Inv, UNCHANGED open,
         NEW p \in Path, NEW entry \in {"none", "file", "other"}, NEW after \in Listable \cup {""},
         NEW chs \in SUBSET channels,
         loadContent(p, entry, after, chs),
         closing \subseteq closing', closing' \subseteq Channel,
         \A ch \in closing' : request[ch].cmd \in {"STAT", "RECV"},
         \A ch \in Channel : Busy(ch) /\ ch \notin closing' => ch \in chs,
         ~open => closing' = {},
         path' \in Path, table' \subseteq Path, ListingIsOne',
         Blocked(entry, chs) => UNCHANGED <<path, table>>
  PROVE  Inv'
<1>0. chs \in SUBSET Channel
  BY DEF Inv, TypeOK
<1>1. CASE Blocked(entry, chs)
  <2>1. /\ channels' = chs
        /\ UNCHANGED <<open, path, table, request, server, requireClean, requestedPath, overlapped>>
    BY <1>1 DEF loadContent
  <2>2. TypeOK'
    BY <2>1 DEF Inv, TypeOK
  <2>3. Awaited'
    <3>1. \A ch \in Channel : Busy(ch)' /\ ch \notin closing' => ch \in channels'
      BY <2>1 DEF Busy
    <3>2. \A ch \in closing' : request'[ch].cmd \in {"STAT", "RECV"}
      BY <2>1
    <3>3. ~open' => /\ channels' = {} /\ closing' = {}
                    /\ \A ch \in Channel : ~Busy(ch)'
      <4>1. CASE open
        BY <2>1, <4>1
      <4>2. CASE ~open
        <5>1. channels = {} /\ \A ch \in Channel : ~Busy(ch)
          BY <4>2 DEF Inv, Awaited
        <5>2. channels' = {} /\ closing' = {}
          BY <2>1, <4>2, <5>1
        <5>3. \A ch \in Channel : ~Busy(ch)'
          BY <2>1, <5>1 DEF Busy
        <5> QED BY <5>2, <5>3
      <4> QED BY <4>1, <4>2
    <3> QED BY <3>1, <3>2, <3>3 DEF Awaited
  <2>4. ListingNamed'
    BY <2>1 DEF Inv, ListingNamed
  <2>5. AskedAlone'
    <3>1. channels' \ closing' \subseteq channels \ closing
      BY <2>1
    <3>2. Listing(channels \ closing)' \subseteq Listing(channels \ closing)
      BY <2>1, <3>1 DEF Listing
    <3> QED BY <2>1, <3>2 DEF Inv, AskedAlone
  <2> QED BY <2>2, <2>3, <2>4, <2>5 DEF Inv
<1>2. CASE ~Blocked(entry, chs)
  <2>1. Send(p, entry, after, chs) /\ open' /\ (entry = "none" => chs = {})
    BY <1>2 DEF loadContent, Blocked
  <2> QED BY <1>0, <1>2, <2>1, SendInv
<1> QED BY <1>1, <1>2

-----------------------------------------------------------------------------

(* The initial states. *)
LEMMA InitInv == Init => Inv
<1> SUFFICES ASSUME Init PROVE Inv
  OBVIOUS
<1>1. None \in Request
  BY DEF None, Request
<1>2. TypeOK
  BY <1>1 DEF Init, TypeOK, Server
<1>3. \A ch \in Channel : server[ch] = "idle"
  BY DEF Init
<1>4. Awaited /\ ListingNamed /\ AskedAlone /\ ListingIsOne
  BY <1>3 DEF Init, Awaited, ListingNamed, AskedAlone, ListingIsOne, Busy
<1> QED BY <1>2, <1>4 DEF Inv

(* What leaves the listing as it is, a row of a push alone. *)
LEMMA QuietInv ==
  ASSUME Inv, UNCHANGED <<open, closing, asking, path, table>>
  PROVE  Inv'
<1>1. TypeOK'
  BY DEF Inv, TypeOK, asking
<1>2. ListingIsOne'
  BY DEF Inv, ListingIsOne, Entries, asking
<1>3. Awaited'
  BY DEF Inv, Awaited, Busy, asking
<1>4. ListingNamed'
  BY DEF Inv, ListingNamed, asking
<1>5. AskedAlone'
  BY DEF Inv, AskedAlone, Listing, asking
<1> QED BY <1>1, <1>2, <1>3, <1>4, <1>5 DEF Inv

(* What is shown stays one directory when it does not change. *)
LEMMA StillOne ==
  ASSUME Inv, UNCHANGED <<path, table>>, overlapped => overlapped'
  PROVE  path' \in Path /\ table' \subseteq Path /\ ListingIsOne'
BY DEF Inv, TypeOK, ListingIsOne, Entries

(* The page loads the path it names, while it waits for nothing. *)
LEMMA SendPathInv ==
  ASSUME Inv, Send(path, "none", "", channels), channels = {}, open',
         UNCHANGED <<path, table, closing>>
  PROVE  Inv'
<1>1. path' \in Path /\ table' \subseteq Path /\ ListingIsOne'
  <2>1. overlapped => overlapped'
    BY DEF Send
  <2> QED BY <2>1, StillOne
<1>2. /\ path \in Path /\ closing' \subseteq Channel /\ channels \in SUBSET Channel
      /\ \A ch \in closing' : request[ch].cmd \in {"STAT", "RECV"}
      /\ \A ch \in Channel : Busy(ch) /\ ch \notin closing' => ch \in channels
  BY DEF Inv, TypeOK, Awaited
<1> QED BY <1>1, <1>2, SendInv

(* The user loads something. *)
LEMMA UserLoadsInv ==
  ASSUME Inv, NEW p \in Path, NEW entry \in {"none", "file", "other"},
         loadContent(p, entry, "", channels),
         UNCHANGED <<open, path, table, closing>>
  PROVE  Inv'
<1>1. path' \in Path /\ table' \subseteq Path /\ ListingIsOne'
  <2>1. overlapped => overlapped'
    BY DEF loadContent, Send
  <2> QED BY <2>1, StillOne
<1>2. /\ closing \subseteq closing' /\ closing' \subseteq Channel
      /\ \A ch \in closing' : request[ch].cmd \in {"STAT", "RECV"}
      /\ \A ch \in Channel : Busy(ch) /\ ch \notin closing' => ch \in channels
      /\ ~open => closing' = {}
      /\ channels \in SUBSET channels
  BY DEF Inv, TypeOK, Awaited
<1> QED BY <1>1, <1>2, LoadInv

(* The steps of the page and of the pushes. *)
LEMMA PageInv ==
  ASSUME Inv, \/ onSocketOpen \/ onSocketClose \/ ClickRow \/ ClickPush \/ ClickLink
              \/ \E u \in Upload : Push(u)
  PROVE  Inv'
<1>0. /\ path \in Path /\ table \subseteq Path /\ tempPath \in Path
      /\ \A p \in Path : Parent[p] \in Path
      /\ \A p : Entry(p) \in {"none", "file", "other"}
  BY FilesAssumption DEF Inv, TypeOK, Path, Entry
<1>1. CASE onSocketOpen
  <2>1. channels = {}
    BY <1>1 DEF onSocketOpen, Inv, Awaited
  <2> QED BY <1>1, <2>1, SendPathInv DEF onSocketOpen, shown
<1>2. CASE onSocketClose
  <2>1. UNCHANGED <<path, table, overlapped>>
    BY <1>2 DEF onSocketClose, shown
  <2>2. TypeOK' /\ ListingIsOne'
    <3>1. ListingIsOne'
      BY <2>1 DEF Inv, ListingIsOne, Entries
    <3>2. server' \in [Channel -> Server]
      BY <1>2 DEF onSocketClose, Server
    <3>3. open' = FALSE /\ channels' = {} /\ closing' = {}
          /\ UNCHANGED <<path, table, overlapped, requestedPath, requireClean, request>>
      BY <1>2 DEF onSocketClose, shown
    <3> QED BY <3>1, <3>2, <3>3 DEF Inv, TypeOK
  <2>3. \A ch \in Channel : server'[ch] = "stuck"
    BY <1>2 DEF onSocketClose
  <2>4. Awaited' /\ ListingNamed' /\ AskedAlone'
    BY <1>2, <2>3 DEF onSocketClose, Awaited, ListingNamed, AskedAlone, Busy
  <2> QED BY <2>2, <2>4 DEF Inv
<1>3. CASE ClickRow
  <2>1. PICK e \in table : \E p \in (IF Parent[e] = path THEN {e} ELSE Path) \ {path} :
          loadContent(p, Entry(e), "", channels)
    BY <1>3 DEF ClickRow
  <2>2. PICK p \in (IF Parent[e] = path THEN {e} ELSE Path) \ {path} :
          loadContent(p, Entry(e), "", channels)
    BY <2>1
  <2>3. p \in Path
    BY <1>0, <2>1, <2>2
  <2> QED BY <1>0, <1>3, <2>2, <2>3, UserLoadsInv DEF ClickRow, shown
<1>4. CASE ClickPush
  <2>1. PICK p \in {e \in File : Parent[e] = path} \cup {Nowhere} :
          loadContent(p, "none", "", channels)
    BY <1>4 DEF ClickPush
  <2>2. p \in Path
    BY DEF Path
  <2> QED BY <1>4, <2>1, <2>2, UserLoadsInv DEF ClickPush, shown
<1>5. CASE ClickLink
  <2>1. PICK p \in Path, entry \in {"none", "other"} : loadContent(p, entry, "", channels)
    BY <1>0, <1>5 DEF ClickLink, Path
  <2> QED BY <1>5, <2>1, UserLoadsInv DEF ClickLink, shown
<1>6. ASSUME NEW u \in Upload, Push(u) PROVE Inv'
  <2>1. UNCHANGED <<open, closing, path, table>>
    BY <1>6 DEF Push, PushBegins, PushStarts, PushProgress, PushSucceeds, PushFails, RemoveRow
  <2>2. UNCHANGED asking \/ \E ups : reload(ups)
    BY <1>6 DEF Push, PushBegins, PushStarts, PushProgress, PushSucceeds, PushFails, RemoveRow
  <2>3. CASE UNCHANGED asking
    BY <2>1, <2>3, QuietInv
  <2>4. CASE ~UNCHANGED asking
    <3>1. open /\ channels = {} /\ Send(path, "none", "", channels)
      BY <2>2, <2>4 DEF reload
    <3> QED BY <2>1, <3>1, SendPathInv
  <2> QED BY <2>3, <2>4
<1> QED BY <1>1, <1>2, <1>3, <1>4, <1>5, <1>6

(* A reply that makes the page load something, before the close message    *)
(* of its channel.                                                         *)
LEMMA ReplyLoadsInv ==
  ASSUME Inv, NEW ch \in Channel, closing = {}, server[ch] = "asked",
         request[ch].cmd \in {"STAT", "RECV"},
         NEW p \in Path, NEW entry \in {"none", "file", "other"}, NEW after \in Listable \cup {""},
         NEW chs, chs = channels \/ chs = channels \ {ch},
         loadContent(p, entry, after, chs),
         UNCHANGED open, closing' = {ch},
         path' \in Path, table' \subseteq Path, ListingIsOne',
         entry = "none" => UNCHANGED <<path, table>>
  PROVE  Inv'
<1>1. open /\ \A c \in Channel : Busy(c) => c \in channels
  BY DEF Inv, TypeOK, Awaited, Busy
<1>2. Blocked(entry, chs) => UNCHANGED <<path, table>>
  BY <1>1 DEF Blocked
<1>3. /\ chs \in SUBSET channels /\ closing \subseteq closing' /\ closing' \subseteq Channel
      /\ \A c \in closing' : request[c].cmd \in {"STAT", "RECV"}
      /\ \A c \in Channel : Busy(c) /\ c \notin closing' => c \in chs
      /\ ~open => closing' = {}
  BY <1>1
<1> QED BY <1>2, <1>3, LoadInv, ZenonT(30)

(* The replies of the server. *)
LEMMA ReplyInv ==
  ASSUME Inv, NEW ch \in Channel, Reply(ch)
  PROVE  Inv'
<1>0. /\ channels \subseteq Channel /\ closing \subseteq Channel
      /\ request \in [Channel -> Request] /\ server \in [Channel -> Server]
      /\ path \in Path /\ table \subseteq Path
  BY DEF Inv, TypeOK
<1>f. /\ tempPath \in Path /\ Listable \subseteq Path /\ Dir \subseteq Path
      /\ \A p \in Path : Parent[p] \in Listable
      /\ \A p \in Listable : Child[p] \subseteq Path
      /\ \A p \in File \cup Link : p \in Path /\ p \in Child[Parent[p]]
      /\ \A p : Entry(p) \in {"file", "other"}
  BY FilesAssumption DEF Path, Entry, Listable
<1>l. ASSUME NEW p \in Path, NEW entry \in {"none", "file", "other"}, NEW after \in Listable \cup {""},
             NEW chs, chs = channels \/ chs = channels \ {ch}, loadContent(p, entry, after, chs),
             closing = {}, server[ch] = "asked", request[ch].cmd \in {"STAT", "RECV"},
             UNCHANGED <<open, shown>>, closing' = {ch}
      PROVE  Inv'
  <2>1. overlapped => overlapped'
    BY <1>l DEF loadContent, Send
  <2>2. UNCHANGED <<path, table>>
    BY <1>l DEF shown
  <2>3. path' \in Path /\ table' \subseteq Path /\ ListingIsOne'
    BY <2>1, <2>2, StillOne
  <2> QED BY <1>l, <2>2, <2>3, ReplyLoadsInv
<1>1. CASE ReceiveDENT(ch)
  <2> DEFINE p == request[ch].path
  <2>1. /\ request[ch].cmd = "LIST" /\ p \in Listable /\ closing = {}
        /\ server[ch] \in {"asked", "listing"} /\ server'[ch] \in {"listing", "listed"}
        /\ \A c \in Channel \ {ch} : server'[c] = server[c]
        /\ server' \in [Channel -> Server]
        /\ UNCHANGED <<open, channels, request, closing, overlapped>>
        /\ requestedPath' = IF requireClean THEN "" ELSE requestedPath
        /\ requireClean' = FALSE
    BY <1>0, <1>1 DEF ReceiveDENT, Listable, Server
  <2>2. /\ path' = IF requireClean THEN requestedPath ELSE path
        /\ table' = IF requireClean THEN Child[p] ELSE table \cup Child[p]
    BY <1>1 DEF ReceiveDENT, addEntry
  <2>3. ~overlapped => path' = p
    BY <2>1, <2>2 DEF Inv, ListingNamed
  <2>4. TypeOK'
    <3>1. table' \subseteq Path
      BY <1>0, <1>f, <2>1, <2>2
    <3> QED BY <2>1, <2>2, <3>1 DEF Inv, TypeOK
  <2>5. ch \in channels /\ open
    BY <2>1 DEF Inv, TypeOK, Awaited, Busy
  <2>6. Awaited'
    <3>1. \A c \in Channel : Busy(c)' => c \in channels'
      <4> TAKE c \in Channel
      <4>1. CASE c = ch
        BY <2>1, <2>5, <4>1
      <4>2. CASE c # ch
        BY <2>1, <4>2 DEF Inv, Awaited, Busy
      <4> QED BY <4>1, <4>2
    <3> QED BY <2>1, <2>5, <3>1 DEF Awaited
  <2>7. ListingNamed'
    BY <2>1, <2>2, <2>3 DEF Inv, ListingNamed
  <2>8. AskedAlone'
    <3> SUFFICES ASSUME ~overlapped', NEW c \in Channel \ closing',
                        request'[c].cmd = "STAT", request'[c].path \in File \cup Link,
                        server'[c] = "asked"
                 PROVE  FALSE
      BY DEF AskedAlone
    <3>1. c # ch /\ server[c] = "asked"
      BY <2>1
    <3>2. Listing(channels \ closing) \subseteq {c}
      BY <2>1, <3>1 DEF Inv, AskedAlone
    <3>3. ch \in Listing(channels \ closing)
      BY <2>1, <2>5 DEF Listing
    <3> QED BY <3>1, <3>2, <3>3
  <2>9. ListingIsOne'
    <3> SUFFICES ASSUME ~overlapped PROVE table' \subseteq Child[p]
      BY <2>1, <2>3 DEF ListingIsOne, Entries, Listable
    <3>1. CASE requireClean
      BY <3>1, <2>2
    <3>2. CASE ~requireClean
      <4>1. path = p
        BY <2>2, <2>3, <3>2
      <4>2. table \subseteq Child[p]
        BY <2>1, <4>1 DEF Inv, ListingIsOne, Entries, Listable
      <4> QED BY <2>2, <3>2, <4>2
    <3> QED BY <3>1, <3>2
  <2> QED BY <2>4, <2>6, <2>7, <2>8, <2>9 DEF Inv
<1>2. CASE StatMissing(ch)
  BY <1>2, <1>f, <1>l DEF StatMissing
<1>3. CASE StatDirectory(ch)
  BY <1>3, <1>f, <1>l DEF StatDirectory
<1>4. CASE StatOther(ch)
  <2> DEFINE p == request[ch].path
  <2>1. /\ p \in File \cup Link /\ closing = {} /\ server[ch] = "asked"
        /\ request[ch].cmd = "STAT" /\ closing' = {ch} /\ UNCHANGED open
        /\ loadContent(p, Entry(p), Parent[p], channels)
        /\ addEntry(Parent[p], {p})
    BY <1>4 DEF StatOther
  <2>2. p \in Path /\ Parent[p] \in Listable /\ p \in Child[Parent[p]]
        /\ Entry(p) \in {"file", "other"}
    BY <1>f, <2>1
  <2>3. path' \in Path /\ table' \subseteq Path
    BY <1>0, <1>f, <2>1, <2>2 DEF addEntry
  <2>4. ListingIsOne'
    <3> SUFFICES ASSUME ~overlapped' PROVE table' \subseteq Entries'
      BY DEF ListingIsOne
    <3>1. ~overlapped
      BY <2>1 DEF loadContent, Send
    <3>2. requireClean
      BY <2>1, <3>1 DEF Inv, AskedAlone
    <3>3. path' = Parent[p] /\ table' = {p}
      BY <2>1, <3>2 DEF addEntry
    <3> QED BY <2>2, <3>3 DEF Entries, Listable
  <2> QED BY <2>1, <2>2, <2>3, <2>4, ReplyLoadsInv
<1>5. CASE ReceiveDONE(ch)
  <2>0. /\ closing = {} /\ server[ch] = "asked" /\ request[ch].cmd = "RECV" /\ closing' = {ch}
        /\ UNCHANGED <<open, shown>>
    BY <1>5 DEF ReceiveDONE
  <2>1. CASE request[ch].pathToLoadAfter = ""
    <3>1. UNCHANGED <<path, table, channels, request, server, requireClean, requestedPath, overlapped>>
      BY <1>5, <2>1 DEF ReceiveDONE, asking, shown
    <3>2. open
      BY <2>0 DEF Inv, TypeOK, Awaited, Busy
    <3>3. TypeOK' /\ ListingIsOne' /\ ListingNamed'
      BY <2>0, <3>1 DEF Inv, TypeOK, ListingIsOne, Entries, ListingNamed
    <3>4. Awaited'
      BY <2>0, <3>1, <3>2 DEF Inv, Awaited, Busy
    <3>5. AskedAlone'
      <4>1. Listing(channels \ closing)' \subseteq Listing(channels \ closing)
        BY <2>0, <3>1 DEF Listing
      <4> QED BY <2>0, <3>1, <4>1 DEF Inv, AskedAlone
    <3> QED BY <3>3, <3>4, <3>5 DEF Inv
  <2>2. CASE request[ch].pathToLoadAfter # ""
    <3>1. request[ch].pathToLoadAfter \in Listable
      BY <1>0, <2>2 DEF Request
    <3>2. loadContent(request[ch].pathToLoadAfter, "none", "", channels \ {ch})
      BY <1>5, <2>2 DEF ReceiveDONE
    <3> QED BY <1>f, <2>0, <3>1, <3>2, <1>l
  <2> QED BY <2>1, <2>2
<1>6. CASE Close(ch)
  <2>1. onClose(ch)
    BY <1>6 DEF Close
  <2>2. None \in Request /\ None.cmd = "none"
    BY DEF None, Request
  <2>3. /\ request'[ch] = None /\ server'[ch] = "idle"
        /\ \A c \in Channel \ {ch} : request'[c] = request[c] /\ server'[c] = server[c]
        /\ request' \in [Channel -> Request] /\ server' \in [Channel -> Server]
        /\ channels' = channels \ {ch} /\ closing' = closing \ {ch}
        /\ UNCHANGED <<open, path, requestedPath, requireClean, table, overlapped>>
    BY <1>0, <2>1, <2>2 DEF onClose, remaining, shown, Server
  <2>4. TypeOK' /\ ListingIsOne'
    BY <2>3 DEF Inv, TypeOK, ListingIsOne, Entries
  <2>5. Awaited'
    <3>1. \A c \in Channel : Busy(c)' /\ c \notin closing' => c \in channels'
      BY <2>3 DEF Inv, Awaited, Busy
    <3>2. \A c \in closing' : request'[c].cmd \in {"STAT", "RECV"}
      BY <1>0, <2>3 DEF Inv, Awaited
    <3>3. ~open' => /\ channels' = {} /\ closing' = {}
                    /\ \A c \in Channel : ~Busy(c)'
      BY <2>3 DEF Inv, Awaited, Busy
    <3> QED BY <3>1, <3>2, <3>3 DEF Awaited
  <2>6. ListingNamed'
    BY <2>2, <2>3, ZenonT(30) DEF Inv, ListingNamed
  <2>7. AskedAlone'
    <3> SUFFICES ASSUME ~overlapped', NEW c \in Channel \ closing',
                        request'[c].cmd = "STAT", request'[c].path \in File \cup Link,
                        server'[c] = "asked"
                 PROVE  requireClean' /\ Listing(channels \ closing)' \subseteq {c}
      BY DEF AskedAlone
    <3>1. c # ch
      BY <2>2, <2>3
    <3>2. /\ c \in Channel \ closing /\ ~overlapped
          /\ request[c].cmd = "STAT" /\ request[c].path \in File \cup Link /\ server[c] = "asked"
      BY <2>3, <3>1
    <3>3. requireClean /\ Listing(channels \ closing) \subseteq {c}
      BY <3>2 DEF Inv, AskedAlone
    <3>4. Listing(channels \ closing)' \subseteq Listing(channels \ closing)
      BY <1>0, <2>3 DEF Listing
    <3> QED BY <2>3, <3>3, <3>4
  <2> QED BY <2>4, <2>5, <2>6, <2>7 DEF Inv
<1>7. CASE Rejected(ch)
  <2>1. /\ server'[ch] = "stuck" /\ \A c \in Channel \ {ch} : server'[c] = server[c]
        /\ server' \in [Channel -> Server]
        /\ UNCHANGED <<open, requestedPath, requireClean, channels, request, closing, overlapped,
                       path, table>>
    BY <1>0, <1>7 DEF Rejected, shown, Server
  <2>2. TypeOK' /\ ListingIsOne'
    BY <2>1 DEF Inv, TypeOK, ListingIsOne, Entries
  <2>3. Awaited' /\ ListingNamed'
    BY <2>1 DEF Inv, Awaited, ListingNamed, Busy
  <2>4. AskedAlone'
    <3>1. Listing(channels \ closing)' \subseteq Listing(channels \ closing)
      BY <1>0, <2>1 DEF Listing
    <3> QED BY <2>1, <3>1 DEF Inv, AskedAlone
  <2> QED BY <2>2, <2>3, <2>4 DEF Inv
<1> QED BY <1>1, <1>2, <1>3, <1>4, <1>5, <1>6, <1>7 DEF Reply

(* Every step keeps the invariant. *)
LEMMA NextInv == Inv /\ [Next]_vars => Inv'
<1> SUFFICES ASSUME Inv, [Next]_vars PROVE Inv'
  OBVIOUS
<1>1. CASE \/ onSocketOpen \/ onSocketClose \/ ClickRow \/ ClickPush \/ ClickLink
           \/ \E u \in Upload : Push(u)
  BY <1>1, PageInv
<1>2. CASE \E ch \in Channel : Reply(ch)
  BY <1>2, ReplyInv
<1>3. CASE UNCHANGED vars
  BY <1>3, QuietInv DEF vars, shown
<1> QED BY <1>1, <1>2, <1>3 DEF Next

-----------------------------------------------------------------------------
(* The rows of pushes. *)

RowsInv ==
  /\ uploads \subseteq Upload /\ target \in [Upload -> Path \cup {""}]
  /\ rows \subseteq Upload /\ RowsAreHome

(* A row that is put into the table, or used again, is home or astray. *)
LEMMA ShowRowHome ==
  ASSUME RowsInv, NEW u \in Upload, showRow(u), UNCHANGED path,
         \A v \in Upload \ {u} : target'[v] = target[v]
  PROVE  rows' \subseteq Upload /\ RowsAreHome'
BY DEF RowsInv, RowsAreHome, showRow

(* A new listing clears the rows, a further entry leaves them. *)
LEMMA AddEntryHome ==
  ASSUME RowsInv, UNCHANGED uploads, NEW p, NEW entries, addEntry(p, entries)
  PROVE  RowsInv'
<1>1. CASE requireClean
  BY <1>1 DEF addEntry, clearRows, RowsInv, RowsAreHome
<1>2. CASE ~requireClean
  BY <1>2 DEF addEntry, RowsInv, RowsAreHome
<1> QED BY <1>1, <1>2

LEMMA RowsStep == Inv /\ RowsInv /\ [Next]_vars => RowsInv'
<1> SUFFICES ASSUME Inv, RowsInv, [Next]_vars PROVE RowsInv'
  OBVIOUS
<1>0. path \in Path
  BY DEF Inv, TypeOK
<1>1. CASE UNCHANGED <<shown, uploads>>
  BY <1>1 DEF shown, RowsInv, RowsAreHome
<1>2. ASSUME NEW u \in Upload, Push(u) PROVE RowsInv'
  <2>1. CASE PushBegins(u)
    <3>1. showRow(u) /\ UNCHANGED path
          /\ target' = [target EXCEPT ![u] = ""] /\ uploads' = uploads \cup {u}
      BY <2>1 DEF PushBegins
    <3>2. rows' \subseteq Upload /\ RowsAreHome'
      BY <3>1, ShowRowHome DEF RowsInv
    <3> QED BY <3>1, <3>2 DEF RowsInv
  <2>2. CASE PushStarts(u)
    BY <1>0, <2>2 DEF PushStarts, RowsInv, RowsAreHome
  <2>3. CASE PushProgress(u) \/ PushSucceeds(u) \/ PushFails(u)
    <3>1. showRow(u) /\ UNCHANGED <<path, target>> /\ uploads' \subseteq uploads
      BY <2>3 DEF PushProgress, PushSucceeds, PushFails
    <3>2. rows' \subseteq Upload /\ RowsAreHome'
      BY <3>1, ShowRowHome
    <3> QED BY <3>1, <3>2 DEF RowsInv
  <2>4. CASE RemoveRow(u)
    BY <2>4 DEF RemoveRow, RowsInv, RowsAreHome
  <2> QED BY <1>2, <2>1, <2>2, <2>3, <2>4 DEF Push
<1>3. ASSUME NEW ch \in Channel, ReceiveDENT(ch) PROVE RowsInv'
  BY <1>3, AddEntryHome DEF ReceiveDENT
<1>4. ASSUME NEW ch \in Channel, StatOther(ch) PROVE RowsInv'
  BY <1>4, AddEntryHome DEF StatOther
<1>5. CASE onSocketOpen \/ onSocketClose \/ ClickRow \/ ClickPush \/ ClickLink
  BY <1>1, <1>5 DEF onSocketOpen, onSocketClose, ClickRow, ClickPush, ClickLink
<1>6. ASSUME NEW ch \in Channel,
             \/ StatMissing(ch) \/ StatDirectory(ch) \/ ReceiveDONE(ch) \/ Close(ch) \/ Rejected(ch)
      PROVE  RowsInv'
  BY <1>1, <1>6 DEF StatMissing, StatDirectory, ReceiveDONE, Close, onClose, Rejected
<1> QED BY <1>1, <1>2, <1>3, <1>4, <1>5, <1>6 DEF Next, Reply, vars

-----------------------------------------------------------------------------

(* The invariant of the listing, for any files and links, any number of    *)
(* channels and any set of pushes.                                         *)
THEOREM ListingSound == Spec => []Inv
<1> QED BY InitInv, NextInv, PTL DEF Spec

(* ListingIsOne: a table that names one directory shows no entry of        *)
(* another, unless loads overlapped, for any files, links and channels.    *)
THEOREM TableIsOne == Spec => []ListingIsOne
<1>1. Inv => ListingIsOne
  BY DEF Inv
<1> QED BY <1>1, ListingSound, PTL

(* RowsAreHome: the row of a push is in the table of the directory the     *)
(* file goes to, unless an update came after the page had left it, for any *)
(* set of pushes.                                                          *)
THEOREM RowsStayHome == Spec => []RowsAreHome
<1>1. Init => RowsInv
  BY DEF Init, RowsInv, RowsAreHome
<1>2. RowsInv => RowsAreHome
  BY DEF RowsInv
<1> QED BY <1>1, <1>2, RowsStep, ListingSound, PTL DEF Spec

-----------------------------------------------------------------------------
(* FeaturedInteractionHandler.  Every event sends the device a sequence of *)
(* messages; Takes says that it fits what is held down before and leaves   *)
(* what is held down after.                                                *)

(* The least of a set of numbers. *)
LEMMA Least ==
  ASSUME NEW T \in SUBSET Nat, T # {}
  PROVE  \E x \in T : \A y \in T : x <= y
<1> DEFINE R == {ss \in Nat \X Nat : ss[1] < ss[2]}
<1>1. IsWellFoundedOn(R, Nat)
  BY NatLessThanWellFounded DEF OpToRel
<1>2. \E x \in T : \A y \in T : ~(<<y, x>> \in R)
  <2> HIDE DEF R
  <2> QED BY <1>1, WFMin
<1>3. \A x, y \in Nat : <<y, x>> \notin R => x <= y
  OBVIOUS
<1> QED BY <1>2, <1>3

-----------------------------------------------------------------------------
(* The device holds what g says after each of the messages ms.             *)
Trace(g, d, ms) ==
  g = [i \in 0..Len(ms) |-> IF i = 0 THEN d ELSE Touch!Hold(g[i - 1], ms[i])]

(* The device takes ms, when it holds d down, and then holds e down. *)
Takes(d, ms, e) ==
  \E g : /\ Trace(g, d, ms) /\ g[Len(ms)] = e
         /\ \A i \in 1..Len(ms) : Touch!Fits(g[i - 1], ms[i])

(* It holds one thing after each.                                          *)
LEMMA TraceIsOne ==
  ASSUME NEW d, NEW ms, Len(ms) \in Nat, NEW g, NEW h, Trace(g, d, ms), Trace(h, d, ms)
  PROVE  g = h
<1>1. /\ g[0] = d /\ h[0] = d
      /\ \A i \in 1..Len(ms) : g[i] = Touch!Hold(g[i - 1], ms[i])
                               /\ h[i] = Touch!Hold(h[i - 1], ms[i])
  <2>1. \A i \in 0..Len(ms) : /\ g[i] = IF i = 0 THEN d ELSE Touch!Hold(g[i - 1], ms[i])
                              /\ h[i] = IF i = 0 THEN d ELSE Touch!Hold(h[i - 1], ms[i])
    BY DEF Trace
  <2>2. 0 \in 0..Len(ms) /\ \A i \in 1..Len(ms) : i \in 0..Len(ms) /\ i # 0
    OBVIOUS
  <2> QED BY <2>1, <2>2
<1> DEFINE T == {i \in 0..Len(ms) : g[i] # h[i]}
<1>2. T = {}
  <2> SUFFICES ASSUME T # {} PROVE FALSE
    OBVIOUS
  <2>0. T \in SUBSET Nat
    OBVIOUS
  <2>1. PICK i \in T : \A j \in T : i <= j
    <3> HIDE DEF T
    <3> QED BY <2>0, Least
  <2>2. i # 0
    BY <1>1, <2>1
  <2>3. i \in 1..Len(ms) /\ i - 1 \in 0..Len(ms) /\ i - 1 \notin T
    BY <2>1, <2>2
  <2> QED BY <1>1, <2>1, <2>3
<1>3. \A i \in 0..Len(ms) : g[i] = h[i]
  BY <1>2
<1> QED BY <1>3 DEF Trace

(* sendMessages, when the device takes the messages.                       *)
LEMMA SendTakes ==
  ASSUME NEW source \in {"touch", "mouse"}, NEW ms, Len(ms) \in Nat, DOMAIN ms = 1..Len(ms), NEW e,
         Takes(held[source], ms, e), Touch!sendMessages(source, ms)
  PROVE  held' = [held EXCEPT ![source] = e] /\ (~confused => ~confused')
<1> DEFINE down == CHOOSE f : f = [i \in 0..Len(ms) |-> IF i = 0 THEN held[source]
                                                         ELSE Touch!Hold(f[i - 1], ms[i])]
<1>1. PICK g : /\ Trace(g, held[source], ms) /\ g[Len(ms)] = e
               /\ \A i \in 1..Len(ms) : Touch!Fits(g[i - 1], ms[i])
  BY DEF Takes
<1>2. Trace(down, held[source], ms)
  <2>1. \E f : f = [i \in 0..Len(ms) |-> IF i = 0 THEN held[source]
                                         ELSE Touch!Hold(f[i - 1], ms[i])]
    BY <1>1 DEF Trace
  <2>2. down = [i \in 0..Len(ms) |-> IF i = 0 THEN held[source]
                                    ELSE Touch!Hold(down[i - 1], ms[i])]
    BY <2>1, Zenon
  <2> HIDE DEF down
  <2> QED BY <2>2 DEF Trace
<1>3. /\ held' = [held EXCEPT ![source] = down[Len(ms)]]
      /\ confused' = (confused \/ \E i \in DOMAIN ms : ~Touch!Fits(down[i - 1], ms[i]))
  BY DEF Touch!sendMessages
<1> HIDE DEF down
<1>4. down = g
  BY <1>1, <1>2, TraceIsOne
<1> QED BY <1>1, <1>3, <1>4

(* Nothing, one message, and what follows.                                 *)
LEMMA TakesNothing == ASSUME NEW d PROVE Takes(d, <<>>, d)
<1>1. Trace([i \in 0..0 |-> d], d, <<>>)
  BY DEF Trace
<1> QED BY <1>1 DEF Takes

LEMMA TakesOne ==
  ASSUME NEW d, NEW m, Touch!Fits(d, m)
  PROVE  Takes(d, <<m>>, Touch!Hold(d, m))
<1> DEFINE g == [i \in 0..1 |-> IF i = 0 THEN d ELSE Touch!Hold(d, m)]
<1>1. /\ g[0] = d /\ g[1] = Touch!Hold(d, m) /\ Len(<<m>>) = 1 /\ <<m>>[1] = m
      /\ \A i \in 0..1 : i = 0 \/ i = 1
  OBVIOUS
<1>2. Trace(g, d, <<m>>)
  <2>1. \A i \in 0..1 : (IF i = 0 THEN d ELSE Touch!Hold(g[i - 1], <<m>>[i]))
                        = IF i = 0 THEN d ELSE Touch!Hold(d, m)
    BY <1>1
  <2> QED BY <1>1, <2>1 DEF Trace
<1> HIDE DEF g
<1>3. \A i \in 1..1 : Touch!Fits(g[i - 1], <<m>>[i])
  BY <1>1
<1> QED BY <1>1, <1>2, <1>3 DEF Takes

LEMMA TakesBoth ==
  ASSUME NEW S, NEW q \in Seq(S), NEW r \in Seq(S), NEW d, NEW e, NEW f,
         Takes(d, q, e), Takes(e, r, f)
  PROVE  Takes(d, q \o r, f)
<1>1. PICK g : /\ Trace(g, d, q) /\ g[Len(q)] = e
               /\ \A i \in 1..Len(q) : Touch!Fits(g[i - 1], q[i])
  BY DEF Takes
<1>2. PICK h : /\ Trace(h, e, r) /\ h[Len(r)] = f
               /\ \A i \in 1..Len(r) : Touch!Fits(h[i - 1], r[i])
  BY DEF Takes
<1>3. /\ Len(q) \in Nat /\ Len(r) \in Nat /\ Len(q \o r) = Len(q) + Len(r)
      /\ \A i \in 1..Len(q) : (q \o r)[i] = q[i]
      /\ \A i \in 1..Len(r) : (q \o r)[Len(q) + i] = r[i]
  OBVIOUS
<1> DEFINE n == Len(q)  k == n + Len(r)
           c == [i \in 0..k |-> IF i <= n THEN g[i] ELSE h[i - n]]
<1>4. /\ g[0] = d /\ h[0] = e
      /\ \A i \in 1..n : g[i] = Touch!Hold(g[i - 1], q[i])
      /\ \A i \in 1..Len(r) : h[i] = Touch!Hold(h[i - 1], r[i])
  <2>1. /\ \A i \in 0..n : g[i] = IF i = 0 THEN d ELSE Touch!Hold(g[i - 1], q[i])
        /\ \A i \in 0..Len(r) : h[i] = IF i = 0 THEN e ELSE Touch!Hold(h[i - 1], r[i])
    BY <1>1, <1>2 DEF Trace
  <2>2. /\ 0 \in 0..n /\ 0 \in 0..Len(r)
        /\ \A i \in 1..n : i \in 0..n /\ i # 0
        /\ \A i \in 1..Len(r) : i \in 0..Len(r) /\ i # 0
    BY <1>3
  <2> QED BY <2>1, <2>2
<1>5. /\ \A i \in 0..n : c[i] = g[i]
      /\ \A i \in 0..Len(r) : c[n + i] = h[i]
  <2>1. \A i \in 0..n : c[i] = g[i]
    BY <1>3
  <2>2. ASSUME NEW i \in 0..Len(r) PROVE c[n + i] = h[i]
    <3>1. CASE i = 0
      BY <1>1, <1>3, <1>4, <3>1
    <3>2. CASE i # 0
      <4>1. n + i \in 0..k /\ ~(n + i <= n) /\ (n + i) - n = i
        BY <1>3, <3>2
      <4> QED BY <4>1
    <3> QED BY <3>1, <3>2
  <2> QED BY <2>1, <2>2
<1> HIDE DEF c
<1>6. ASSUME NEW i \in 1..k
      PROVE  /\ c[i] = Touch!Hold(c[i - 1], (q \o r)[i])
             /\ Touch!Fits(c[i - 1], (q \o r)[i])
  <2>1. CASE i <= n
    <3>1. i \in 1..n /\ i \in 0..n /\ i - 1 \in 0..n
      BY <1>3, <2>1
    <3> QED BY <1>1, <1>3, <1>4, <1>5, <3>1
  <2>2. CASE i > n
    <3>1. PICK j \in 1..Len(r) : i = n + j
      <4>1. i - n \in 1..Len(r) /\ i = n + (i - n)
        BY <1>3, <2>2
      <4> QED BY <4>1
    <3>2. j \in 0..Len(r) /\ j - 1 \in 0..Len(r) /\ i - 1 = n + (j - 1)
      BY <1>3, <3>1
    <3>3. c[i] = h[j] /\ c[i - 1] = h[j - 1] /\ (q \o r)[i] = r[j]
      BY <1>3, <1>5, <3>1, <3>2
    <3> QED BY <1>2, <1>4, <3>1, <3>3
  <2> QED BY <1>3, <2>1, <2>2
<1>7. Trace(c, d, q \o r)
  <2>1. 0 \in 0..n /\ 0 \in 0..k /\ \A i \in 0..k : i # 0 => i \in 1..k
    BY <1>3
  <2>2. \A i \in 0..k : c[i] = IF i = 0 THEN d ELSE Touch!Hold(c[i - 1], (q \o r)[i])
    BY <1>4, <1>5, <1>6, <2>1
  <2>3. c = [i \in 0..k |-> c[i]]
    BY DEF c
  <2>4. c = [i \in 0..k |-> IF i = 0 THEN d ELSE Touch!Hold(c[i - 1], (q \o r)[i])]
    BY <2>2, <2>3
  <2> QED BY <1>3, <2>4 DEF Trace
<1>8. c[k] = f
  BY <1>2, <1>3, <1>5
<1> QED BY <1>3, <1>6, <1>7, <1>8 DEF Takes

LEMMA SameCardinality == \A S : Touch!Cardinality(S) = Cardinality(S)
BY DEF Touch!Cardinality, Cardinality

(* A sequence of a set has its members, once each. *)
LEMMA SeqOfSet ==
  ASSUME NEW S, IsFiniteSet(S)
  PROVE  /\ Touch!SetToSeq(S) \in [1..Cardinality(S) -> S] /\ Cardinality(S) \in Nat
         /\ \A i, j \in 1..Cardinality(S) : Touch!SetToSeq(S)[i] = Touch!SetToSeq(S)[j] => i = j
         /\ \A x \in S : \E i \in 1..Cardinality(S) : Touch!SetToSeq(S)[i] = x
<1> DEFINE n == Cardinality(S)  q == Touch!SetToSeq(S)
<1>1. n \in Nat /\ ExistsBijection(1..n, S)
  BY FS_CardinalityType
<1>2. \E f \in [1..n -> S] : Touch!IsInjective(f)
  BY <1>1 DEF ExistsBijection, Bijection, Injection, IsInjective, Touch!IsInjective
<1>3. q \in [1..n -> S] /\ Touch!IsInjective(q)
  <2>1. q = CHOOSE f \in [1..n -> S] : Touch!IsInjective(f)
    BY SameCardinality DEF Touch!SetToSeq
  <2> HIDE DEF q, n
  <2> QED BY <1>2, <2>1
<1> HIDE DEF q
<1>4. q \in Injection(1..n, S)
  BY <1>3 DEF Injection, IsInjective, Touch!IsInjective
<1>5. Cardinality(1..n) = n
  BY <1>1, FS_Interval
<1>6. q \in Surjection(1..n, S)
  BY <1>4, <1>5, FS_Injection
<1> QED BY <1>1, <1>3, <1>6 DEF Surjection, IsInjective, Touch!IsInjective, q

Ups(D) == {Touch!Message("UP", p) : p \in D}

(* The device holds what is lifted, and nothing of it when all is lifted.  *)
LEMMA TakesUps ==
  ASSUME NEW D, IsFiniteSet(D)
  PROVE  Touch!SetToSeq(Ups(D)) \in Seq(Ups(D)) /\ Takes(D, Touch!SetToSeq(Ups(D)), {})
<1> DEFINE M == Ups(D)  n == Cardinality(M)  q == Touch!SetToSeq(M)
           up == [p \in D |-> Touch!Message("UP", p)]
<1>1. IsFiniteSet(M)
  <2>1. up \in Surjection(D, M)
    BY DEF Surjection, Ups
  <2> HIDE DEF up, M
  <2> QED BY <2>1, FS_Surjection
<1>2. /\ q \in [1..n -> M] /\ n \in Nat
      /\ \A i, j \in 1..n : q[i] = q[j] => i = j
      /\ \A x \in M : \E i \in 1..n : q[i] = x
  <2> HIDE DEF M
  <2> QED BY <1>1, SeqOfSet
<1> HIDE DEF q, n
<1>3. q \in Seq(M) /\ Len(q) = n
  BY <1>2
<1>4. /\ \A i \in 1..n : q[i].action = "UP" /\ q[i].pointer \in D
                         /\ q[i] = Touch!Message("UP", q[i].pointer)
      /\ \A p \in D : \E i \in 1..n : q[i].pointer = p
  <2>1. \A p : Touch!Message("UP", p).action = "UP" /\ Touch!Message("UP", p).pointer = p
    BY DEF Touch!Message
  <2>2. \A i \in 1..n : q[i] \in M
    BY <1>2
  <2>3. \A m \in M : m.action = "UP" /\ m.pointer \in D /\ m = Touch!Message("UP", m.pointer)
    BY <2>1 DEF Ups
  <2>4. \A p \in D : Touch!Message("UP", p) \in M
    BY DEF Ups
  <2> HIDE DEF M
  <2>5. \A p \in D : \E i \in 1..n : q[i] = Touch!Message("UP", p)
    BY <1>2, <2>4
  <2> QED BY <2>1, <2>2, <2>3, <2>5
<1>5. \A i, j \in 1..n : q[i].pointer = q[j].pointer => i = j
  BY <1>2, <1>4
<1> DEFINE g == [i \in 0..n |-> {p \in D : \A j \in 1..i : q[j].pointer # p}]
<1>6. g[0] = D /\ g[n] = {}
  BY <1>2, <1>4
<1>7. ASSUME NEW i \in 1..n
      PROVE  /\ g[i] = Touch!Hold(g[i - 1], q[i]) /\ Touch!Fits(g[i - 1], q[i])
  <2>1. /\ i - 1 \in 0..n /\ i \in 0..n /\ i \in Nat
        /\ \A j \in 1..i : j = i \/ j \in 1..(i - 1)
        /\ \A j \in 1..(i - 1) : j \in 1..i /\ j \in 1..n /\ j # i
    BY <1>2
  <2>2. g[i] = g[i - 1] \ {q[i].pointer}
    BY <2>1
  <2>3. q[i].pointer \in g[i - 1]
    BY <1>4, <1>5, <2>1
  <2> QED BY <1>4, <2>2, <2>3 DEF Touch!Hold, Touch!Fits
<1>8. g = [i \in 0..n |-> IF i = 0 THEN D ELSE Touch!Hold(g[i - 1], q[i])]
  <2>1. \A i \in 0..n : g[i] = IF i = 0 THEN D ELSE Touch!Hold(g[i - 1], q[i])
    <3>1. \A i \in 0..n : i # 0 => i \in 1..n
      BY <1>2
    <3> HIDE DEF g
    <3> QED BY <1>6, <1>7, <3>1
  <2>2. g = [i \in 0..n |-> g[i]]
    OBVIOUS
  <2> HIDE DEF g
  <2> QED BY <2>1, <2>2
<1> HIDE DEF g
<1> QED BY <1>3, <1>6, <1>7, <1>8 DEF Takes, Trace, q

-----------------------------------------------------------------------------
(* FeaturedInteractionHandler: what the device holds is what the handler   *)
(* has stored, until it is released.                                       *)
TouchTypes ==
  /\ listening \in {"no", "yes"}
  /\ fingers \in [Finger -> {"none", "tag", "other"}]
  /\ DOMAIN ids \subseteq Finger /\ \A f \in DOMAIN ids : ids[f] \in Touch!Pointer
  /\ \A f, g \in DOMAIN ids : ids[f] = ids[g] => f = g
  /\ buttons \in Nat /\ storedMouse \subseteq {0, 1}

HeldIsStored ==
  /\ held = [source \in {"touch", "mouse"} |-> held[source]]
  /\ held["touch"] = storedTouch /\ held["mouse"] = storedMouse /\ ~confused
  /\ listening = "no" => storedTouch = {} /\ storedMouse = {}

(* What is stored is of a finger on the tag, or of the mouse over it with  *)
(* a button pressed; the second pointer is without the first astray.       *)
StoredIsDone ==
  /\ \A p \in storedTouch : \E f \in DOMAIN ids : fingers[f] = "tag" /\ ids[f] = p
  /\ storedMouse # {} => mouse # "out" /\ (buttons > 0 \/ strayed)
  /\ 1 \in storedMouse /\ 0 \notin storedMouse => strayed

Fine == TouchTypes /\ HeldIsStored /\ StoredIsDone

FingerInv == listening = "released" \/ Fine

(* The number of a new pointer is free. *)
LEMMA FreeIsFree ==
  ASSUME DOMAIN ids \subseteq Finger
  PROVE  Touch!FreePointer \in Touch!Pointer /\ \A f \in DOMAIN ids : ids[f] # Touch!FreePointer
<1> DEFINE n == Cardinality(Finger)  A == {p \in 0..n : \A f \in DOMAIN ids : ids[f] # p}
<1>1. n \in Nat /\ Touch!Pointer = 0..n
  BY FingerAssumption, FS_CardinalityType, SameCardinality DEF Touch!Pointer
<1>2. A # {}
  <2> SUFFICES ASSUME A = {} PROVE FALSE
    OBVIOUS
  <2> DEFINE h == [p \in 0..n |-> CHOOSE f \in DOMAIN ids : ids[f] = p]
  <2>1. \A p \in 0..n : \E f \in DOMAIN ids : ids[f] = p
    OBVIOUS
  <2>2. \A p \in 0..n : h[p] \in DOMAIN ids /\ ids[h[p]] = p
    BY <2>1
  <2>3. h \in [0..n -> Finger]
    BY <2>2
  <2>4. IsFiniteSet(0..n) /\ Cardinality(0..n) = n + 1
    BY <1>1, FS_Interval
  <2>5. Cardinality(Finger) < Cardinality(0..n)
    BY <1>1, <2>4
  <2> HIDE DEF h, n
  <2>6. PICK x, y \in 0..n : x # y /\ h[x] = h[y]
    <3> DEFINE D == 0..n
    <3>1. IsFiniteSet(D) /\ Cardinality(Finger) < Cardinality(D) /\ h \in [D -> Finger]
      BY <2>3, <2>4, <2>5
    <3> HIDE DEF D
    <3>2. \E x, y \in D : x # y /\ h[x] = h[y]
      BY <3>1, FingerAssumption, FS_PigeonHole
    <3> QED BY <3>2 DEF D
  <2> QED BY <2>2, <2>6
<1>3. PICK x \in A : \A y \in A : x <= y
  <2>1. A \in SUBSET Nat
    BY <1>1
  <2> HIDE DEF A
  <2> QED BY <1>2, <2>1, Least
<1>4. Touch!FreePointer \in A
  <2>1. Touch!FreePointer = CHOOSE p \in A : \A y \in A : p <= y
    BY <1>1 DEF Touch!FreePointer, Touch!Min
  <2> HIDE DEF A
  <2> QED BY <1>3, <2>1
<1> QED BY <1>1, <1>4

(* validateMessage sends what the device takes. *)
Sends(r, S, s) ==
  /\ r.messages \in Seq(S) /\ Takes(s, r.messages, r.stored)

(* What is stored after an action of the pointer p. *)
Stores(action, p, s, tapped) ==
  IF action = "UP" THEN s \ {p}
  ELSE IF action = "DOWN" \/ (action = "MOVE" /\ tapped) THEN s \cup {p}
  ELSE s

HasUp(ms) == \E i \in DOMAIN ms : ms[i].action = "UP"

Messages(p) == {Touch!Message(a, p) : a \in {"DOWN", "MOVE", "UP"}}

(* r answers an action of p, unless its position is invalid. *)
Answers(r, S, action, valid, p, s, tapped) ==
  /\ Sends(r, S, s)
  /\ HasUp(r.messages) <=> valid /\ action = "UP" /\ p \in s
  /\ r.stored = IF valid THEN Stores(action, p, s, tapped) ELSE s

LEMMA ValidFits ==
  ASSUME NEW action \in {"DOWN", "MOVE", "UP"}, NEW p, NEW s, NEW tapped \in BOOLEAN, NEW S,
         Messages(p) \subseteq S
  PROVE  Answers(Touch!validateMessage(action, p, s, tapped), S, action, TRUE, p, s, tapped)
<1> DEFINE r == Touch!validateMessage(action, p, s, tapped)
<1>1. /\ r.messages = <<>> \/ \E a \in {"DOWN", "MOVE", "UP"} : r.messages = <<Touch!Message(a, p)>>
      /\ \/ r.messages = <<>> /\ r.stored = s
         \/ \E a \in {"DOWN", "MOVE", "UP"} :
              /\ r.messages = <<Touch!Message(a, p)>> /\ Touch!Fits(s, Touch!Message(a, p))
              /\ r.stored = Touch!Hold(s, Touch!Message(a, p)) /\ (a = "UP" <=> action = "UP" /\ p \in s)
      /\ action = "UP" /\ p \in s => r.messages # <<>>
      /\ r.stored = Stores(action, p, s, tapped)
  <2> USE DEF Stores, Touch!validateMessage, Touch!Result, Touch!Message, Touch!Fits, Touch!Hold
  <2>1. CASE action = "UP" /\ p \in s
    BY <2>1
  <2>2. CASE action = "UP" /\ p \notin s
    BY <2>2
  <2>3. CASE action = "DOWN" /\ p \in s
    BY <2>3
  <2>4. CASE action = "DOWN" /\ p \notin s
    BY <2>4
  <2>5. CASE action = "MOVE" /\ p \in s
    BY <2>5
  <2>6. CASE action = "MOVE" /\ p \notin s /\ tapped
    BY <2>6
  <2>7. CASE action = "MOVE" /\ p \notin s /\ ~tapped
    BY <2>7
  <2> QED BY <2>1, <2>2, <2>3, <2>4, <2>5, <2>6, <2>7
<1> HIDE DEF r
<1>2. r.messages \in Seq(S)
  <2>1. <<>> \in Seq(S) /\ \A m \in S : <<m>> \in Seq(S)
    OBVIOUS
  <2> QED BY <1>1, <2>1 DEF Messages
<1>3. Takes(s, r.messages, r.stored)
  BY <1>1, TakesNothing, TakesOne
<1>4. HasUp(r.messages) <=> action = "UP" /\ p \in s
  <2>1. \A a : <<Touch!Message(a, p)>>[1].action = a /\ DOMAIN <<Touch!Message(a, p)>> = {1}
    BY DEF Touch!Message
  <2>2. DOMAIN <<>> = {}
    OBVIOUS
  <2> QED BY <1>1, <2>1, <2>2 DEF HasUp
<1> QED BY <1>1, <1>2, <1>3, <1>4 DEF Answers, Sends, r

LEMMA HasUpBoth ==
  ASSUME NEW S, NEW q \in Seq(S), NEW r \in Seq(S)
  PROVE  HasUp(q \o r) <=> HasUp(q) \/ HasUp(r)
<1>1. /\ Len(q) \in Nat /\ Len(r) \in Nat /\ DOMAIN q = 1..Len(q) /\ DOMAIN r = 1..Len(r)
      /\ DOMAIN (q \o r) = 1..(Len(q) + Len(r))
      /\ \A i \in 1..Len(q) : (q \o r)[i] = q[i] /\ i \in 1..(Len(q) + Len(r))
      /\ \A i \in 1..Len(r) : (q \o r)[Len(q) + i] = r[i] /\ Len(q) + i \in 1..(Len(q) + Len(r))
  OBVIOUS
<1>2. \A i \in 1..(Len(q) + Len(r)) : i \in 1..Len(q) \/ \E j \in 1..Len(r) : i = Len(q) + j
  <2>1. ASSUME NEW i \in 1..(Len(q) + Len(r)), i \notin 1..Len(q)
        PROVE  i - Len(q) \in 1..Len(r) /\ i = Len(q) + (i - Len(q))
    BY <1>1, <2>1
  <2> QED BY <2>1
<1>3. ASSUME HasUp(q \o r) PROVE HasUp(q) \/ HasUp(r)
  <2>1. PICK i \in 1..(Len(q) + Len(r)) : (q \o r)[i].action = "UP"
    BY <1>1, <1>3 DEF HasUp
  <2>2. CASE i \in 1..Len(q)
    BY <1>1, <2>1, <2>2 DEF HasUp
  <2>3. CASE i \notin 1..Len(q)
    <3>1. PICK j \in 1..Len(r) : i = Len(q) + j
      BY <1>2, <2>3
    <3>2. r[j].action = "UP"
      BY <1>1, <2>1, <3>1
    <3> QED BY <1>1, <3>2 DEF HasUp
  <2> QED BY <2>2, <2>3
<1>4. ASSUME HasUp(q) PROVE HasUp(q \o r)
  <2>1. PICK i \in 1..Len(q) : q[i].action = "UP"
    BY <1>1, <1>4 DEF HasUp
  <2> QED BY <1>1, <2>1 DEF HasUp
<1>5. ASSUME HasUp(r) PROVE HasUp(q \o r)
  <2>1. PICK i \in 1..Len(r) : r[i].action = "UP"
    BY <1>1, <1>5 DEF HasUp
  <2> QED BY <1>1, <2>1 DEF HasUp
<1> QED BY <1>3, <1>4, <1>5

(* So does a position that is sent only when it is valid. *)
One(action, valid, p, s, tapped) ==
  IF valid THEN Touch!validateMessage(action, p, s, tapped) ELSE Touch!Result(s, <<>>)

LEMMA OneFits ==
  ASSUME NEW action \in {"DOWN", "MOVE", "UP"}, NEW valid \in BOOLEAN, NEW p, NEW s,
         NEW tapped \in BOOLEAN, NEW S, Messages(p) \subseteq S
  PROVE  Answers(One(action, valid, p, s, tapped), S, action, valid, p, s, tapped)
<1>1. CASE valid
  <2>1. Answers(Touch!validateMessage(action, p, s, tapped), S, action, TRUE, p, s, tapped)
    BY ValidFits, Zenon
  <2>2. One(action, valid, p, s, tapped) = Touch!validateMessage(action, p, s, tapped)
    BY <1>1 DEF One
  <2>3. Answers(One(action, valid, p, s, tapped), S, action, TRUE, p, s, tapped)
    BY <2>1, <2>2
  <2> QED BY <1>1, <2>3 DEF Answers
<1>2. CASE ~valid
  <2> DEFINE r == One(action, valid, p, s, tapped)
  <2>1. r.stored = s /\ r.messages = <<>>
    BY <1>2 DEF One, Touch!Result
  <2>2. <<>> \in Seq(S) /\ ~HasUp(<<>>)
    BY DEF HasUp
  <2> HIDE DEF r
  <2>3. Sends(r, S, s) /\ ~HasUp(r.messages)
    BY <2>1, <2>2, TakesNothing DEF Sends
  <2>4. Answers(r, S, action, valid, p, s, tapped)
    BY <1>2, <2>1, <2>3 DEF Answers
  <2> QED BY <2>4 DEF r
<1> QED BY <1>1, <1>2

(* raiseOthers lifts what is left. *)
LEMMA RaiseFits ==
  ASSUME NEW S, NEW s, NEW r, Sends(r, S, s), IsFiniteSet(r.stored), Ups(r.stored) \subseteq S
  PROVE  LET t == Touch!raiseOthers(r) IN
         /\ Sends(t, S, s)
         /\ t.stored = IF HasUp(r.messages) THEN {} ELSE r.stored
<1> DEFINE t == Touch!raiseOthers(r)  ups == Touch!SetToSeq(Ups(r.stored))
<1>1. ups \in Seq(S) /\ Takes(r.stored, ups, {})
  <2>1. ups \in Seq(Ups(r.stored)) /\ Takes(r.stored, ups, {})
    BY TakesUps
  <2> HIDE DEF ups
  <2> QED BY <2>1
<1>2. ups = Touch!SetToSeq({Touch!Message("UP", p) : p \in r.stored})
  BY DEF Ups
<1>3. CASE HasUp(r.messages)
  <2>1. t.messages = r.messages \o ups /\ t.stored = {}
    BY <1>2, <1>3 DEF Touch!raiseOthers, Touch!Result, HasUp
  <2> HIDE DEF t, ups
  <2>2. r.messages \in Seq(S) /\ Takes(s, r.messages, r.stored)
    BY DEF Sends
  <2>3. Takes(s, r.messages \o ups, {}) /\ r.messages \o ups \in Seq(S)
    BY <1>1, <2>2, TakesBoth
  <2> QED BY <1>3, <2>1, <2>3 DEF Sends, t
<1>4. CASE ~HasUp(r.messages)
  <2>1. t = r
    BY <1>4 DEF Touch!raiseOthers, HasUp
  <2> QED BY <1>4, <2>1
<1> QED BY <1>3, <1>4

MouseMessages == Messages(0) \cup Messages(1)

Built(r, action, inside, opposite, s, tapped) ==
  /\ r.messages \in Seq(MouseMessages)
  /\ Takes(s, r.messages, r.stored) /\ r.stored \subseteq {0, 1}
  /\ action = "UP" \/ (action = "MOVE" /\ ~tapped) => r.stored \subseteq s
  /\ 0 \in s /\ 0 \notin r.stored => r.stored = {}
  /\ action = "UP" /\ inside /\ 0 \in s => r.stored = {}
  /\ 1 \in r.stored /\ 0 \notin r.stored /\ 1 \notin s =>
       ~inside /\ TRUE \in opposite /\ (action = "DOWN" \/ tapped)

(* buildTouchEvent sends what the device takes, lifts the second pointer   *)
(* with the first, and adds no pointer that is not pressed.                *)
LEMMA BuildFits ==
  ASSUME NEW action \in {"DOWN", "MOVE", "UP"}, NEW inside \in BOOLEAN,
         NEW opposite \in SUBSET BOOLEAN, NEW s \in SUBSET {0, 1}, NEW tapped \in BOOLEAN
  PROVE  Built(Touch!buildTouchEvent(action, inside, opposite, s, tapped),
               action, inside, opposite, s, tapped)
<1> DEFINE S == MouseMessages
           one == One(action, inside, 0, s, tapped)
           both == TRUE \in opposite
           two == One(action, both, 1, one.stored, tapped)
           pair == Touch!Result(two.stored, one.messages \o two.messages)
           r == Touch!raiseOthers(pair)
<1>1. Touch!buildTouchEvent(action, inside, opposite, s, tapped) = r
  BY DEF Touch!buildTouchEvent, One
<1>2. /\ both \in BOOLEAN
      /\ \A a \in {"DOWN", "MOVE", "UP"}, p \in {0, 1} : Touch!Message(a, p) \in S
  BY DEF Messages, MouseMessages
<1>11. Messages(0) \subseteq S /\ Messages(1) \subseteq S
  BY DEF MouseMessages
<1> HIDE DEF both, S
<1>0. PICK mid : mid = one.stored
  OBVIOUS
<1>3. Answers(one, S, action, inside, 0, s, tapped)
  BY <1>11, OneFits, Zenon
<1>4. Answers(two, S, action, both, 1, mid, tapped)
  <2>1. Answers(One(action, both, 1, mid, tapped), S, action, both, 1, mid, tapped)
    BY <1>2, <1>11, OneFits, Zenon
  <2> QED BY <1>0, <2>1
<1> HIDE DEF one, two
<1>6. pair.stored = two.stored /\ pair.messages = one.messages \o two.messages
  BY DEF Touch!Result
<1> HIDE DEF pair
<1>5. /\ Sends(one, S, s) /\ Sends(two, S, mid)
      /\ HasUp(one.messages) <=> inside /\ action = "UP" /\ 0 \in s
      /\ HasUp(two.messages) <=> both /\ action = "UP" /\ 1 \in mid
  BY <1>3, <1>4 DEF Answers
<1>7. Sends(pair, S, s) /\ (HasUp(pair.messages) <=> HasUp(one.messages) \/ HasUp(two.messages))
  BY <1>0, <1>5, <1>6, TakesBoth, HasUpBoth DEF Sends
<1>8. /\ inside => mid = Stores(action, 0, s, tapped)
      /\ ~inside => mid = s
      /\ both => pair.stored = Stores(action, 1, mid, tapped)
      /\ ~both => pair.stored = mid
  BY <1>0, <1>3, <1>4, <1>6 DEF Answers
<1>15. mid \subseteq {0, 1} /\ pair.stored \subseteq {0, 1}
  BY <1>8 DEF Stores
<1>9. Sends(r, S, s) /\ r.stored = IF HasUp(pair.messages) THEN {} ELSE pair.stored
  <2>1. IsFiniteSet({0, 1})
    <3>1. {0, 1} = 0..1
      OBVIOUS
    <3>2. IsFiniteSet(0..1)
      <4>1. 0 \in Int /\ 1 \in Int
        OBVIOUS
      <4> QED BY <4>1, FS_Interval
    <3> QED BY <3>1, <3>2
  <2>2. IsFiniteSet(pair.stored) /\ Ups(pair.stored) \subseteq S
    BY <1>2, <1>15, <2>1, FS_Subset DEF Ups
  <2> QED BY <1>7, <2>2, RaiseFits
<1> HIDE DEF r
<1>10. /\ r.stored \subseteq {0, 1}
       /\ action = "UP" \/ (action = "MOVE" /\ ~tapped) => r.stored \subseteq s
       /\ 0 \in s /\ 0 \notin r.stored => r.stored = {}
       /\ action = "UP" /\ inside /\ 0 \in s => r.stored = {}
       /\ 1 \in r.stored /\ 0 \notin r.stored /\ 1 \notin s => ~inside /\ both
       /\ 1 \in r.stored /\ 0 \notin r.stored /\ 1 \notin s => action = "DOWN" \/ tapped
  <2>1. CASE action = "UP"
    BY <1>5, <1>7, <1>8, <1>9, <1>15, <2>1 DEF Stores
  <2>2. CASE action = "DOWN"
    BY <1>5, <1>7, <1>8, <1>9, <1>15, <2>2 DEF Stores
  <2>3. CASE action = "MOVE" /\ tapped
    BY <1>5, <1>7, <1>8, <1>9, <1>15, <2>3 DEF Stores
  <2>4. CASE action = "MOVE" /\ ~tapped
    BY <1>5, <1>7, <1>8, <1>9, <1>15, <2>4 DEF Stores
  <2> QED BY <2>1, <2>2, <2>3, <2>4
<1>12. r.messages \in Seq(S) /\ Takes(s, r.messages, r.stored)
  BY <1>9 DEF Sends
<1>13. both => TRUE \in opposite
  BY DEF both
<1>14. Built(r, action, inside, opposite, s, tapped)
  BY <1>10, <1>12, <1>13 DEF Built, S
<1> QED BY <1>1, <1>14

-----------------------------------------------------------------------------
(* The steps.                                                              *)

LEMMA PointerIsOwn ==
  ASSUME TouchTypes, NEW f \in Finger
  PROVE  /\ Touch!PointerOf(f) \in Touch!Pointer
         /\ f \in DOMAIN ids => Touch!PointerOf(f) = ids[f]
         /\ \A g \in DOMAIN ids : ids[g] = Touch!PointerOf(f) => g = f
<1>1. CASE f \in DOMAIN ids
  BY <1>1 DEF TouchTypes, Touch!PointerOf
<1>2. CASE f \notin DOMAIN ids
  <2>1. Touch!PointerOf(f) = Touch!FreePointer
    BY <1>2 DEF Touch!PointerOf
  <2>2. DOMAIN ids \subseteq Finger
    BY DEF TouchTypes
  <2> QED BY <1>2, <2>1, <2>2, FreeIsFree
<1> QED BY <1>1, <1>2

(* getPointerId maps f to a pointer of its own, or unmaps it. *)
LEMMA IdsStayOwn ==
  ASSUME TouchTypes, NEW f \in Finger, NEW action, Touch!getPointerId(action, f)
  PROVE  /\ DOMAIN ids' \subseteq Finger /\ \A g \in DOMAIN ids' : ids'[g] \in Touch!Pointer
         /\ \A g, h \in DOMAIN ids' : ids'[g] = ids'[h] => g = h
         /\ \A g \in DOMAIN ids \ {f} : g \in DOMAIN ids' /\ ids'[g] = ids[g]
         /\ action # "UP" => f \in DOMAIN ids' /\ ids'[f] = Touch!PointerOf(f)
<1>1. PICK p : p = Touch!PointerOf(f)
  OBVIOUS
<1>2. /\ p \in Touch!Pointer
      /\ f \in DOMAIN ids => p = ids[f]
      /\ \A g \in DOMAIN ids : ids[g] = p => g = f
  BY <1>1, PointerIsOwn
<1>3. /\ DOMAIN ids \subseteq Finger /\ \A g \in DOMAIN ids : ids[g] \in Touch!Pointer
      /\ \A g, h \in DOMAIN ids : ids[g] = ids[h] => g = h
  BY DEF TouchTypes
<1>4. CASE f \in DOMAIN ids /\ action = "UP"
  <2>1. ids' = [g \in DOMAIN ids \ {f} |-> ids[g]]
    BY <1>4 DEF Touch!getPointerId
  <2> QED BY <1>3, <1>4, <2>1
<1>5. CASE ~(f \in DOMAIN ids /\ action = "UP")
  <2>1. ids' = [g \in DOMAIN ids \cup {f} |-> IF g = f THEN p ELSE ids[g]]
    BY <1>1, <1>5 DEF Touch!getPointerId
  <2> QED BY <1>1, <1>2, <1>3, <2>1
<1> QED BY <1>4, <1>5

(* formatTouchEvent. *)
LEMMA FormatFits ==
  ASSUME Fine, NEW f \in Finger, NEW action \in {"DOWN", "MOVE", "UP"}, NEW inside \in BOOLEAN,
         Touch!formatTouchEvent(action, f, inside),
         fingers' = [fingers EXCEPT ![f] = IF action = "UP" THEN "none" ELSE "tag"]
  PROVE  Fine'
<1>0. /\ listening' = listening /\ buttons' = buttons /\ mouse' = mouse
      /\ storedMouse' = storedMouse /\ strayed' = strayed
  BY DEF Touch!formatTouchEvent, Touch!mouseVars
<1>1. /\ fingers' \in [Finger -> {"none", "tag", "other"}]
      /\ \A g \in Finger : g # f => fingers'[g] = fingers[g]
      /\ action # "UP" => fingers'[f] = "tag"
  BY DEF Fine, TouchTypes
<1>2. CASE listening # "yes"
  <2>1. UNCHANGED <<ids, storedTouch, held, confused>>
    BY <1>2 DEF Touch!formatTouchEvent
  <2>2. storedTouch = {} /\ storedMouse = {}
    BY <1>2 DEF Fine, TouchTypes, HeldIsStored
  <2>3. TouchTypes'
    BY <1>0, <1>1, <2>1 DEF Fine, TouchTypes
  <2>4. HeldIsStored'
    BY <1>0, <2>1 DEF Fine, HeldIsStored
  <2>5. StoredIsDone'
    BY <1>0, <2>1, <2>2 DEF StoredIsDone
  <2> QED BY <2>3, <2>4, <2>5 DEF Fine
<1>3. CASE listening = "yes"
  <2> DEFINE r == IF inside
                  THEN Touch!validateMessage(action, Touch!PointerOf(f), storedTouch, TRUE)
                  ELSE Touch!liftOutside(Touch!PointerOf(f))
  <2>1. PICK q : q = r
    OBVIOUS
  <2>2. /\ Touch!getPointerId(action, f) /\ storedTouch' = q.stored
        /\ Touch!sendMessages("touch", q.messages)
    BY <1>3, <2>1 DEF Touch!formatTouchEvent
  <2>3. PICK p : p = Touch!PointerOf(f)
    OBVIOUS
  <2>4. PICK s : s = storedTouch
    OBVIOUS
  <2>5. /\ Sends(q, Messages(p), s)
        /\ action = "UP" \/ ~inside => q.stored = s \ {p}
        /\ action # "UP" => q.stored \subseteq s \cup {p}
    <3>1. CASE inside
      <4>1. q = Touch!validateMessage(action, p, s, TRUE)
        BY <2>1, <2>3, <2>4, <3>1
      <4>2. Answers(q, Messages(p), action, TRUE, p, s, TRUE)
        BY <4>1, ValidFits
      <4> QED BY <3>1, <4>2 DEF Answers, Stores
    <3>2. CASE ~inside /\ p \in s
      <4>1. q.stored = s \ {p} /\ q.messages = <<Touch!Message("UP", p)>>
        BY <2>1, <2>3, <2>4, <3>2 DEF Touch!liftOutside, Touch!Result
      <4>2. PICK m : m = Touch!Message("UP", p)
        OBVIOUS
      <4>3. Touch!Fits(s, m) /\ Touch!Hold(s, m) = s \ {p} /\ m \in Messages(p)
        BY <3>2, <4>2 DEF Touch!Message, Touch!Fits, Touch!Hold, Messages
      <4>4. Takes(s, <<m>>, s \ {p}) /\ <<m>> \in Seq(Messages(p))
        BY <4>3, TakesOne
      <4> QED BY <4>1, <4>2, <4>4 DEF Sends
    <3>3. CASE ~inside /\ p \notin s
      <4>1. q.stored = s \ {p} /\ q.stored = s /\ q.messages = <<>>
        BY <2>1, <2>3, <2>4, <3>3 DEF Touch!liftOutside, Touch!Result
      <4>2. Takes(s, <<>>, s) /\ <<>> \in Seq(Messages(p))
        BY TakesNothing
      <4> QED BY <4>1, <4>2 DEF Sends
    <3> QED BY <3>1, <3>2, <3>3
  <2>6. /\ held' = [held EXCEPT !["touch"] = q.stored] /\ ~confused'
    <3>1. Takes(held["touch"], q.messages, q.stored) /\ ~confused
      BY <2>4, <2>5 DEF Fine, HeldIsStored, Sends
    <3>2. Len(q.messages) \in Nat /\ DOMAIN q.messages = 1..Len(q.messages)
      <4>1. q.messages \in Seq(Messages(p))
        BY <2>5 DEF Sends
      <4> HIDE DEF r
      <4> QED BY <4>1
    <3> QED BY <2>2, <3>1, <3>2, SendTakes
  <2> HIDE DEF r
  <2>7. /\ DOMAIN ids' \subseteq Finger /\ \A g \in DOMAIN ids' : ids'[g] \in Touch!Pointer
        /\ \A g, h \in DOMAIN ids' : ids'[g] = ids'[h] => g = h
        /\ \A g \in DOMAIN ids \ {f} : g \in DOMAIN ids' /\ ids'[g] = ids[g]
        /\ action # "UP" => f \in DOMAIN ids' /\ ids'[f] = p
    BY <2>2, <2>3, IdsStayOwn DEF Fine
  <2>8. TouchTypes'
    BY <1>0, <1>1, <2>7 DEF Fine, TouchTypes, Touch!Pointer
  <2>9. HeldIsStored'
    BY <1>0, <1>3, <2>2, <2>6 DEF Fine, HeldIsStored
  <2>10. StoredIsDone'
    <3>1. ASSUME NEW x \in q.stored
          PROVE  \E g \in DOMAIN ids' : fingers'[g] = "tag" /\ ids'[g] = x
      <4>1. CASE x = p
        BY <1>1, <2>5, <2>7, <3>1, <4>1
      <4>2. CASE x # p
        <5>1. x \in s
          BY <2>5, <3>1, <4>2
        <5>2. PICK g \in DOMAIN ids : fingers[g] = "tag" /\ ids[g] = x
          BY <2>4, <5>1 DEF Fine, StoredIsDone
        <5>3. g # f /\ g \in Finger
          BY <2>3, <4>2, <5>2, PointerIsOwn DEF Fine, TouchTypes
        <5> QED BY <1>1, <2>7, <5>2, <5>3
      <4> QED BY <4>1, <4>2
    <3> QED BY <1>0, <2>2, <3>1 DEF Fine, StoredIsDone
  <2> QED BY <2>8, <2>9, <2>10 DEF Fine
<1> QED BY <1>2, <1>3

(* onInteraction, after which b buttons are pressed. *)
LEMMA MouseFits ==
  ASSUME Fine, mouse # "out", UNCHANGED <<listening, fingers, ids, storedTouch>>,
         NEW action \in {"DOWN", "MOVE", "UP"}, NEW inside \in BOOLEAN, NEW b \in Nat,
         action = "DOWN" => b > 0, action = "MOVE" => b = buttons, buttons' = b,
         Touch!onInteraction(action, inside, b)
  PROVE  Fine'
<1>1. CASE listening # "yes"
  <2>1. UNCHANGED <<mouse, storedMouse, held, confused, strayed>>
    BY <1>1 DEF Touch!onInteraction
  <2>2. storedMouse = {}
    BY <1>1 DEF Fine, TouchTypes, HeldIsStored
  <2>3. TouchTypes' /\ HeldIsStored' /\ StoredIsDone'
    BY <2>1, <2>2 DEF Fine, TouchTypes, HeldIsStored, StoredIsDone, Touch!Pointer
  <2> QED BY <2>3 DEF Fine
<1>2. CASE listening = "yes"
  <2>10. PICK q : \E ctrl, two \in BOOLEAN :
          /\ q = Touch!buildTouchEvent(action, inside, {two} \cap {ctrl}, storedMouse, b > 0)
          /\ mouse' = "seen" /\ storedMouse' = q.stored /\ Touch!sendMessages("mouse", q.messages)
          /\ strayed' = (q.stored # {} /\ (strayed \/ Touch!Strays(action, inside, ctrl, b)))
    BY <1>2 DEF Touch!onInteraction, Touch!Opposite
  <2>1. PICK ctrl, two \in BOOLEAN :
          /\ q = Touch!buildTouchEvent(action, inside, {two} \cap {ctrl}, storedMouse, b > 0)
          /\ mouse' = "seen" /\ storedMouse' = q.stored /\ Touch!sendMessages("mouse", q.messages)
          /\ strayed' = (q.stored # {} /\ (strayed \/ Touch!Strays(action, inside, ctrl, b)))
    BY <2>10
  <2>2. PICK s \in SUBSET {0, 1} : s = storedMouse
    BY DEF Fine, TouchTypes
  <2>3. /\ Takes(s, q.messages, q.stored) /\ q.stored \subseteq {0, 1}
        /\ q.messages \in Seq(MouseMessages)
        /\ action = "UP" \/ (action = "MOVE" /\ ~(b > 0)) => q.stored \subseteq s
        /\ 0 \in s /\ 0 \notin q.stored => q.stored = {}
        /\ action = "UP" /\ inside /\ 0 \in s => q.stored = {}
        /\ 1 \in q.stored /\ 0 \notin q.stored /\ 1 \notin s =>
             ~inside /\ TRUE \in {two} \cap {ctrl} /\ (action = "DOWN" \/ b > 0)
    <3>1. (b > 0) \in BOOLEAN /\ ({two} \cap {ctrl}) \in SUBSET BOOLEAN
      OBVIOUS
    <3>2. Built(q, action, inside, {two} \cap {ctrl}, s, b > 0)
      BY <2>1, <2>2, <3>1, BuildFits, Zenon
    <3> QED BY <3>2 DEF Built
  <2>4. held' = [held EXCEPT !["mouse"] = q.stored] /\ ~confused'
    <3>1. Takes(held["mouse"], q.messages, q.stored) /\ ~confused
      BY <2>2, <2>3 DEF Fine, HeldIsStored
    <3>2. Len(q.messages) \in Nat /\ DOMAIN q.messages = 1..Len(q.messages)
      BY <2>3
    <3> QED BY <2>1, <3>1, <3>2, SendTakes
  <2>5. TouchTypes'
    BY <2>1, <2>3 DEF Fine, TouchTypes, Touch!Pointer
  <2>6. HeldIsStored'
    BY <1>2, <2>1, <2>4 DEF Fine, HeldIsStored
  <2>7. q.stored # {} => strayed \/ Touch!Strays(action, inside, ctrl, b) \/ b > 0
    <3>1. CASE action = "DOWN"
      BY <3>1
    <3>2. CASE action = "MOVE" /\ ~(b > 0)
      BY <2>2, <2>3, <3>2 DEF Fine, StoredIsDone
    <3>3. CASE action = "UP" /\ ~inside /\ ~(b > 0)
      BY <3>3 DEF Touch!Strays
    <3>4. CASE action = "UP" /\ inside /\ ~(b > 0)
      BY <2>2, <2>3, <3>4 DEF Fine, StoredIsDone
    <3> QED BY <3>1, <3>2, <3>3, <3>4
  <2>8. 1 \in q.stored /\ 0 \notin q.stored => strayed \/ Touch!Strays(action, inside, ctrl, b)
    <3>1. CASE 1 \in s
      BY <2>2, <2>3, <3>1 DEF Fine, StoredIsDone
    <3>2. CASE 1 \notin s /\ 1 \in q.stored /\ 0 \notin q.stored
      <4>1. ~inside /\ ctrl /\ b > 0
        BY <2>3, <3>2
      <4> QED BY <4>1 DEF Touch!Strays
    <3> QED BY <3>1, <3>2
  <2>9. StoredIsDone'
    BY <2>1, <2>7, <2>8 DEF Fine, StoredIsDone
  <2> QED BY <2>5, <2>6, <2>9 DEF Fine
<1> QED BY <1>1, <1>2

(* onMouseLeave lifts everything. *)
LEMMA LeaveFits ==
  ASSUME Fine, Touch!onMouseLeave
  PROVE  Fine'
<1>1. PICK s : s = storedMouse
  OBVIOUS
<1>2. PICK ms : ms = Touch!SetToSeq(Ups(s))
  OBVIOUS
<1>3. Touch!sendMessages("mouse", ms)
  BY <1>1, <1>2 DEF Touch!onMouseLeave, Ups
<1>4. Takes(s, ms, {}) /\ ms \in Seq(Ups(s))
  <2>1. IsFiniteSet(0..1) /\ s \subseteq 0..1
    <3>1. 0 \in Int /\ 1 \in Int
      OBVIOUS
    <3>2. IsFiniteSet(0..1)
      BY <3>1, FS_Interval
    <3>3. s \subseteq {0, 1}
      BY <1>1 DEF Fine, TouchTypes
    <3> QED BY <3>2, <3>3
  <2>2. IsFiniteSet(s)
    BY <2>1, FS_Subset
  <2> QED BY <1>2, <2>2, TakesUps
<1>5. held' = [held EXCEPT !["mouse"] = {}] /\ ~confused'
  <2>1. Takes(held["mouse"], ms, {}) /\ ~confused
    BY <1>1, <1>4 DEF Fine, HeldIsStored
  <2>2. Len(ms) \in Nat /\ DOMAIN ms = 1..Len(ms)
    BY <1>4
  <2> QED BY <1>3, <2>1, <2>2, SendTakes
<1>6. storedMouse' = {} /\ UNCHANGED <<listening, fingers, ids, storedTouch, buttons>>
  BY DEF Touch!onMouseLeave, Touch!touchVars
<1>7. TouchTypes' /\ HeldIsStored' /\ StoredIsDone'
  BY <1>5, <1>6 DEF Fine, TouchTypes, HeldIsStored, StoredIsDone, Touch!Pointer
<1> QED BY <1>7 DEF Fine

LEMMA FingerStep ==
  ASSUME FingerInv, [Touch!Next]_(Touch!vars)
  PROVE  FingerInv'
<1>1. CASE listening = "released"
  <2>1. listening' = "released"
    BY <1>1 DEF Touch!Next, Touch!SetScreenInfo, Touch!release, Touch!TouchStart, Touch!TouchMove,
       Touch!TouchEnd, Touch!Carried, Touch!formatTouchEvent, Touch!MouseDown, Touch!MouseUp,
       Touch!MouseMove, Touch!onMouseEnter, Touch!onMouseLeave, Touch!onKey, Touch!vars
  <2> QED BY <2>1 DEF FingerInv
<1>2. CASE listening # "released"
  <2>0. Fine
    BY <1>2 DEF FingerInv, Fine
  <2> SUFFICES Fine' \/ listening' = "released"
    BY DEF FingerInv, Fine
  <2>1. CASE Touch!SetScreenInfo
    BY <2>0, <2>1 DEF Fine, TouchTypes, HeldIsStored, StoredIsDone, Touch!Pointer, Touch!SetScreenInfo,
       Touch!touchVars, Touch!mouseVars
  <2>2. CASE Touch!release
    BY <2>2 DEF Touch!release
  <2>3. ASSUME NEW f \in Finger, Touch!TouchStart(f) PROVE Fine'
    <3>1. CASE fingers' = [fingers EXCEPT ![f] = "tag"]
                /\ \E inside \in BOOLEAN : Touch!formatTouchEvent("DOWN", f, inside)
      BY <2>0, <3>1, FormatFits
    <3>2. CASE fingers' = [fingers EXCEPT ![f] = "other"]
                /\ UNCHANGED <<listening, ids, storedTouch, Touch!mouseVars, held, confused>>
      BY <2>0, <2>3, <3>2 DEF Fine, TouchTypes, HeldIsStored, StoredIsDone, Touch!Pointer,
         Touch!mouseVars, Touch!TouchStart
    <3> QED BY <2>3, <3>1, <3>2 DEF Touch!TouchStart
  <2>4. ASSUME NEW f \in Finger, Touch!TouchMove(f) PROVE Fine'
    <3>1. fingers' = [fingers EXCEPT ![f] = "tag"]
      BY <2>0, <2>4 DEF Fine, TouchTypes, Touch!TouchMove
    <3> QED BY <2>0, <2>4, <3>1, FormatFits DEF Touch!TouchMove
  <2>5. ASSUME NEW f \in Finger, Touch!TouchEnd(f) PROVE Fine'
    <3>0. fingers' = [fingers EXCEPT ![f] = "none"]
      BY <2>5 DEF Touch!TouchEnd
    <3>1. CASE \E inside \in BOOLEAN : Touch!formatTouchEvent("UP", f, inside)
      BY <2>0, <3>0, <3>1, FormatFits
    <3>2. CASE fingers[f] = "other"
                /\ UNCHANGED <<listening, ids, storedTouch, Touch!mouseVars, held, confused>>
      BY <2>0, <3>0, <3>2 DEF Fine, TouchTypes, HeldIsStored, StoredIsDone, Touch!Pointer,
         Touch!mouseVars
    <3> QED BY <2>5, <3>1, <3>2 DEF Touch!TouchEnd
  <2>6. ASSUME NEW f \in Finger, Touch!Carried(f) PROVE Fine'
    <3>1. PICK action : Touch!getPointerId(action, f)
      BY <2>6 DEF Touch!Carried
    <3>2. /\ DOMAIN ids' \subseteq Finger /\ \A g \in DOMAIN ids' : ids'[g] \in Touch!Pointer
          /\ \A g, h \in DOMAIN ids' : ids'[g] = ids'[h] => g = h
          /\ \A g \in DOMAIN ids \ {f} : g \in DOMAIN ids' /\ ids'[g] = ids[g]
      BY <2>0, <3>1, IdsStayOwn DEF Fine
    <3>3. fingers[f] = "other" /\ UNCHANGED <<listening, fingers, storedTouch, Touch!mouseVars, held, confused>>
      BY <2>6 DEF Touch!Carried
    <3>4. TouchTypes' /\ HeldIsStored'
      BY <2>0, <3>2, <3>3 DEF Fine, TouchTypes, HeldIsStored, Touch!Pointer, Touch!mouseVars
    <3>5. StoredIsDone'
      <4>1. \A x \in storedTouch : \E g \in DOMAIN ids' : fingers'[g] = "tag" /\ ids'[g] = x
        BY <2>0, <3>2, <3>3 DEF Fine, StoredIsDone
      <4> QED BY <2>0, <3>3, <4>1 DEF Fine, StoredIsDone, Touch!mouseVars
    <3> QED BY <3>4, <3>5 DEF Fine
  <2>7. CASE Touch!MouseDown
    <3>1. PICK b \in Nat : b = buttons + 1
      BY <2>0 DEF Fine, TouchTypes
    <3>2. buttons' = b /\ b > 0 /\ UNCHANGED <<listening, fingers, ids, storedTouch>>
      BY <2>0, <2>7, <3>1 DEF Fine, TouchTypes, Touch!MouseDown, Touch!touchVars
    <3>3. CASE mouse = "out"
      <4>1. storedMouse = {} /\ UNCHANGED <<mouse, storedMouse, held, confused, strayed>>
        BY <2>0, <2>7, <3>3 DEF Fine, StoredIsDone, Touch!MouseDown
      <4>2. TouchTypes' /\ HeldIsStored' /\ StoredIsDone'
        BY <2>0, <3>2, <4>1 DEF Fine, TouchTypes, HeldIsStored, StoredIsDone, Touch!Pointer
      <4> QED BY <4>2 DEF Fine
    <3>4. CASE mouse # "out"
      <4>1. PICK inside \in BOOLEAN : Touch!onInteraction("DOWN", inside, b)
        BY <2>7, <3>2, <3>4 DEF Touch!MouseDown
      <4> QED BY <2>0, <3>2, <3>4, <4>1, MouseFits
    <3> QED BY <3>3, <3>4
  <2>8. CASE Touch!MouseUp
    <3>1. PICK b \in Nat : b = buttons - 1
      BY <2>0, <2>8 DEF Fine, TouchTypes, Touch!MouseUp
    <3>2. buttons' = b /\ UNCHANGED <<listening, fingers, ids, storedTouch>>
      BY <2>8, <3>1 DEF Touch!MouseUp, Touch!touchVars
    <3>3. CASE mouse = "out"
      <4>1. storedMouse = {} /\ UNCHANGED <<mouse, storedMouse, held, confused, strayed>>
        BY <2>0, <2>8, <3>3 DEF Fine, StoredIsDone, Touch!MouseUp
      <4>2. TouchTypes' /\ HeldIsStored' /\ StoredIsDone'
        BY <2>0, <3>2, <4>1 DEF Fine, TouchTypes, HeldIsStored, StoredIsDone, Touch!Pointer
      <4> QED BY <4>2 DEF Fine
    <3>4. CASE mouse # "out"
      <4>1. PICK inside \in BOOLEAN : Touch!onInteraction("UP", inside, b)
        BY <2>8, <3>2, <3>4 DEF Touch!MouseUp
      <4> QED BY <2>0, <3>2, <3>4, <4>1, MouseFits
    <3> QED BY <3>3, <3>4
  <2>9. CASE Touch!MouseMove
    <3>1. PICK b \in Nat : b = buttons
      BY <2>0 DEF Fine, TouchTypes
    <3>2. buttons' = b /\ UNCHANGED <<listening, fingers, ids, storedTouch>> /\ mouse # "out"
      BY <2>9, <3>1 DEF Touch!MouseMove, Touch!touchVars
    <3>3. PICK inside \in BOOLEAN : Touch!onInteraction("MOVE", inside, b)
      BY <2>9, <3>1 DEF Touch!MouseMove
    <3> QED BY <2>0, <3>1, <3>2, <3>3, MouseFits
  <2>10. CASE Touch!onMouseEnter
    <3>1. UNCHANGED <<listening, fingers, ids, storedTouch, buttons, storedMouse, strayed, held, confused>>
          /\ storedMouse = {}
      BY <2>0, <2>10 DEF Fine, StoredIsDone, Touch!onMouseEnter, Touch!touchVars
    <3>2. TouchTypes' /\ HeldIsStored' /\ StoredIsDone'
      BY <2>0, <3>1 DEF Fine, TouchTypes, HeldIsStored, StoredIsDone, Touch!Pointer
    <3> QED BY <3>2 DEF Fine
  <2>11. CASE Touch!onMouseLeave
    BY <2>0, <2>11, LeaveFits
  <2>12. CASE Touch!onKey
    BY <2>0, <2>12 DEF Fine, TouchTypes, HeldIsStored, StoredIsDone, Touch!Pointer, Touch!onKey,
       Touch!touchVars
  <2>13. CASE UNCHANGED Touch!vars
    BY <2>0, <2>13 DEF Fine, TouchTypes, HeldIsStored, StoredIsDone, Touch!Pointer, Touch!vars,
       Touch!touchVars, Touch!mouseVars
  <2> QED BY <2>1, <2>2, <2>3, <2>4, <2>5, <2>6, <2>7, <2>8, <2>9, <2>10, <2>11, <2>12, <2>13
          DEF Touch!Next
<1> QED BY <1>1, <1>2

(* FingersFollow of FeaturedInteractionHandler, for any set of fingers:    *)
(* validateMessage, raiseOthers and the pointers of getPointerId keep what *)
(* the device holds down to what fingers and the mouse do.                 *)
THEOREM Fingers == Touch!Spec => []FingersFollow
<1>1. Touch!Init => FingerInv
  BY DEF Touch!Init, FingerInv, Fine, TouchTypes, HeldIsStored, StoredIsDone
<1>2. FingerInv => FingersFollow
  <2> SUFFICES ASSUME FingerInv, listening # "released"
               PROVE  /\ ~confused
                      /\ held.touch \subseteq {ids[f] : f \in {g \in DOMAIN ids : fingers[g] = "tag"}}
                      /\ \A f, g \in DOMAIN ids : ids[f] = ids[g] => f = g
                      /\ held.mouse # {} => mouse # "out" /\ (buttons > 0 \/ strayed)
    BY DEF FingersFollow, Touch!FingersFollow
  <2>1. ~confused /\ held.mouse = storedMouse /\ held.touch = storedTouch
    BY DEF FingerInv, Fine, HeldIsStored
  <2>2. storedMouse # {} => mouse # "out" /\ (buttons > 0 \/ strayed)
    BY DEF FingerInv, Fine, StoredIsDone
  <2>3. \A p \in storedTouch : \E f \in DOMAIN ids : fingers[f] = "tag" /\ ids[f] = p
    BY DEF FingerInv, Fine, StoredIsDone
  <2>4. \A f, g \in DOMAIN ids : ids[f] = ids[g] => f = g
    BY DEF FingerInv, Fine, TouchTypes
  <2> QED BY <2>1, <2>2, <2>3, <2>4
<1> QED BY <1>1, <1>2, FingerStep, PTL DEF Touch!Spec

-----------------------------------------------------------------------------
(* SimpleInteractionHandler.                                               *)

(* A gesture that nothing meddled with began in this press; a clean press  *)
(* is one that its pointer is down for.                                    *)
GestureTypes ==
  /\ screenKnown \in BOOLEAN /\ clean \in BOOLEAN /\ meddled \in BOOLEAN
  /\ pressed \in Nat /\ press \in Nat /\ storage \subseteq {0, 1}

Unmeddled ==
  ~meddled => /\ 1 \notin storage /\ startPosition \in {0, press}
              /\ pressed = 0 => startPosition = 0

CleanIsHeld ==
  clean /\ pressed > 0 => storage = {0} /\ startPosition = press /\ press # 0 /\ pressed = 1

Unseen == ~screenKnown => startPosition = 0 /\ storage = {} /\ ~clean /\ performed = 0

Performed == performed \in {0, press} \/ meddled

GestureInv == GestureTypes /\ Unmeddled /\ CleanIsHeld /\ Unseen /\ Performed

(* The first pointer alone sends one message at most.                      *)
Brief(r, action, valid, s) ==
  /\ r.messages \in Seq(Messages(0)) /\ Len(r.messages) <= 1
  /\ r.stored \subseteq {0}
  /\ s = {} /\ action = "DOWN" /\ valid => Len(r.messages) = 1 /\ r.stored = {0}
  /\ s = {0} /\ action = "MOVE" => r.stored = {0}
  /\ s = {0} /\ action = "UP" => r.stored = s \/ (Len(r.messages) = 1 /\ r.stored = {})

LEMMA OneTap ==
  ASSUME NEW action \in {"DOWN", "MOVE", "UP"}, NEW valid \in BOOLEAN, NEW s \in SUBSET {0},
         NEW tapped \in BOOLEAN
  PROVE  Brief(One(action, valid, 0, s, tapped), action, valid, s)
<1>1. PICK r : r = One(action, valid, 0, s, tapped)
  OBVIOUS
<1>2. s = {} \/ s = {0}
  OBVIOUS
<1>3. /\ r.messages = <<>> \/ \E m : r.messages = <<m>>
      /\ r.stored \subseteq {0}
      /\ s = {} /\ action = "DOWN" /\ valid => r.messages # <<>> /\ r.stored = {0}
      /\ s = {0} /\ action = "MOVE" => r.stored = {0}
      /\ s = {0} /\ action = "UP" => r.stored = s \/ (r.messages # <<>> /\ r.stored = {})
  <2> USE DEF One, Touch!validateMessage, Touch!Result
  <2>1. CASE ~valid
    BY <1>1, <2>1
  <2>2. CASE valid /\ action = "UP" /\ 0 \in s
    BY <1>1, <1>2, <2>2
  <2>3. CASE valid /\ action = "UP" /\ 0 \notin s
    BY <1>1, <1>2, <2>3
  <2>4. CASE valid /\ action = "DOWN" /\ 0 \in s
    BY <1>1, <1>2, <2>4
  <2>5. CASE valid /\ action = "DOWN" /\ 0 \notin s
    BY <1>1, <1>2, <2>5
  <2>6. CASE valid /\ action = "MOVE" /\ 0 \in s
    BY <1>1, <1>2, <2>6
  <2>7. CASE valid /\ action = "MOVE" /\ 0 \notin s /\ tapped
    BY <1>1, <1>2, <2>7
  <2>8. CASE valid /\ action = "MOVE" /\ 0 \notin s /\ ~tapped
    BY <1>1, <1>2, <2>8
  <2> QED BY <2>1, <2>2, <2>3, <2>4, <2>5, <2>6, <2>7, <2>8
<1>4. r.messages \in Seq(Messages(0))
  <2>1. Answers(r, Messages(0), action, valid, 0, s, tapped)
    BY <1>1, OneFits, Zenon
  <2> QED BY <2>1 DEF Answers, Sends
<1>5. Len(r.messages) <= 1 /\ (r.messages # <<>> => Len(r.messages) = 1)
  <2>1. CASE r.messages = <<>>
    BY <2>1
  <2>2. CASE r.messages # <<>>
    <3>1. PICK m : r.messages = <<m>>
      BY <1>3, <2>2
    <3> QED BY <3>1
  <2> QED BY <2>1, <2>2
<1>6. Brief(r, action, valid, s)
  BY <1>3, <1>4, <1>5 DEF Brief
<1> QED BY <1>1, <1>6

LEMMA NoUps == Touch!SetToSeq(Ups({})) = <<>>
<1>1. Ups({}) = {}
  BY DEF Ups
<1>2. Touch!SetToSeq(Ups({})) \in Seq(Ups({}))
  BY FS_EmptySet, TakesUps
<1> QED BY <1>1, <1>2

(* buildTouchEvent is that, as long as the second pointer is neither asked *)
(* for nor stored.                                                         *)
SameResult(r, q) == r.messages = q.messages /\ r.stored = q.stored

LEMMA AloneIsOne ==
  ASSUME NEW action \in {"DOWN", "MOVE", "UP"}, NEW inside \in BOOLEAN,
         NEW opposite \in SUBSET BOOLEAN, NEW s \in SUBSET {0}, NEW tapped \in BOOLEAN,
         TRUE \notin opposite \/ action = "UP"
  PROVE  SameResult(Touch!buildTouchEvent(action, inside, opposite, s, tapped),
                    One(action, inside, 0, s, tapped))
<1> DEFINE one == One(action, inside, 0, s, tapped)
           both == TRUE \in opposite
           two == One(action, both, 1, one.stored, tapped)
           pair == Touch!Result(two.stored, one.messages \o two.messages)
           r == Touch!raiseOthers(pair)
<1>1. Touch!buildTouchEvent(action, inside, opposite, s, tapped) = r
  BY DEF Touch!buildTouchEvent, One
<1>2. one.messages \in Seq(Messages(0)) /\ one.stored \subseteq {0}
  <2>1. Brief(one, action, inside, s)
    BY OneTap, Zenon
  <2> QED BY <2>1 DEF Brief
<1>3. HasUp(one.messages) => one.stored = {}
  <2>1. Answers(one, Messages(0), action, inside, 0, s, tapped)
    BY OneFits, Zenon
  <2> HIDE DEF one
  <2>2. HasUp(one.messages) => inside /\ action = "UP" /\ 0 \in s
    BY <2>1 DEF Answers
  <2>3. inside /\ action = "UP" => one.stored = s \ {0}
    BY <2>1 DEF Answers, Stores
  <2> QED BY <2>2, <2>3
<1>4. two.stored = one.stored /\ two.messages = <<>>
  <2>1. CASE ~both
    <3> HIDE DEF both, one
    <3> QED BY <2>1 DEF One, Touch!Result
  <2>2. CASE action = "UP"
    <3>1. 1 \notin one.stored
      BY <1>2
    <3> HIDE DEF both, one
    <3> QED BY <2>2, <3>1 DEF One, Touch!Result, Touch!validateMessage
  <2> QED BY <2>1, <2>2
<1> HIDE DEF one, two
<1>5. pair.stored = one.stored /\ pair.messages = one.messages
  <2>1. one.messages \o <<>> = one.messages
    BY <1>2
  <2> QED BY <1>4, <2>1 DEF Touch!Result
<1> HIDE DEF pair
<1> USE DEF SameResult
<1>6. CASE ~HasUp(pair.messages)
  <2>1. r = pair
    BY <1>6 DEF Touch!raiseOthers, HasUp
  <2> QED BY <1>1, <1>5, <2>1 DEF one
<1>7. CASE HasUp(pair.messages)
  <2>1. pair.stored = {}
    BY <1>3, <1>5, <1>7
  <2>2. r.stored = {} /\ r.messages = pair.messages \o Touch!SetToSeq(Ups({}))
    BY <1>7, <2>1 DEF Touch!raiseOthers, Touch!Result, HasUp, Ups
  <2>3. pair.messages \o <<>> = pair.messages
    BY <1>2, <1>5
  <2> HIDE DEF r
  <2>4. r.messages = one.messages /\ r.stored = one.stored
    BY <1>5, <2>1, <2>2, <2>3, NoUps
  <2> QED BY <1>1, <2>4 DEF one
<1> QED BY <1>6, <1>7

Tapped(r, action, inside, opposite, s) ==
  /\ r.stored \subseteq {0, 1} /\ Len(r.messages) \in Nat
  /\ TRUE \notin opposite /\ 1 \notin s => Len(r.messages) <= 1 /\ 1 \notin r.stored
  /\ TRUE \notin opposite /\ s = {} /\ action = "DOWN" /\ inside =>
       Len(r.messages) = 1 /\ r.stored = {0}
  /\ TRUE \notin opposite /\ s = {0} /\ action = "MOVE" => r.stored = {0}
  /\ s = {0} /\ action = "UP" => r.stored = s \/ (Len(r.messages) = 1 /\ r.stored = {})

LEMMA TapFits ==
  ASSUME NEW action \in {"DOWN", "MOVE", "UP"}, NEW inside \in BOOLEAN,
         NEW opposite \in SUBSET BOOLEAN, NEW s \in SUBSET {0, 1}, NEW tapped \in BOOLEAN
  PROVE  Tapped(Gesture!buildTouchEvent(action, inside, opposite, s, tapped),
                action, inside, opposite, s)
<1>1. PICK r : r = Touch!buildTouchEvent(action, inside, opposite, s, tapped)
  OBVIOUS
<1>2. Gesture!buildTouchEvent(action, inside, opposite, s, tapped) = r
  BY <1>1 DEF Gesture!buildTouchEvent, Touch!buildTouchEvent, Gesture!raiseOthers, Touch!raiseOthers,
     Gesture!validateMessage, Touch!validateMessage, Gesture!Result, Touch!Result,
     Gesture!Message, Touch!Message, Gesture!SetToSeq, Touch!SetToSeq,
     Gesture!Cardinality, Touch!Cardinality, Gesture!IsInjective, Touch!IsInjective
<1>3. r.stored \subseteq {0, 1} /\ Len(r.messages) \in Nat
  <2>1. Built(r, action, inside, opposite, s, tapped)
    BY <1>1, BuildFits, Zenon
  <2>2. r.stored \subseteq {0, 1} /\ r.messages \in Seq(MouseMessages)
    BY <2>1 DEF Built
  <2> QED BY <2>2
<1>4. CASE 1 \notin s /\ (TRUE \notin opposite \/ action = "UP")
  <2>1. PICK one : one = One(action, inside, 0, s, tapped)
    OBVIOUS
  <2>2. s \in SUBSET {0}
    BY <1>4
  <2>3. r.messages = one.messages /\ r.stored = one.stored
    <3>1. SameResult(Touch!buildTouchEvent(action, inside, opposite, s, tapped),
                     One(action, inside, 0, s, tapped))
      BY <1>4, <2>2, AloneIsOne, Zenon
    <3> QED BY <1>1, <2>1, <3>1 DEF SameResult
  <2>4. Brief(one, action, inside, s)
    BY <2>1, <2>2, OneTap, Zenon
  <2>5. 1 \notin r.stored
    BY <2>3, <2>4 DEF Brief
  <2>6. Tapped(r, action, inside, opposite, s)
    BY <1>3, <2>3, <2>4, <2>5 DEF Tapped, Brief
  <2> QED BY <1>2, <2>6
<1>5. CASE ~(1 \notin s /\ (TRUE \notin opposite \/ action = "UP"))
  <2>1. 1 \in s \/ (TRUE \in opposite /\ action # "UP")
    BY <1>5
  <2>2. 1 \in s => s # {} /\ s # {0}
    OBVIOUS
  <2>3. Tapped(r, action, inside, opposite, s)
    BY <1>3, <2>1, <2>2 DEF Tapped
  <2> QED BY <1>2, <2>3
<1> QED BY <1>4, <1>5

(* What the three events of the mouse do to its buttons. *)
Moves(action) ==
  \/ /\ action = "DOWN" /\ pressed' = pressed + 1
     /\ press' = IF pressed = 0 THEN press + 1 ELSE press
  \/ action = "UP" /\ pressed > 0 /\ pressed' = pressed - 1 /\ press' = press
  \/ action = "MOVE" /\ pressed' = pressed /\ press' = press

Own == pressed = 1 /\ pressed' = 0 /\ clean /\ storage # storage' => performed' = press

LEMMA TagStep ==
  ASSUME GestureInv, NEW action \in {"DOWN", "MOVE", "UP"}, NEW inside \in BOOLEAN,
         screenKnown, screenKnown', Moves(action), Gesture!onTag(action, inside)
  PROVE  GestureInv' /\ Own
<1>0. /\ pressed \in Nat /\ press \in Nat /\ pressed' \in Nat /\ press' \in Nat
      /\ screenKnown' \in BOOLEAN /\ storage \in SUBSET {0, 1}
      /\ clean \in BOOLEAN /\ meddled \in BOOLEAN
  BY DEF GestureInv, GestureTypes, Moves
<1>1. PICK q : \E ctrl, two \in BOOLEAN :
        /\ q = Gesture!buildTouchEvent(action, inside, {two} \cap {ctrl}, storage, pressed' > 0)
        /\ storage' = q.stored
        /\ IF Len(q.messages) > 1
           THEN performed' = 0 /\ UNCHANGED <<startPosition, endPosition>>
           ELSE Gesture!finish(action, Len(q.messages))
        /\ clean' = (~ctrl /\ pressed' < 2 /\ IF action = "DOWN" /\ press' # press
                                             THEN inside /\ storage = {} ELSE clean)
        /\ meddled' = (ctrl \/ (meddled /\ (startPosition # 0 \/ 1 \in storage)))
  BY DEF Gesture!onTag, Gesture!Opposite
<1>2. PICK ctrl, two \in BOOLEAN :
        /\ q = Gesture!buildTouchEvent(action, inside, {two} \cap {ctrl}, storage, pressed' > 0)
        /\ storage' = q.stored
        /\ IF Len(q.messages) > 1
           THEN performed' = 0 /\ UNCHANGED <<startPosition, endPosition>>
           ELSE Gesture!finish(action, Len(q.messages))
        /\ clean' = (~ctrl /\ pressed' < 2 /\ IF action = "DOWN" /\ press' # press
                                             THEN inside /\ storage = {} ELSE clean)
        /\ meddled' = (ctrl \/ (meddled /\ (startPosition # 0 \/ 1 \in storage)))
  BY <1>1
<1>3. Tapped(q, action, inside, {two} \cap {ctrl}, storage)
  <2>1. (pressed' > 0) \in BOOLEAN /\ ({two} \cap {ctrl}) \in SUBSET BOOLEAN
    OBVIOUS
  <2> QED BY <1>0, <1>2, <2>1, TapFits, Zenon
<1>4. PICK n : n = Len(q.messages)
  OBVIOUS
<1>5. /\ q.stored \subseteq {0, 1} /\ n \in Nat
      /\ ~ctrl /\ 1 \notin storage => n <= 1 /\ 1 \notin q.stored
      /\ ~ctrl /\ storage = {} /\ action = "DOWN" /\ inside => n = 1 /\ q.stored = {0}
      /\ ~ctrl /\ storage = {0} /\ action = "MOVE" => q.stored = {0}
      /\ storage = {0} /\ action = "UP" => q.stored = storage \/ (n = 1 /\ q.stored = {})
  <2>1. ~ctrl => TRUE \notin {two} \cap {ctrl}
    OBVIOUS
  <2> QED BY <1>3, <1>4, <2>1 DEF Tapped
<1>6. /\ n > 1 => startPosition' = startPosition /\ performed' = 0
      /\ n <= 1 /\ action = "UP" => startPosition' = 0 /\ performed' \in {0, startPosition}
      /\ n = 1 /\ action = "DOWN" => startPosition' = press' /\ performed' = 0
      /\ n = 0 /\ action = "DOWN" => startPosition' = startPosition /\ performed' = 0
      /\ n <= 1 /\ action = "MOVE" => startPosition' = startPosition /\ performed' = 0
      /\ n = 1 /\ action = "UP" /\ startPosition # 0 /\ press' # 0 => performed' = startPosition
  <2>0. IF n > 1 THEN performed' = 0 /\ UNCHANGED <<startPosition, endPosition>>
        ELSE Gesture!finish(action, n)
    BY <1>2, <1>4, Zenon
  <2>1. CASE n > 1
    BY <1>5, <2>0, <2>1
  <2>2. CASE n = 1
    BY <2>0, <2>2 DEF Gesture!finish, Gesture!start, Gesture!end
  <2>3. CASE n = 0
    BY <2>0, <2>3 DEF Gesture!finish, Gesture!start, Gesture!end
  <2> QED BY <1>5, <2>1, <2>2, <2>3
<1>7. ~meddled' => /\ ~ctrl /\ 1 \notin storage /\ startPosition \in {0, press}
                   /\ pressed = 0 => startPosition = 0
  BY <1>2 DEF GestureInv, Unmeddled
<1>8. ~meddled' => n <= 1 /\ 1 \notin storage'
  BY <1>2, <1>5, <1>7
<1>9. clean' => /\ ~ctrl /\ pressed' < 2
                /\ action = "DOWN" /\ press' # press => inside /\ storage = {}
                /\ ~(action = "DOWN" /\ press' # press) => clean
  BY <1>2
<1>10. GestureTypes'
  BY <1>0, <1>2, <1>5 DEF GestureTypes
<1>11. Unmeddled'
  <2> SUFFICES ASSUME ~meddled'
               PROVE  startPosition' \in {0, press'} /\ (pressed' = 0 => startPosition' = 0)
    BY <1>8 DEF Unmeddled
  <2>1. CASE action = "UP"
    BY <1>6, <1>8, <2>1
  <2>2. CASE action = "MOVE"
    BY <1>6, <1>7, <1>8, <2>2 DEF Moves
  <2>3. CASE action = "DOWN" /\ n = 1
    BY <1>0, <1>6, <2>3 DEF Moves
  <2>4. CASE action = "DOWN" /\ n = 0
    <3>1. pressed' # 0 /\ (pressed = 0 \/ press' = press)
      BY <1>0, <2>4 DEF Moves
    <3> QED BY <1>6, <1>7, <2>4, <3>1
  <2> QED BY <1>5, <1>8, <2>1, <2>2, <2>3, <2>4
<1>12. CleanIsHeld'
  <2> SUFFICES ASSUME clean', pressed' > 0
               PROVE  storage' = {0} /\ startPosition' = press' /\ press' # 0 /\ pressed' = 1
    BY DEF CleanIsHeld
  <2>1. pressed' = 1
    BY <1>0, <1>9
  <2>2. CASE action = "UP"
    <3>1. pressed = 2 /\ clean
      BY <1>0, <1>9, <2>1, <2>2 DEF Moves
    <3> QED BY <3>1 DEF GestureInv, CleanIsHeld
  <2>3. CASE action = "MOVE"
    <3>1. pressed = 1 /\ clean /\ press' = press
      BY <1>9, <2>1, <2>3 DEF Moves
    <3>2. storage = {0} /\ startPosition = press /\ press # 0
      BY <3>1 DEF GestureInv, CleanIsHeld
    <3> QED BY <1>2, <1>5, <1>6, <1>9, <2>1, <2>3, <3>1, <3>2
  <2>4. CASE action = "DOWN"
    <3>1. pressed = 0 /\ press' = press + 1
      BY <1>0, <2>1, <2>4 DEF Moves
    <3>2. press' # press /\ press' # 0
      BY <1>0, <3>1
    <3> QED BY <1>2, <1>5, <1>6, <1>9, <2>1, <2>4, <3>2
  <2> QED BY <2>2, <2>3, <2>4
<1>13. Unseen'
  BY DEF Unseen
<1>14. Performed'
  <2> SUFFICES ASSUME ~meddled' PROVE performed' \in {0, press'}
    BY DEF Performed
  <2>1. action = "UP" => press' = press
    BY DEF Moves
  <2>2. n = 0 \/ n = 1
    BY <1>5, <1>8
  <2> QED BY <1>6, <1>7, <2>1, <2>2
<1>15. Own
  <2> SUFFICES ASSUME pressed = 1, pressed' = 0, clean, storage # storage'
               PROVE  performed' = press
    BY DEF Own
  <2>1. action = "UP" /\ press' = press
    BY DEF Moves
  <2>2. storage = {0} /\ startPosition = press /\ press # 0
    BY DEF GestureInv, CleanIsHeld
  <2>3. n = 1
    BY <1>2, <1>5, <2>1, <2>2
  <2> QED BY <1>6, <2>1, <2>2, <2>3
<1> QED BY <1>10, <1>11, <1>12, <1>13, <1>14, <1>15 DEF GestureInv

(* onInteraction, for an event of the tag or of another element. *)
LEMMA MouseStep ==
  ASSUME GestureInv, NEW action \in {"DOWN", "MOVE", "UP"}, screenKnown' = screenKnown,
         Moves(action), Gesture!onInteraction(action)
  PROVE  GestureInv' /\ Own
<1>0. /\ pressed \in Nat /\ press \in Nat /\ pressed' \in Nat /\ press' \in Nat
      /\ screenKnown \in BOOLEAN
  BY DEF GestureInv, GestureTypes, Moves
<1>1. CASE screenKnown /\ \E inside \in BOOLEAN : Gesture!onTag(action, inside)
  BY <1>1, TagStep
<1>2. CASE ~screenKnown
           /\ UNCHANGED <<second, storage, startPosition, endPosition, clean, meddled, performed>>
  <2>1. startPosition = 0 /\ storage = {} /\ ~clean /\ performed = 0
    BY <1>2 DEF GestureInv, Unseen
  <2>2. GestureTypes' /\ Unmeddled' /\ CleanIsHeld' /\ Unseen' /\ Performed'
    BY <1>0, <1>2, <2>1 DEF GestureInv, GestureTypes, Unmeddled, CleanIsHeld, Unseen, Performed
  <2> QED BY <1>2, <2>2 DEF GestureInv, Own
<1>3. CASE Gesture!offTag(action)
  <2>1. /\ storage' = storage /\ meddled' = meddled /\ performed' = 0
        /\ clean' = (clean /\ action = "MOVE")
        /\ startPosition' = IF action = "UP" THEN 0 ELSE startPosition
    BY <1>3 DEF Gesture!offTag, Gesture!finish, Gesture!start, Gesture!end
  <2>2. GestureTypes' /\ Unseen' /\ Performed'
    BY <1>0, <2>1 DEF GestureInv, GestureTypes, Unseen, Performed
  <2>3. Unmeddled'
    <3>1. CASE action = "UP"
      BY <2>1, <3>1 DEF GestureInv, Unmeddled
    <3>2. CASE action = "MOVE"
      BY <2>1, <3>2 DEF GestureInv, Unmeddled, Moves
    <3>3. CASE action = "DOWN"
      BY <1>0, <2>1, <3>3 DEF GestureInv, Unmeddled, Moves
    <3> QED BY <3>1, <3>2, <3>3
  <2>4. CleanIsHeld'
    <3>1. clean' => clean /\ action = "MOVE"
      BY <2>1
    <3> QED BY <2>1, <3>1 DEF GestureInv, CleanIsHeld, Moves
  <2> QED BY <2>1, <2>2, <2>3, <2>4 DEF GestureInv, Own
<1> QED BY <1>1, <1>2, <1>3 DEF Gesture!onInteraction

LEMMA GestureStep ==
  ASSUME GestureInv, [Gesture!Next]_(Gesture!vars)
  PROVE  GestureInv' /\ Own
<1>1. CASE Gesture!MouseDown
  <2>1. Moves("DOWN") /\ screenKnown' = screenKnown /\ Gesture!onInteraction("DOWN")
    BY <1>1 DEF Gesture!MouseDown, Moves
  <2> QED BY <2>1, MouseStep
<1>2. CASE Gesture!MouseUp
  <2>1. Moves("UP") /\ screenKnown' = screenKnown /\ Gesture!onInteraction("UP")
    BY <1>2 DEF Gesture!MouseUp, Moves
  <2> QED BY <2>1, MouseStep
<1>3. CASE Gesture!MouseMove
  <2>1. Moves("MOVE") /\ screenKnown' = screenKnown /\ Gesture!onInteraction("MOVE")
    BY <1>3 DEF Gesture!MouseMove, Moves
  <2> QED BY <2>1, MouseStep
<1>4. CASE Gesture!SetScreenInfo
  BY <1>4 DEF Gesture!SetScreenInfo, GestureInv, GestureTypes, Unmeddled, CleanIsHeld, Unseen,
     Performed, Own
<1>5. CASE UNCHANGED Gesture!vars
  BY <1>5 DEF Gesture!vars, GestureInv, GestureTypes, Unmeddled, CleanIsHeld, Unseen,
     Performed, Own
<1> QED BY <1>1, <1>2, <1>3, <1>4, <1>5 DEF Gesture!Next

(* GesturesAreOwn of SimpleInteractionHandler, for any number of presses:  *)
(* finish forgets both positions on every UP that ends with one message,   *)
(* and only Ctrl makes an event of two.                                    *)
THEOREM Gestures == Gesture!Spec => GesturesAreOwn
<1>1. Gesture!Init => GestureInv
  <2> SUFFICES ASSUME Gesture!Init PROVE GestureInv
    OBVIOUS
  <2> USE DEF Gesture!Init
  <2>1. GestureTypes
    BY DEF GestureTypes
  <2>2. Unmeddled /\ CleanIsHeld /\ Unseen /\ Performed
    BY DEF Unmeddled, CleanIsHeld, Unseen, Performed
  <2> QED BY <2>1, <2>2 DEF GestureInv
<1>2. GestureInv => performed \in {0, press} \/ meddled
  BY DEF GestureInv, Performed
<1>3. GestureInv /\ [Gesture!Next]_(Gesture!vars) =>
        /\ GestureInv'
        /\ [pressed = 1 /\ pressed' = 0 /\ clean /\ storage # storage' => performed' = press]_(Gesture!vars)
  BY GestureStep DEF Own
<1>4. GesturesAreOwn <=>
        /\ [](performed \in {0, press} \/ meddled)
        /\ [][pressed = 1 /\ pressed' = 0 /\ clean /\ storage # storage' => performed' = press]_(Gesture!vars)
  BY DEF GesturesAreOwn, Gesture!GesturesAreOwn
<1> QED BY <1>1, <1>2, <1>3, <1>4, PTL DEF Gesture!Spec

=============================================================================
