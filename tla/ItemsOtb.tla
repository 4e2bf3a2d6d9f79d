------------------------------- MODULE ItemsOtb -------------------------------
(***************************************************************************)
(* The items of items.otb (otb/items/items.go): New reads one node after   *)
(* the other into an array, and keeps six indexes of it.  The lookups of   *)
(* things/things.go go through those indexes.                              *)
(*                                                                         *)
(* Of an item's attributes the model has its identifiers, either of which  *)
(* may be missing, and what the map loader asks for.  The smallest and the *)
(* largest identifiers are left out.  Arrays are indexed from 1.           *)
(***************************************************************************)
EXTENDS Integers, Sequences, FiniteSets

CONSTANTS
  Records,    \* the items an items.otb file may contain
  MaxItems    \* bound: items in the file

None == -1    \* the attribute is missing
ID == 0..65535

Item == [server : ID \cup {None}, client : ID \cup {None},
         ground : BOOLEAN, countable : BOOLEAN, order : 0..255]

ASSUME RecordsAssumption == Records \subseteq Item
ASSUME ItemsBoundAssumption == MaxItems \in Nat

VARIABLES
  items,         \* Items
  byServer,      \* ServerIDToArrayIndex
  byClient,      \* ClientIDToArrayIndex
  clientIDs,     \* ExtantClientItemIDs
  clientIdxs,    \* ExtantClientItemArrayIdxs
  serverIDs,     \* ExtantServerItemIDs
  serverIdxs,    \* ExtantServerItemArrayIdxs
  serverToIdx,   \* ServerIDToExtantClientItemArrayIDXs
  itemsFile      \* New: "reading", "loaded" or "failed"

itemsVars == <<items, byServer, byClient, clientIDs, clientIdxs, serverIDs,
               serverIdxs, serverToIdx, itemsFile>>

\* The map f after f[x] = y.
Put(f, x, y) == [z \in DOMAIN f \cup {x} |-> IF z = x THEN y ELSE f[z]]

ItemsInit ==
  /\ items = <<>>
  /\ byServer = [s \in {} |-> 0]
  /\ byClient = [s \in {} |-> 0]
  /\ clientIDs = <<>> /\ clientIdxs = <<>>
  /\ serverIDs = <<>> /\ serverIdxs = <<>>
  /\ serverToIdx = [s \in {} |-> 0]
  /\ itemsFile = "reading"

-----------------------------------------------------------------------------

IndexClient(r, at) ==
  IF r.client = None
  THEN UNCHANGED <<byClient, clientIDs, clientIdxs>>
  ELSE /\ byClient' = Put(byClient, r.client, at)
       /\ clientIDs' = Append(clientIDs, r.client)
       /\ clientIdxs' = Append(clientIdxs, at)

\* Faulty: the position in the array of all items is kept.
IndexServerByItem(r, at) ==
  IF r.server = None
  THEN UNCHANGED <<byServer, serverIDs, serverIdxs, serverToIdx>>
  ELSE /\ byServer' = Put(byServer, r.server, at)
       /\ serverIDs' = Append(serverIDs, r.server)
       /\ serverIdxs' = Append(serverIdxs, at)
       /\ serverToIdx' = IF r.client = None THEN serverToIdx
                         ELSE Put(serverToIdx, r.server, at)

\* Comes after IndexClient: the last extant client item is this one.
IndexServer(r, at) ==
  IF r.server = None
  THEN UNCHANGED <<byServer, serverIDs, serverIdxs, serverToIdx>>
  ELSE /\ byServer' = Put(byServer, r.server, at)
       /\ serverIDs' = Append(serverIDs, r.server)
       /\ serverIdxs' = Append(serverIdxs, at)
       /\ serverToIdx' = IF r.client = None THEN serverToIdx
                         ELSE Put(serverToIdx, r.server, Len(clientIdxs) + 1)

\* One node; another with the same identifiers is not refused.
ReadItem(r) ==
  /\ itemsFile = "reading"
  /\ Len(items) < MaxItems
  /\ IndexClient(r, Len(items) + 1)
  /\ IndexServer(r, Len(items) + 1)
  /\ items' = Append(items, r)
  /\ UNCHANGED itemsFile

\* The file is not an items.otb of a known version, or an attribute has the
\* wrong size.
ItemsFail ==
  /\ itemsFile = "reading"
  /\ itemsFile' = "failed"
  /\ UNCHANGED <<items, byServer, byClient, clientIDs, clientIdxs, serverIDs,
                 serverIdxs, serverToIdx>>

\* The root has no more children; it must have had some.
ItemsEnd ==
  /\ itemsFile = "reading"
  /\ items # <<>>
  /\ itemsFile' = "loaded"
  /\ UNCHANGED <<items, byServer, byClient, clientIDs, clientIdxs, serverIDs,
                 serverIdxs, serverToIdx>>

ItemsNext == (\E r \in Records : ReadItem(r)) \/ ItemsFail \/ ItemsEnd

-----------------------------------------------------------------------------
(* Lookups.                                                                *)

Known(s) == s \in DOMAIN byServer
ItemByServerID(s) == items[byServer[s]]

\* Item.ServerID and Temp__GetClientIDForServerID: 0 if there is none.
ServerID(r) == IF r.server = None THEN 0 ELSE r.server
ClientIDForServerID(s) ==
  IF Known(s) /\ ItemByServerID(s).client # None THEN ItemByServerID(s).client ELSE 0

\* Things.Item: where the item is in the array, or 0, and in the dataset.
ThingsItem(s) == [otb |-> IF Known(s) THEN byServer[s] ELSE 0,
                  dat |-> ClientIDForServerID(s)]

\* Faulty: the array of server items is used.
ItemWithSequentialServerIdx(k) == ThingsItem(ServerID(items[serverIdxs[k]]))

\* Things.ItemWithSequentialClientID, by way of ItemWithSequentialOTBIDX.
ItemWithSequentialClientID(k) == ThingsItem(ServerID(items[clientIdxs[k]]))

-----------------------------------------------------------------------------
(* Properties.                                                             *)

ItemsTypeOK ==
  /\ items \in Seq(Item)
  /\ byServer \in [DOMAIN byServer -> 1..Len(items)] /\ DOMAIN byServer \subseteq ID
  /\ byClient \in [DOMAIN byClient -> 1..Len(items)] /\ DOMAIN byClient \subseteq ID
  /\ clientIDs \in Seq(ID) /\ clientIdxs \in Seq(1..Len(items))
  /\ serverIDs \in Seq(ID) /\ serverIdxs \in Seq(1..Len(items))
  /\ serverToIdx \in [DOMAIN serverToIdx -> 1..Len(clientIdxs)]
  /\ DOMAIN serverToIdx \subseteq ID
  /\ itemsFile \in {"reading", "loaded", "failed"}

\* Six indexes of one array, written in one loop (otb/items/items.go:497-530),
\* agree with it and with each other, also when identifiers occur twice.
IndexesAgree ==
  /\ \A s \in DOMAIN byServer : ItemByServerID(s).server = s
  /\ \A c \in DOMAIN byClient : items[byClient[c]].client = c
  /\ Len(clientIDs) = Len(clientIdxs) /\ Len(serverIDs) = Len(serverIdxs)
  /\ \A k \in 1..Len(clientIdxs) :
       clientIDs[k] # None /\ items[clientIdxs[k]].client = clientIDs[k]
  /\ \A k \in 1..Len(serverIdxs) :
       serverIDs[k] # None /\ items[serverIdxs[k]].server = serverIDs[k]
  /\ \A s \in DOMAIN serverToIdx :
       /\ Known(s) /\ serverToIdx[s] \in 1..Len(clientIdxs)
       /\ items[clientIdxs[serverToIdx[s]]].server = s

\* The page of client items that is shown for a server identifier starts with
\* that very item, by way of four indexes (things/things.go:399-412, 212-219,
\* 189-200), even if the identifier occurs twice in the file.
PageStartsWithItem ==
  \A s \in DOMAIN serverToIdx :
    /\ serverToIdx[s] \in 1..Len(clientIdxs)
    /\ ItemWithSequentialClientID(serverToIdx[s]) = ThingsItem(s)

\* Every item has a server identifier, and no two the same.
ServerIDsDiffer ==
  /\ \A i \in 1..Len(items) : items[i].server # None
  /\ \A i, j \in 1..Len(items) : items[i].server = items[j].server => i = j

\* "ItemWithSequentialClientID returns Nth item with valid client ID"
\* (things/things.go:206), although it looks the item up by its server
\* identifier in the end: it does so if those differ.
PagesInOrder ==
  ServerIDsDiffer =>
    \A k \in 1..Len(clientIdxs) :
      ItemWithSequentialClientID(k) = [otb |-> clientIdxs[k], dat |-> clientIDs[k]]
=============================================================================
