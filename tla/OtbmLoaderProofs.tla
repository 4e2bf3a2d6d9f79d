--------------------------- MODULE OtbmLoaderProofs ---------------------------
(***************************************************************************)
(* The indexes of items.otb agree, everything on the map is an item they   *)
(* know, and what has been loaded is what the file lists, for every        *)
(* items.otb and every map file.                                           *)
(***************************************************************************)
EXTENDS OtbmLoader, SequenceTheorems, FiniteSetTheorems, TLAPS

\* A sequence after one more element.
LEMMA AppendTypes ==
  ASSUME NEW S, NEW s \in Seq(S), NEW x \in S
  PROVE  /\ Append(s, x) \in Seq(S)
         /\ Len(Append(s, x)) = Len(s) + 1
         /\ Append(s, x)[Len(s) + 1] = x
         /\ \A i \in 1..Len(s) : Append(s, x)[i] = s[i]
         /\ \A i \in 1..Len(s) + 1 : i \in 1..Len(s) \/ i = Len(s) + 1
OBVIOUS

\* What is found under a known identifier is an item.
LEMMA KnownItem ==
  ASSUME ItemsTypeOK, NEW s, Known(s)
  PROVE  byServer[s] \in 1..Len(items) /\ ItemByServerID(s) \in Item
BY DEF ItemsTypeOK, Known, ItemByServerID

\* The missing identifier is not one.
LEMMA NoneIsNoID == None \notin ID
BY DEF None, ID

-----------------------------------------------------------------------------
(* The items.                                                              *)

\* The part of LoaderInv that is about the items.
ItemsInv ==
  /\ ItemsTypeOK
  /\ IndexesAgree
  /\ \A i \in 1..Len(items) : items[i].server # None => Known(items[i].server)

\* Positions in a sequence are positions in a longer one.
LEMMA Longer ==
  ASSUME NEW L \in Nat, NEW s \in Seq(1..L)
  PROVE  s \in Seq(1..L + 1)
<1>1. \A i \in 1..Len(s) : s[i] \in 1..L + 1
  OBVIOUS
<1> QED
  BY <1>1

\* The client indexes after one more item.
LEMMA ClientIndexed ==
  ASSUME ItemsInv, NEW r \in Item, NEW L \in Nat, L = Len(items),
         items' = Append(items, r), IndexClient(r, L + 1)
  PROVE  /\ byClient' \in [DOMAIN byClient' -> 1..L + 1] /\ DOMAIN byClient' \subseteq ID
         /\ \A c \in DOMAIN byClient' : items'[byClient'[c]].client = c
         /\ clientIDs' \in Seq(ID) /\ clientIdxs' \in Seq(1..L + 1)
         /\ Len(clientIDs') = Len(clientIdxs')
         /\ \A k \in 1..Len(clientIdxs') :
              clientIDs'[k] # None /\ items'[clientIdxs'[k]].client = clientIDs'[k]
         /\ \A k \in 1..Len(clientIdxs) : clientIdxs'[k] = clientIdxs[k]
         /\ IF r.client = None THEN Len(clientIdxs') = Len(clientIdxs)
            ELSE /\ Len(clientIdxs') = Len(clientIdxs) + 1
                 /\ clientIdxs'[Len(clientIdxs) + 1] = L + 1
<1>1. /\ items \in Seq(Item) /\ clientIDs \in Seq(ID) /\ clientIdxs \in Seq(1..L)
      /\ byClient \in [DOMAIN byClient -> 1..L] /\ DOMAIN byClient \subseteq ID
  BY DEF ItemsInv, ItemsTypeOK
<1>2. /\ Len(clientIDs) = Len(clientIdxs)
      /\ \A c \in DOMAIN byClient : items[byClient[c]].client = c
      /\ \A k \in 1..Len(clientIdxs) :
           clientIDs[k] # None /\ items[clientIdxs[k]].client = clientIDs[k]
  BY DEF ItemsInv, IndexesAgree
<1>3. /\ items'[L + 1] = r
      /\ \A i \in 1..L : items'[i] = items[i]
  BY <1>1, AppendTypes
<1>4. clientIdxs \in Seq(1..L + 1)
  BY <1>1, Longer
<1>5. r.client \in ID \cup {None}
  BY DEF Item
<1>6. \A k \in 1..Len(clientIdxs) : clientIdxs[k] \in 1..L
  BY <1>1
<1>7. CASE r.client = None
  BY <1>1, <1>2, <1>3, <1>4, <1>6, <1>7 DEF IndexClient
<1>8. CASE r.client # None
  <2>1. /\ byClient' = Put(byClient, r.client, L + 1)
        /\ clientIDs' = Append(clientIDs, r.client)
        /\ clientIdxs' = Append(clientIdxs, L + 1)
    BY <1>8 DEF IndexClient
  <2>2. r.client \in ID /\ L + 1 \in 1..L + 1
    BY <1>5, <1>8
  <2>3. /\ DOMAIN byClient' = DOMAIN byClient \cup {r.client}
        /\ byClient'[r.client] = L + 1
        /\ \A c \in DOMAIN byClient : c # r.client => byClient'[c] = byClient[c]
    BY <2>1 DEF Put
  <2>4. /\ clientIDs' \in Seq(ID) /\ Len(clientIDs') = Len(clientIDs) + 1
        /\ clientIDs'[Len(clientIDs) + 1] = r.client
        /\ \A k \in 1..Len(clientIDs) : clientIDs'[k] = clientIDs[k]
    BY <1>1, <2>1, <2>2, AppendTypes
  <2>5. /\ clientIdxs' \in Seq(1..L + 1) /\ Len(clientIdxs') = Len(clientIdxs) + 1
        /\ clientIdxs'[Len(clientIdxs) + 1] = L + 1
        /\ \A k \in 1..Len(clientIdxs) : clientIdxs'[k] = clientIdxs[k]
        /\ \A k \in 1..Len(clientIdxs') : k \in 1..Len(clientIdxs) \/ k = Len(clientIdxs) + 1
    BY <1>4, <2>1, <2>2, AppendTypes
  <2>6. \A c \in DOMAIN byClient' :
          byClient'[c] \in 1..L + 1 /\ items'[byClient'[c]].client = c
    <3> SUFFICES ASSUME NEW c \in DOMAIN byClient'
                 PROVE  byClient'[c] \in 1..L + 1 /\ items'[byClient'[c]].client = c
      OBVIOUS
    <3>1. CASE c = r.client
      BY <1>3, <2>2, <2>3, <3>1
    <3>2. CASE c # r.client
      <4>1. c \in DOMAIN byClient /\ byClient'[c] = byClient[c] /\ byClient[c] \in 1..L
        BY <1>1, <2>3, <3>2
      <4> QED
        BY <1>2, <1>3, <4>1
    <3> QED
      BY <3>1, <3>2
  <2>7. byClient' \in [DOMAIN byClient' -> 1..L + 1]
    <3>1. byClient' = [c \in DOMAIN byClient' |-> byClient'[c]]
      BY <2>1 DEF Put
    <3> QED
      BY <2>6, <3>1
  <2>8. \A k \in 1..Len(clientIdxs') :
          clientIDs'[k] # None /\ items'[clientIdxs'[k]].client = clientIDs'[k]
    BY <1>2, <1>3, <1>6, <1>8, <2>4, <2>5
  <2> QED
    BY <1>1, <1>2, <1>8, <2>2, <2>3, <2>4, <2>5, <2>6, <2>7, <2>8
<1> QED
  BY <1>7, <1>8

\* The server indexes after one more item.
LEMMA ServerIndexed ==
  ASSUME ItemsInv, NEW r \in Item, NEW L \in Nat, L = Len(items),
         items' = Append(items, r), IndexServer(r, L + 1),
         clientIdxs' \in Seq(1..L + 1),
         \A k \in 1..Len(clientIdxs) : clientIdxs'[k] = clientIdxs[k],
         IF r.client = None THEN Len(clientIdxs') = Len(clientIdxs)
         ELSE /\ Len(clientIdxs') = Len(clientIdxs) + 1
              /\ clientIdxs'[Len(clientIdxs) + 1] = L + 1
  PROVE  /\ byServer' \in [DOMAIN byServer' -> 1..L + 1] /\ DOMAIN byServer' \subseteq ID
         /\ DOMAIN byServer \subseteq DOMAIN byServer'
         /\ r.server # None => r.server \in DOMAIN byServer'
         /\ \A s \in DOMAIN byServer' : items'[byServer'[s]].server = s
         /\ serverIDs' \in Seq(ID) /\ serverIdxs' \in Seq(1..L + 1)
         /\ Len(serverIDs') = Len(serverIdxs')
         /\ \A k \in 1..Len(serverIdxs') :
              serverIDs'[k] # None /\ items'[serverIdxs'[k]].server = serverIDs'[k]
         /\ serverToIdx' \in [DOMAIN serverToIdx' -> 1..Len(clientIdxs')]
         /\ DOMAIN serverToIdx' \subseteq DOMAIN byServer'
         /\ \A s \in DOMAIN serverToIdx' : items'[clientIdxs'[serverToIdx'[s]]].server = s
<1>1. /\ items \in Seq(Item) /\ serverIDs \in Seq(ID) /\ serverIdxs \in Seq(1..L)
      /\ clientIdxs \in Seq(1..L)
      /\ byServer \in [DOMAIN byServer -> 1..L] /\ DOMAIN byServer \subseteq ID
      /\ serverToIdx \in [DOMAIN serverToIdx -> 1..Len(clientIdxs)]
  BY DEF ItemsInv, ItemsTypeOK
<1>2. /\ Len(serverIDs) = Len(serverIdxs)
      /\ \A s \in DOMAIN byServer : items[byServer[s]].server = s
      /\ \A k \in 1..Len(serverIdxs) :
           serverIDs[k] # None /\ items[serverIdxs[k]].server = serverIDs[k]
      /\ \A s \in DOMAIN serverToIdx :
           s \in DOMAIN byServer /\ items[clientIdxs[serverToIdx[s]]].server = s
  BY DEF ItemsInv, IndexesAgree, Known, ItemByServerID
<1>3. /\ items'[L + 1] = r
      /\ \A i \in 1..L : items'[i] = items[i]
  BY <1>1, AppendTypes
<1>4. serverIdxs \in Seq(1..L + 1)
  BY <1>1, Longer
<1>5. r.server \in ID \cup {None}
  BY DEF Item
<1>6. /\ \A k \in 1..Len(serverIdxs) : serverIdxs[k] \in 1..L
      /\ \A k \in 1..Len(clientIdxs) : clientIdxs[k] \in 1..L
      /\ Len(clientIdxs) \in Nat
  <2>1. serverIdxs \in Seq(1..L) /\ clientIdxs \in Seq(1..L)
    BY <1>1
  <2> QED
    BY ONLY <2>1
<1>7. \A s \in DOMAIN serverToIdx :
        /\ serverToIdx[s] \in 1..Len(clientIdxs')
        /\ items'[clientIdxs'[serverToIdx[s]]].server = s
  <2> SUFFICES ASSUME NEW s \in DOMAIN serverToIdx
               PROVE  /\ serverToIdx[s] \in 1..Len(clientIdxs')
                      /\ items'[clientIdxs'[serverToIdx[s]]].server = s
    OBVIOUS
  <2>1. serverToIdx[s] \in 1..Len(clientIdxs)
    BY <1>1
  <2>2. clientIdxs'[serverToIdx[s]] = clientIdxs[serverToIdx[s]]
        /\ clientIdxs[serverToIdx[s]] \in 1..L
    BY <1>6, <2>1
  <2>3. serverToIdx[s] \in 1..Len(clientIdxs')
    BY <1>6, <2>1
  <2> QED
    BY <1>2, <1>3, <2>2, <2>3
<1>8. CASE r.server = None
  <2>1. /\ byServer' = byServer /\ serverIDs' = serverIDs
        /\ serverIdxs' = serverIdxs /\ serverToIdx' = serverToIdx
    BY <1>8 DEF IndexServer
  <2>2. serverToIdx' \in [DOMAIN serverToIdx' -> 1..Len(clientIdxs')]
    BY <1>1, <1>7, <2>1
  <2>3. /\ byServer' \in [DOMAIN byServer' -> 1..L + 1]
        /\ \A s \in DOMAIN byServer' : items'[byServer'[s]].server = s
    <3>1. \A s \in DOMAIN byServer : byServer[s] \in 1..L /\ byServer[s] \in 1..L + 1
      BY <1>1
    <3> QED
      BY <1>1, <1>2, <1>3, <2>1, <3>1
  <2>4. \A k \in 1..Len(serverIdxs') :
          serverIDs'[k] # None /\ items'[serverIdxs'[k]].server = serverIDs'[k]
    BY <1>2, <1>3, <1>6, <2>1
  <2>5. \A s \in DOMAIN serverToIdx' : items'[clientIdxs'[serverToIdx'[s]]].server = s
    BY <1>7, <2>1
  <2> QED
    BY <1>1, <1>2, <1>4, <1>8, <2>1, <2>2, <2>3, <2>4, <2>5
<1>9. CASE r.server # None
  <2>1. /\ byServer' = Put(byServer, r.server, L + 1)
        /\ serverIDs' = Append(serverIDs, r.server)
        /\ serverIdxs' = Append(serverIdxs, L + 1)
        /\ serverToIdx' = IF r.client = None THEN serverToIdx
                          ELSE Put(serverToIdx, r.server, Len(clientIdxs) + 1)
    BY <1>9 DEF IndexServer
  <2>2. r.server \in ID /\ L + 1 \in 1..L + 1
    BY <1>5, <1>9
  <2>3. /\ DOMAIN byServer' = DOMAIN byServer \cup {r.server}
        /\ byServer'[r.server] = L + 1
        /\ \A s \in DOMAIN byServer : s # r.server => byServer'[s] = byServer[s]
    BY <2>1 DEF Put
  <2>4. /\ serverIDs' \in Seq(ID) /\ Len(serverIDs') = Len(serverIDs) + 1
        /\ serverIDs'[Len(serverIDs) + 1] = r.server
        /\ \A k \in 1..Len(serverIDs) : serverIDs'[k] = serverIDs[k]
    BY <1>1, <2>1, <2>2, AppendTypes
  <2>5. /\ serverIdxs' \in Seq(1..L + 1) /\ Len(serverIdxs') = Len(serverIdxs) + 1
        /\ serverIdxs'[Len(serverIdxs) + 1] = L + 1
        /\ \A k \in 1..Len(serverIdxs) : serverIdxs'[k] = serverIdxs[k]
        /\ \A k \in 1..Len(serverIdxs') : k \in 1..Len(serverIdxs) \/ k = Len(serverIdxs) + 1
    BY <1>4, <2>1, <2>2, AppendTypes
  <2>6. \A s \in DOMAIN byServer' :
          byServer'[s] \in 1..L + 1 /\ items'[byServer'[s]].server = s
    <3> SUFFICES ASSUME NEW s \in DOMAIN byServer'
                 PROVE  byServer'[s] \in 1..L + 1 /\ items'[byServer'[s]].server = s
      OBVIOUS
    <3>1. CASE s = r.server
      BY <1>3, <2>2, <2>3, <3>1
    <3>2. CASE s # r.server
      <4>1. s \in DOMAIN byServer /\ byServer'[s] = byServer[s] /\ byServer[s] \in 1..L
        BY <1>1, <2>3, <3>2
      <4> QED
        BY <1>2, <1>3, <4>1
    <3> QED
      BY <3>1, <3>2
  <2>7. byServer' \in [DOMAIN byServer' -> 1..L + 1]
    <3>1. byServer' = [s \in DOMAIN byServer' |-> byServer'[s]]
      BY <2>1 DEF Put
    <3> QED
      BY <2>6, <3>1
  <2>8. \A k \in 1..Len(serverIdxs') :
          serverIDs'[k] # None /\ items'[serverIdxs'[k]].server = serverIDs'[k]
    <3> SUFFICES ASSUME NEW k \in 1..Len(serverIdxs')
                 PROVE  serverIDs'[k] # None /\ items'[serverIdxs'[k]].server = serverIDs'[k]
      OBVIOUS
    <3>1. CASE k = Len(serverIdxs) + 1
      BY <1>2, <1>3, <1>9, <2>4, <2>5, <3>1
    <3>2. CASE k \in 1..Len(serverIdxs)
      <4>1. serverIdxs'[k] = serverIdxs[k] /\ serverIdxs[k] \in 1..L
            /\ serverIDs'[k] = serverIDs[k]
        BY <1>2, <1>6, <2>4, <2>5, <3>2
      <4> QED
        BY <1>2, <1>3, <3>2, <4>1
    <3> QED
      BY <2>5, <3>1, <3>2
  <2>9. /\ DOMAIN serverToIdx' \subseteq DOMAIN byServer'
        /\ \A s \in DOMAIN serverToIdx' :
             /\ serverToIdx'[s] \in 1..Len(clientIdxs')
             /\ items'[clientIdxs'[serverToIdx'[s]]].server = s
        /\ serverToIdx' = [s \in DOMAIN serverToIdx' |-> serverToIdx'[s]]
    <3>1. DOMAIN serverToIdx \subseteq DOMAIN byServer'
      BY <1>2, <2>3
    <3>2. CASE r.client = None
      BY <1>1, <1>7, <2>1, <3>1, <3>2
    <3>3. CASE r.client # None
      <4>1. /\ DOMAIN serverToIdx' = DOMAIN serverToIdx \cup {r.server}
            /\ serverToIdx'[r.server] = Len(clientIdxs) + 1
            /\ \A s \in DOMAIN serverToIdx : s # r.server => serverToIdx'[s] = serverToIdx[s]
            /\ serverToIdx' = [s \in DOMAIN serverToIdx' |-> serverToIdx'[s]]
        BY <2>1, <3>3 DEF Put
      <4>2. /\ Len(clientIdxs) + 1 \in 1..Len(clientIdxs')
            /\ items'[clientIdxs'[Len(clientIdxs) + 1]].server = r.server
        BY <1>3, <1>6, <3>3
      <4> QED
        BY <1>7, <2>3, <3>1, <4>1, <4>2
    <3> QED
      BY <3>2, <3>3
  <2>10. serverToIdx' \in [DOMAIN serverToIdx' -> 1..Len(clientIdxs')]
    BY <2>9
  <2>11. Len(serverIDs') = Len(serverIdxs') /\ DOMAIN byServer' \subseteq ID
    BY <1>1, <1>2, <2>2, <2>3, <2>4, <2>5
  <2>12. \A s \in DOMAIN byServer' : items'[byServer'[s]].server = s
    BY <2>6
  <2>13. \A s \in DOMAIN serverToIdx' : items'[clientIdxs'[serverToIdx'[s]]].server = s
    BY <2>9
  <2> QED
    BY <2>3, <2>4, <2>5, <2>7, <2>8, <2>9, <2>10, <2>11, <2>12, <2>13
<1> QED
  BY <1>8, <1>9

\* Reading an item keeps the indexes in agreement, and forgets no identifier.
LEMMA ItemsStep ==
  ASSUME ItemsInv, ItemsNext \/ UNCHANGED itemsVars
  PROVE  ItemsInv' /\ DOMAIN byServer \subseteq DOMAIN byServer'
<1>1. ASSUME NEW r \in Records, ReadItem(r)
      PROVE  ItemsInv' /\ DOMAIN byServer \subseteq DOMAIN byServer'
  <2>1. r \in Item
    BY RecordsAssumption
  <2>2. items \in Seq(Item)
    BY DEF ItemsInv, ItemsTypeOK
  <2>3. PICK L \in Nat : L = Len(items)
    BY <2>2
  <2>4. /\ items' = Append(items, r) /\ itemsFile' = itemsFile
        /\ IndexClient(r, L + 1) /\ IndexServer(r, L + 1)
    BY <1>1, <2>3 DEF ReadItem
  <2>5. /\ items' \in Seq(Item) /\ Len(items') = L + 1 /\ items'[L + 1] = r
        /\ \A i \in 1..L : items'[i] = items[i]
        /\ \A i \in 1..L + 1 : i \in 1..L \/ i = L + 1
    BY <2>1, <2>2, <2>3, <2>4, AppendTypes
  <2>6. /\ byClient' \in [DOMAIN byClient' -> 1..L + 1] /\ DOMAIN byClient' \subseteq ID
        /\ \A c \in DOMAIN byClient' : items'[byClient'[c]].client = c
        /\ clientIDs' \in Seq(ID) /\ clientIdxs' \in Seq(1..L + 1)
        /\ Len(clientIDs') = Len(clientIdxs')
        /\ \A k \in 1..Len(clientIdxs') :
             clientIDs'[k] # None /\ items'[clientIdxs'[k]].client = clientIDs'[k]
        /\ \A k \in 1..Len(clientIdxs) : clientIdxs'[k] = clientIdxs[k]
        /\ IF r.client = None THEN Len(clientIdxs') = Len(clientIdxs)
           ELSE /\ Len(clientIdxs') = Len(clientIdxs) + 1
                /\ clientIdxs'[Len(clientIdxs) + 1] = L + 1
    BY <2>1, <2>3, <2>4, ClientIndexed
  <2>7. /\ byServer' \in [DOMAIN byServer' -> 1..L + 1] /\ DOMAIN byServer' \subseteq ID
        /\ DOMAIN byServer \subseteq DOMAIN byServer'
        /\ r.server # None => r.server \in DOMAIN byServer'
        /\ \A s \in DOMAIN byServer' : items'[byServer'[s]].server = s
        /\ serverIDs' \in Seq(ID) /\ serverIdxs' \in Seq(1..L + 1)
        /\ Len(serverIDs') = Len(serverIdxs')
        /\ \A k \in 1..Len(serverIdxs') :
             serverIDs'[k] # None /\ items'[serverIdxs'[k]].server = serverIDs'[k]
        /\ serverToIdx' \in [DOMAIN serverToIdx' -> 1..Len(clientIdxs')]
        /\ DOMAIN serverToIdx' \subseteq DOMAIN byServer'
        /\ \A s \in DOMAIN serverToIdx' : items'[clientIdxs'[serverToIdx'[s]]].server = s
    BY <2>1, <2>3, <2>4, <2>6, ServerIndexed
  <2>8. itemsFile' \in {"reading", "loaded", "failed"}
    BY <2>4 DEF ItemsInv, ItemsTypeOK
  <2>9. ItemsTypeOK'
    BY <2>5, <2>6, <2>7, <2>8 DEF ItemsTypeOK
  <2>10. IndexesAgree'
    <3>1. \A s \in DOMAIN serverToIdx' : serverToIdx'[s] \in 1..Len(clientIdxs')
      BY <2>7
    <3> QED
      BY <2>6, <2>7, <3>1 DEF IndexesAgree, Known, ItemByServerID
  <2>11. \A i \in 1..L + 1 : items'[i].server # None => items'[i].server \in DOMAIN byServer'
    <3>1. \A i \in 1..L : items[i].server # None => items[i].server \in DOMAIN byServer
      BY <2>3 DEF ItemsInv, Known
    <3> QED
      BY <2>5, <2>7, <3>1
  <2> QED
    BY <2>5, <2>7, <2>9, <2>10, <2>11 DEF ItemsInv, Known
<1>2. CASE ItemsFail \/ ItemsEnd
  <2>1. /\ UNCHANGED <<items, byServer, byClient, clientIDs, clientIdxs, serverIDs,
                       serverIdxs, serverToIdx>>
        /\ itemsFile' \in {"reading", "loaded", "failed"}
    BY <1>2 DEF ItemsFail, ItemsEnd
  <2> QED
    BY <2>1 DEF ItemsInv, ItemsTypeOK, IndexesAgree, Known, ItemByServerID
<1>3. CASE UNCHANGED itemsVars
  BY <1>3 DEF itemsVars, ItemsInv, ItemsTypeOK, IndexesAgree, Known, ItemByServerID
<1> QED
  BY <1>1, <1>2, <1>3 DEF ItemsNext

-----------------------------------------------------------------------------
(* The map.                                                                *)

\* The part of LoaderInv that is about the map.
MapInv ==
  /\ frames \in Seq(Call)
  /\ tiles \in [DOMAIN tiles -> TileOnMap] /\ DOMAIN tiles \subseteq Pos
  /\ spawn \in Pos
  /\ mapFile \in {"waiting", "reading", "loaded", "failed", "panicked"}
  /\ nodes \in 0..MaxNodes
  /\ listed \in [Pos -> Seq(ID)]
  /\ temples \in Seq(Pos)
  /\ TilesKnown
  /\ mapFile = "waiting" => frames = <<>>
  /\ mapFile = "reading" => frames # <<>> /\ frames[1].at = "root"

LEMMA Parts == LoaderInv <=> ItemsInv /\ MapInv
BY DEF LoaderInv, ItemsInv, MapInv, TypeOK

\* Positions wrap.
LEMMA Wraps ==
  ASSUME NEW p \in Pos, NEW off \in Offsets
  PROVE  0 \in Pos /\ (p + off) % Wrap \in Pos
<1>1. ASSUME NEW n \in Nat \ {0}, NEW k \in Nat
      PROVE  k % n \in 0..n - 1
  OBVIOUS
<1>2. p + off \in Nat /\ Wrap \in Nat \ {0}
  BY MapFileAssumption DEF Pos
<1> QED
  BY <1>1, <1>2 DEF Pos

\* A tile without items.
LEMMA EmptyTileTypes == EmptyTile \in TileOnMap /\ AllKnown(EmptyTile)
BY DEF EmptyTile, TileOnMap, AllKnown, ID

\* An item that is known, and goes to the ground or one of the layers, leaves
\* the tile with known items.
LEMMA WithItemTypes ==
  ASSUME ItemsTypeOK, NEW id \in ID, Known(id),
         ItemByServerID(id).ground \/ ItemByServerID(id).order \in 0..3,
         NEW t \in TileOnMap, AllKnown(t)
  PROVE  WithItem(t, id) \in TileOnMap /\ AllKnown(WithItem(t, id))
<1> DEFINE r == ItemByServerID(id)
<1>1. CASE r.ground
  <2>1. WithItem(t, id) = [t EXCEPT !.ground = id]
    BY <1>1 DEF WithItem
  <2> QED
    BY <2>1 DEF TileOnMap, AllKnown, Known
<1>2. CASE ~r.ground
  <2>1. PICK n \in 0..3 : n = r.order
    BY <1>2
  <2>2. WithItem(t, id) = [t EXCEPT !.layers[n] = Append(@, id)]
    BY <1>2, <2>1 DEF WithItem
  <2>3. t.layers \in [0..3 -> Seq(ID)] /\ t.ground \in ID
    BY DEF TileOnMap
  <2>4. PICK l \in [0..3 -> Seq(ID)] : l = [t.layers EXCEPT ![n] = Append(@, id)]
    <3>1. Append(t.layers[n], id) \in Seq(ID)
      BY <2>3
    <3> QED
      BY <2>3, <3>1
  <2>5. WithItem(t, id) = [t EXCEPT !.layers = l]
    BY <2>2, <2>4
  <2>6. WithItem(t, id) \in TileOnMap /\ WithItem(t, id).layers = l
        /\ WithItem(t, id).ground = t.ground
    BY <2>5 DEF TileOnMap
  <2>7. \A m \in 0..3 : \A i \in 1..Len(l[m]) : Known(l[m][i])
    <3> SUFFICES ASSUME NEW m \in 0..3, NEW i \in 1..Len(l[m]) PROVE Known(l[m][i])
      OBVIOUS
    <3>1. \A j \in 1..Len(t.layers[m]) : Known(t.layers[m][j])
      BY DEF AllKnown
    <3>2. CASE m # n
      BY <2>3, <2>4, <3>1, <3>2
    <3>3. CASE m = n
      <4>1. l[m] = Append(t.layers[m], id) /\ t.layers[m] \in Seq(ID)
        BY <2>3, <2>4, <3>3
      <4>2. CASE i = Len(t.layers[m]) + 1
        BY <4>1, <4>2
      <4>3. CASE i \in 1..Len(t.layers[m])
        BY <3>1, <4>1, <4>3
      <4> QED
        BY <4>1, <4>2, <4>3, SMTT(20)
    <3> QED
      BY <3>2, <3>3
  <2> QED
    BY <2>6, <2>7 DEF AllKnown
<1> QED
  BY <1>1, <1>2

\* addItem keeps the tiles' types, and everything on them known.
LEMMA AddItemSafe ==
  ASSUME ItemsTypeOK, UNCHANGED itemsVars, MapInv,
         NEW p, NEW id \in ID, AddItem(p, id)
  PROVE  /\ tiles' \in [DOMAIN tiles' -> TileOnMap] /\ DOMAIN tiles' \subseteq Pos
         /\ TilesKnown'
         /\ mapFile' \in {mapFile, "panicked"}
<1>1. /\ tiles \in [DOMAIN tiles -> TileOnMap] /\ DOMAIN tiles \subseteq Pos
      /\ \A q \in DOMAIN tiles : tiles[q] \in TileOnMap /\ AllKnown(tiles[q])
  BY DEF MapInv, TilesKnown
<1>2. \A t : AllKnown(t)' <=> AllKnown(t)
  BY DEF AllKnown, Known, itemsVars
<1>3. CASE tiles' = tiles /\ mapFile' \in {mapFile, "panicked"}
  BY <1>1, <1>2, <1>3 DEF TilesKnown
<1>4. CASE /\ Known(id)
           /\ ItemByServerID(id).ground \/ ItemByServerID(id).order <= 3
           /\ tiles' = [tiles EXCEPT ![p] = WithItem(@, id)]
           /\ mapFile' = mapFile
  <2>1. ItemByServerID(id).order \in Nat
    <3>1. \A r \in Item : r.order \in Nat
      BY DEF Item
    <3> QED
      BY <1>4, <3>1, KnownItem
  <2>2. ItemByServerID(id).ground \/ ItemByServerID(id).order \in 0..3
    BY <1>4, <2>1
  <2>3. \A t \in TileOnMap : AllKnown(t) =>
          WithItem(t, id) \in TileOnMap /\ AllKnown(WithItem(t, id))
    BY <1>4, <2>2, WithItemTypes
  <2>4. \A q \in DOMAIN tiles : tiles'[q] \in TileOnMap /\ AllKnown(tiles'[q])
    BY <1>1, <1>4, <2>3
  <2> QED
    BY <1>1, <1>2, <1>4, <2>4 DEF TilesKnown
<1> QED
  <2>1. Known(id) => ItemByServerID(id) \in Item
    BY KnownItem
  <2>2. Known(id) => ItemByServerID(id).order \in 0..255
    BY <2>1 DEF Item
  <2> QED
    BY <1>3, <1>4, <2>2 DEF AddItem

\* A call is entered, or returns: what is below it stays.
LEMMA Pushed ==
  ASSUME frames \in Seq(Call), NEW f \in Call, Push(f)
  PROVE  /\ Len(frames') = Len(frames) + 1 /\ frames'[Len(frames) + 1] = f
         /\ \A i \in 1..Len(frames) : frames'[i] = frames[i]
         /\ \A i \in 1..Len(frames') : i \in 1..Len(frames) \/ i = Len(frames) + 1
BY DEF Push

\* A call is entered, or the innermost returns.
LEMMA PushCall ==
  ASSUME frames \in Seq(Call), NEW f \in Call, Push(f)
  PROVE  /\ frames' \in Seq(Call) /\ frames' # <<>>
         /\ frames # <<>> => frames'[1] = frames[1]
         /\ frames = <<>> => frames'[1] = f
BY DEF Push

LEMMA Returned ==
  ASSUME frames \in Seq(Call), frames # <<>>
  PROVE  /\ Popped \in Seq(Call) /\ Len(Popped) = Len(frames) - 1
         /\ \A i \in 1..Len(frames) - 1 : Popped[i] = frames[i]
<1>1. PICK k \in Nat : k = Len(frames) - 1
  OBVIOUS
<1>2. Popped = SubSeq(frames, 1, k)
  BY <1>1 DEF Popped
<1>3. \A i \in 1..k : frames[i] \in Call
  BY <1>1
<1>4. /\ Popped \in Seq(Call)
      /\ Len(Popped) = IF 1 <= k THEN k - 1 + 1 ELSE 0
      /\ \A i \in 1..k - 1 + 1 : Popped[i] = frames[1 + i - 1]
  BY <1>1, <1>2, <1>3, SubSeqProperties
<1> HIDE DEF Popped
<1>5. k - 1 + 1 = k /\ \A i \in 1..k : 1 + i - 1 = i
  BY <1>1
<1>6. Len(Popped) = k
  BY <1>1, <1>4, <1>5
<1>7. \A i \in 1..k : Popped[i] = frames[i]
  BY <1>4, <1>5
<1> QED
  BY <1>1, <1>4, <1>6, <1>7

LEMMA PopCall ==
  ASSUME frames \in Seq(Call), frames # <<>>, frames[1].at = "root", Top.at # "root"
  PROVE  Popped \in Seq(Call) /\ Popped # <<>> /\ Popped[1] = frames[1]
<1>1. PICK L \in Nat \ {0} : L = Len(frames)
  OBVIOUS
<1>2. L # 1
  BY <1>1 DEF Top
<1>3. /\ Popped \in Seq(Call) /\ Len(Popped) = L - 1
      /\ \A i \in 1..L - 1 : Popped[i] = frames[i]
  BY <1>1, Returned
<1> QED
  BY <1>1, <1>2, <1>3

LEMMA ReplaceCall ==
  \A s \in Seq(Call), f \in Call :
    s # <<>> => Append(s, f) \in Seq(Call) /\ Append(s, f) # <<>> /\ Append(s, f)[1] = s[1]
OBVIOUS

\* The innermost call is one of the functions that read nodes.
LEMMA TopCall ==
  ASSUME frames \in Seq(Call), frames # <<>>
  PROVE  Top \in Call /\ Top.pos \in Pos /\ Top.id \in ID
<1>1. Top \in Call
  BY DEF Top
<1>2. \A f \in Call : f.pos \in Pos /\ f.id \in ID
  BY DEF Call
<1> QED
  BY <1>1, <1>2

\* The first item of an area of the file, and what goes with it.
LEMMA FrameTypes ==
  ASSUME NEW at \in {"root", "mapData", "area", "attributes", "tile", "item", "places"},
         NEW p \in Pos, NEW id \in ID
  PROVE  Frame(at, p, id) \in Call /\ Frame(at, p, id).at = at
BY DEF Frame, Call

\* What a step that reads the map leaves of the invariant once the frames,
\* the tiles and the ends are seen to.
LEMMA Reading ==
  ASSUME MapInv, UNCHANGED itemsVars, mapFile = "reading",
         frames' \in Seq(Call) /\ frames' # <<>> /\ frames'[1] = frames[1],
         mapFile' \in {"reading", "failed", "panicked"},
         nodes' \in 0..MaxNodes,
         spawn' \in Pos, temples' \in Seq(Pos), listed' \in [Pos -> Seq(ID)],
         \/ UNCHANGED tiles
         \/ /\ tiles' \in [DOMAIN tiles' -> TileOnMap] /\ DOMAIN tiles' \subseteq Pos
            /\ TilesKnown'
  PROVE  MapInv'
<1>1. UNCHANGED tiles => TilesKnown'
  BY DEF MapInv, TilesKnown, AllKnown, Known, itemsVars
<1> QED
  BY <1>1 DEF MapInv

\* Reading the map, and standing on it, keeps the invariant.
LEMMA MapStep ==
  ASSUME ItemsInv, MapInv, ReadMap, UNCHANGED itemsVars
  PROVE  MapInv'
<1>1. /\ frames \in Seq(Call) /\ spawn \in Pos /\ nodes \in 0..MaxNodes
      /\ temples \in Seq(Pos) /\ listed \in [Pos -> Seq(ID)] /\ MaxNodes \in Nat
      /\ tiles \in [DOMAIN tiles -> TileOnMap] /\ DOMAIN tiles \subseteq Pos
      /\ \A q \in DOMAIN tiles : tiles[q] \in TileOnMap /\ AllKnown(tiles[q])
  BY MapFileAssumption DEF MapInv, TilesKnown
<1>2. 0 \in Pos /\ 0 \in ID /\ GroundID \in ID /\ FileIDs \subseteq ID
  <2>1. 0 \in Pos
    BY MapFileAssumption DEF Pos
  <2>2. 0 \in ID
    BY DEF ID
  <2>3. GroundID \in ID /\ FileIDs \subseteq ID
    BY MapFileAssumption
  <2> QED
    BY <2>1, <2>2, <2>3
<1>3. ItemsTypeOK
  BY DEF ItemsInv
<1>4. \A t : AllKnown(t)' <=> AllKnown(t)
  BY DEF AllKnown, Known, itemsVars
\* A step with mapFile = "reading" has a call it belongs to.
<1>5. mapFile = "reading" =>
        /\ frames # <<>> /\ frames[1].at = "root"
        /\ Top.pos \in Pos /\ Top.id \in ID
  BY TopCall DEF MapInv
\* What Child does.
<1>6. \A parents : Child(parents) =>
        mapFile = "reading" /\ mapFile' = "reading" /\ nodes' \in 0..MaxNodes
  BY <1>1 DEF Child
\* Listing an item keeps the lists' types.
<1>7. ASSUME NEW id \in ID, mapFile = "reading", List(Top.pos, id)
      PROVE  listed' \in [Pos -> Seq(ID)]
  <2>1. Top.pos \in Pos /\ Append(listed[Top.pos], id) \in Seq(ID)
    BY <1>1, <1>5, <1>7
  <2> QED
    BY <1>1, <1>7, <2>1 DEF List
<1>8. CASE OpenMap
  <2>1. Frame("root", 0, 0) \in Call /\ Frame("root", 0, 0).at = "root"
    BY <1>2, FrameTypes, ZenonT(30)
  <2>2. Push(Frame("root", 0, 0)) /\ mapFile' = "reading"
        /\ UNCHANGED <<tiles, spawn, nodes, listed, temples>> /\ mapFile = "waiting"
    BY <1>8 DEF OpenMap
  <2>3. frames = <<>>
    BY <2>2 DEF MapInv
  <2>4. frames' \in Seq(Call) /\ frames' # <<>> /\ frames'[1].at = "root"
    BY <1>1, <2>1, <2>2, <2>3, PushCall
  <2> QED
    BY <1>1, <1>4, <2>2, <2>4 DEF MapInv, TilesKnown
<1>9. ASSUME NEW at \in {"mapData", "area", "attributes", "item", "places"},
             NEW q \in Pos, NEW id \in ID,
             mapFile = "reading", Push(Frame(at, q, id))
      PROVE  frames' \in Seq(Call) /\ frames' # <<>> /\ frames'[1] = frames[1]
  <2>1. Frame(at, q, id) \in Call
    BY <1>9, FrameTypes
  <2> QED
    BY <1>1, <1>5, <1>9, <2>1, PushCall
<1>10. ASSUME mapFile = "reading", Top.at # "root"
       PROVE  Popped \in Seq(Call) /\ Popped # <<>> /\ Popped[1] = frames[1]
  BY <1>1, <1>5, <1>10, PopCall
<1>11. CASE MapData \/ Places
  <2>1. /\ mapFile = "reading" /\ mapFile' = "reading" /\ nodes' \in 0..MaxNodes
        /\ UNCHANGED <<tiles, spawn, listed, temples>>
        /\ Push(Frame("mapData", 0, 0)) \/ Push(Frame("places", 0, 0))
    BY <1>6, <1>11 DEF MapData, Places
  <2>2. frames' \in Seq(Call) /\ frames' # <<>> /\ frames'[1] = frames[1]
    BY <1>2, <1>9, <2>1
  <2> QED
    BY <1>1, <2>1, <2>2, Reading
<1>12. CASE ItemDef \/ NoItem
  <2>1. /\ mapFile = "reading" /\ mapFile' = "reading" /\ nodes' \in 0..MaxNodes
        /\ UNCHANGED <<frames, tiles, spawn, listed, temples>>
    BY <1>6, <1>12 DEF ItemDef, NoItem
  <2> QED
    BY <1>1, <1>5, <2>1, Reading
<1>13. ASSUME NEW q \in Pos, TileArea(q) PROVE MapInv'
  <2>1. /\ mapFile = "reading" /\ mapFile' = "reading" /\ nodes' \in 0..MaxNodes
        /\ UNCHANGED <<tiles, spawn, listed, temples>>
        /\ Push(Frame("area", q, 0))
    BY <1>6, <1>13 DEF TileArea
  <2>2. frames' \in Seq(Call) /\ frames' # <<>> /\ frames'[1] = frames[1]
    BY <1>2, <1>9, <2>1
  <2> QED
    BY <1>1, <2>1, <2>2, Reading
<1>14. ASSUME NEW q \in Pos, Place(q) PROVE MapInv'
  <2>1. /\ mapFile = "reading" /\ mapFile' = "reading" /\ nodes' \in 0..MaxNodes
        /\ UNCHANGED <<frames, tiles, listed>>
        /\ temples' = Append(temples, q) /\ spawn' \in {q, spawn}
    BY <1>6, <1>14 DEF Place
  <2>2. temples' \in Seq(Pos) /\ spawn' \in Pos
    BY <1>1, <2>1
  <2> QED
    BY <1>1, <1>5, <2>1, <2>2, Reading
<1>15. ASSUME NEW off \in Offsets, Tile(off) PROVE MapInv'
  <2>1. mapFile = "reading" /\ mapFile' = "reading" /\ nodes' \in 0..MaxNodes
    BY <1>6, <1>15 DEF Tile
  <2>2. PICK q \in Pos : /\ tiles' = Put(tiles, q, EmptyTile)
                         /\ listed' = [listed EXCEPT ![q] = <<>>]
                         /\ Push(Frame("attributes", q, 0))
                         /\ UNCHANGED <<spawn, temples>>
    <3>1. (Top.pos + off) % Wrap \in Pos
      BY <1>5, <2>1, Wraps
    <3> QED
      BY <1>15, <3>1 DEF Tile
  <2>3. frames' \in Seq(Call) /\ frames' # <<>> /\ frames'[1] = frames[1]
    BY <1>2, <1>9, <2>1, <2>2
  <2>4. listed' \in [Pos -> Seq(ID)]
    <3>1. <<>> \in Seq(ID)
      OBVIOUS
    <3> QED
      BY <1>1, <2>2, <3>1
  <2>5. /\ DOMAIN tiles' = DOMAIN tiles \cup {q}
        /\ tiles' = [z \in DOMAIN tiles' |-> tiles'[z]]
        /\ \A z \in DOMAIN tiles' : tiles'[z] = EmptyTile \/ (z \in DOMAIN tiles /\ tiles'[z] = tiles[z])
    <3>1. tiles' = [z \in DOMAIN tiles \cup {q} |-> IF z = q THEN EmptyTile ELSE tiles[z]]
      BY <2>2 DEF Put
    <3>2. DOMAIN tiles' = DOMAIN tiles \cup {q}
      BY <3>1
    <3>3. /\ tiles'[q] = EmptyTile
          /\ \A z \in DOMAIN tiles' : z # q => tiles'[z] = tiles[z]
      BY <3>1
    <3>4. tiles' = [z \in DOMAIN tiles' |-> tiles'[z]]
      BY <3>1
    <3>5. ASSUME NEW z \in DOMAIN tiles'
          PROVE  tiles'[z] = EmptyTile \/ (z \in DOMAIN tiles /\ tiles'[z] = tiles[z])
      <4>1. CASE z = q
        BY <3>3, <4>1
      <4>2. CASE z # q
        BY <3>2, <3>3, <4>2
      <4> QED
        BY <4>1, <4>2
    <3> QED
      BY <3>2, <3>4, <3>5
  <2>6. \A z \in DOMAIN tiles' : tiles'[z] \in TileOnMap /\ AllKnown(tiles'[z])
    BY <1>1, <2>5, EmptyTileTypes
  <2>7. tiles' \in [DOMAIN tiles' -> TileOnMap] /\ DOMAIN tiles' \subseteq Pos /\ TilesKnown'
    BY <1>1, <1>4, <2>5, <2>6 DEF TilesKnown
  <2> QED
    BY <1>1, <2>1, <2>2, <2>3, <2>4, <2>7, Reading
<1>16. CASE EndAttributes
  <2>1. /\ mapFile = "reading" /\ mapFile' = mapFile /\ Top.at = "attributes"
        /\ frames' = Append(Popped, Frame("tile", Top.pos, 0))
        /\ UNCHANGED <<tiles, spawn, nodes, listed, temples>>
    BY <1>16 DEF EndAttributes
  <2>2. Frame("tile", Top.pos, 0) \in Call
    BY <1>2, <1>5, <2>1, FrameTypes
  <2>3. frames' \in Seq(Call) /\ frames' # <<>> /\ frames'[1] = frames[1]
    <3>1. Popped \in Seq(Call) /\ Popped # <<>> /\ Popped[1] = frames[1]
      BY <1>10, <2>1
    <3> QED
      BY <2>1, <2>2, <3>1, ReplaceCall
  <2> QED
    BY <1>1, <2>1, <2>3, Reading
<1>17. ASSUME NEW id \in FileIDs, InlineItem(id) PROVE MapInv'
  <2>1. /\ mapFile = "reading" /\ nodes < MaxNodes /\ nodes' = nodes + 1
        /\ List(Top.pos, id)
        /\ UNCHANGED <<frames, spawn, temples>>
        /\ \/ mapFile' = "panicked" /\ UNCHANGED tiles
           \/ AddItem(Top.pos, id)
    BY <1>17 DEF InlineItem
  <2>2. id \in ID /\ nodes' \in 0..MaxNodes
    BY <1>1, <1>2, <2>1
  <2>3. listed' \in [Pos -> Seq(ID)]
    BY <1>7, <2>1, <2>2
  <2>4. CASE AddItem(Top.pos, id)
    <3>1. /\ tiles' \in [DOMAIN tiles' -> TileOnMap] /\ DOMAIN tiles' \subseteq Pos
          /\ TilesKnown' /\ mapFile' \in {"reading", "panicked"}
      BY <1>3, <2>1, <2>2, <2>4, AddItemSafe
    <3> QED
      BY <1>1, <1>5, <2>1, <2>2, <2>3, <3>1, Reading
  <2>5. CASE mapFile' = "panicked" /\ UNCHANGED tiles
    BY <1>1, <1>5, <2>1, <2>2, <2>3, <2>5, Reading
  <2> QED
    BY <2>1, <2>4, <2>5
<1>18. ASSUME NEW id \in FileIDs, ItemNode(id) PROVE MapInv'
  <2>1. /\ mapFile = "reading" /\ mapFile' = "reading" /\ nodes' \in 0..MaxNodes
        /\ Push(Frame("item", Top.pos, id))
        /\ List(Top.pos, id) \/ UNCHANGED listed
        /\ UNCHANGED <<tiles, spawn, temples>>
    BY <1>6, <1>18 DEF ItemNode
  <2>2. frames' \in Seq(Call) /\ frames' # <<>> /\ frames'[1] = frames[1]
    BY <1>2, <1>5, <1>9, <2>1
  <2>3. listed' \in [Pos -> Seq(ID)]
    BY <1>1, <1>2, <1>7, <2>1
  <2> QED
    BY <1>1, <2>1, <2>2, <2>3, Reading
<1>19. CASE EndItem
  <2>1. /\ mapFile = "reading" /\ Top.at = "item" /\ frames' = Popped
        /\ UNCHANGED <<spawn, nodes, listed, temples>>
        /\ AddItem(Top.pos, Top.id) \/ UNCHANGED <<tiles, mapFile>>
    BY <1>19 DEF EndItem
  <2>2. frames' \in Seq(Call) /\ frames' # <<>> /\ frames'[1] = frames[1]
    BY <1>10, <2>1
  <2>3. CASE AddItem(Top.pos, Top.id)
    <3>1. /\ tiles' \in [DOMAIN tiles' -> TileOnMap] /\ DOMAIN tiles' \subseteq Pos
          /\ TilesKnown' /\ mapFile' \in {"reading", "panicked"}
      BY <1>3, <1>5, <2>1, <2>3, AddItemSafe
    <3> QED
      BY <1>1, <2>1, <2>2, <3>1, Reading
  <2>4. CASE UNCHANGED <<tiles, mapFile>>
    BY <1>1, <2>1, <2>2, <2>4, Reading
  <2> QED
    BY <2>1, <2>3, <2>4
<1>20. CASE EndNode
  <2>1. /\ mapFile = "reading" /\ mapFile' = mapFile /\ Top.at # "root" /\ frames' = Popped
        /\ UNCHANGED <<tiles, spawn, nodes, listed, temples>>
    BY <1>20 DEF EndNode
  <2>2. frames' \in Seq(Call) /\ frames' # <<>> /\ frames'[1] = frames[1]
    BY <1>10, <2>1
  <2> QED
    BY <1>1, <2>1, <2>2, Reading
<1>21. CASE CloseMap
  <2>1. /\ frames' = <<>> /\ mapFile' = "loaded"
        /\ UNCHANGED <<tiles, spawn, nodes, listed, temples>>
    BY <1>21 DEF CloseMap
  <2>2. frames' \in Seq(Call)
    BY <2>1
  <2> QED
    BY <1>1, <1>4, <2>1, <2>2 DEF MapInv, TilesKnown
<1>22. CASE MapFails
  <2>1. /\ mapFile = "reading" /\ mapFile' = "failed"
        /\ UNCHANGED <<frames, tiles, spawn, nodes, listed, temples>>
    BY <1>22 DEF MapFails
  <2> QED
    BY <1>1, <1>5, <2>1, Reading
<1>23. ASSUME NEW q \in Pos, StandOn(q) PROVE MapInv'
  <2>1. /\ mapFile = "loaded" /\ mapFile' = mapFile
        /\ tiles' = [tiles EXCEPT ![q].ground = GroundID]
        /\ UNCHANGED <<frames, spawn, nodes, listed, temples>>
    BY <1>23 DEF StandOn
  <2>2. ASSUME NEW t \in TileOnMap, AllKnown(t)
        PROVE  /\ [t EXCEPT !.ground = GroundID] \in TileOnMap
               /\ AllKnown([t EXCEPT !.ground = GroundID])
    BY <1>2, <2>2 DEF TileOnMap, AllKnown
  <2>3. \A z \in DOMAIN tiles' : tiles'[z] \in TileOnMap /\ AllKnown(tiles'[z])
    BY <1>1, <2>1, <2>2
  <2>4. tiles' \in [DOMAIN tiles' -> TileOnMap] /\ DOMAIN tiles' \subseteq Pos /\ TilesKnown'
    BY <1>1, <1>4, <2>1, <2>3 DEF TilesKnown
  <2> QED
    BY <1>1, <2>1, <2>4 DEF MapInv
<1> QED
  BY <1>8, <1>11, <1>12, <1>13, <1>14, <1>15, <1>16, <1>17, <1>18, <1>19, <1>20, <1>21,
     <1>22, <1>23 DEF ReadMap

-----------------------------------------------------------------------------
(* Lists and tiles.                                                        *)

\* A list with one more identifier is sifted one further.
LEMMA SiftedAppend ==
  ASSUME NEW S, NEW q \in Seq(S), NEW s \in Seq(S), NEW x \in S, NEW T, Sifted(q, s, T)
  PROVE  Sifted(IF x \in T THEN Append(q, x) ELSE q, Append(s, x), T)
<1> DEFINE n == Len(s)
           s1 == Append(s, x)
           q1 == IF x \in T THEN Append(q, x) ELSE q
           old(k) == {i \in 1..k : s[i] \in T}
           new(k) == {i \in 1..k : s1[i] \in T}
<1>1. n \in Nat /\ Len(s1) = n + 1 /\ s1[n + 1] = x /\ \A i \in 1..n : s1[i] = s[i]
  BY AppendTypes
<1>2. Len(q) = Cardinality(old(n)) /\ \A k \in old(n) : q[Cardinality(old(k))] = s[k]
  BY DEF Sifted
<1>3. \A k \in 0..n : new(k) = old(k)
  BY <1>1
<1>4. new(n + 1) = IF x \in T THEN old(n) \cup {n + 1} ELSE old(n)
  BY <1>1
<1>5. \A k \in 0..n : IsFiniteSet(old(k)) /\ Cardinality(old(k)) \in Nat
  <2>1. \A k \in 0..n : IsFiniteSet(1..k)
    BY <1>1, FS_Interval
  <2>2. \A k \in 0..n : IsFiniteSet(old(k))
    BY <2>1, FS_Subset
  <2> QED
    BY <2>2, FS_CardinalityType
<1>6. Len(q1) = Cardinality(new(n + 1))
  <2>1. n \in 0..n /\ n + 1 \notin old(n)
    BY <1>1
  <2>2. Cardinality(old(n) \cup {n + 1}) = Cardinality(old(n)) + 1
    BY <1>5, <2>1, FS_AddElement
  <2>3. Len(Append(q, x)) = Len(q) + 1
    BY AppendTypes
  <2> QED
    BY <1>2, <1>4, <2>2, <2>3
<1>7. ASSUME NEW k \in new(n + 1)
      PROVE  q1[Cardinality(new(k))] = s1[k]
  <2>1. CASE k \in 1..n
    <3>1. k \in old(n) /\ k \in 0..n /\ new(k) = old(k) /\ s1[k] = s[k]
      BY <1>1, <1>3, <1>7, <2>1
    <3>2. Cardinality(old(k)) \in 1..Len(q)
      <4>1. old(k) \subseteq old(n)
        BY <2>1
      <4>2. Cardinality(old(k)) <= Cardinality(old(n))
        <5>1. n \in 0..n
          BY <1>1
        <5> QED
          BY <1>5, <4>1, <5>1, FS_Subset
      <4>3. Cardinality(old(k)) # 0
        <5>1. k \in old(k)
          BY <3>1
        <5> QED
          BY <1>5, <3>1, <5>1, FS_EmptySet
      <4>4. Cardinality(old(k)) \in Nat /\ Len(q) = Cardinality(old(n))
        BY <1>2, <1>5, <3>1
      <4>5. Len(q) \in Nat
        OBVIOUS
      <4> QED
        BY ONLY <4>2, <4>3, <4>4, <4>5
    <3>3. q1[Cardinality(old(k))] = q[Cardinality(old(k))]
      BY <3>2, AppendTypes
    <3> QED
      BY <1>2, <3>1, <3>3
  <2>2. CASE k = n + 1
    <3>1. x \in T /\ s1[k] = x
      BY <1>1, <1>7, <2>2
    <3>2. Cardinality(new(k)) = Len(q) + 1
      <4>1. Len(q1) = Len(q) + 1
        BY <3>1, AppendTypes
      <4> QED
        BY <1>6, <2>2, <4>1
    <3>3. Append(q, x)[Len(q) + 1] = x
      BY AppendTypes
    <3> QED
      BY <3>1, <3>2, <3>3
  <2>3. k \in 1..n \/ k = n + 1
    <3>1. k \in 1..n + 1
      BY <1>7
    <3> QED
      BY ONLY <1>1, <3>1
  <2> QED
    BY ONLY <2>1, <2>2, <2>3
<1>8. \A k \in new(n + 1) : q1[Cardinality(new(k))] = s1[k]
  BY <1>7
<1> QED
  BY <1>1, <1>6, <1>8 DEF Sifted

\* So does the last of some identifiers in a list with one more.
LEMMA LastAppend ==
  ASSUME NEW S, NEW s \in Seq(S), NEW x \in S, NEW T, NEW g, LastOf(g, s, T)
  PROVE  LastOf(IF x \in T THEN x ELSE g, Append(s, x), T)
<1> DEFINE n == Len(s)
           s1 == Append(s, x)
<1>1. n \in Nat /\ Len(s1) = n + 1 /\ s1[n + 1] = x /\ \A i \in 1..n : s1[i] = s[i]
  BY AppendTypes
<1>2. \A i \in 1..n + 1 : i \in 1..n \/ i = n + 1
  BY <1>1
<1> HIDE DEF n, s1
<1>3. CASE x \in T
  <2>1. n + 1 \in 1..Len(s1) /\ \A j \in (n + 1) + 1..Len(s1) : s1[j] \notin T
    BY <1>1
  <2> QED
    BY <1>1, <1>3, <2>1 DEF LastOf, s1
<1>4. CASE x \notin T
  <2>1. CASE g = 0 /\ \A i \in 1..n : s[i] \notin T
    <3>1. \A i \in 1..Len(s1) : s1[i] \notin T
      BY <1>1, <1>2, <1>4, <2>1
    <3> QED
      BY <1>4, <2>1, <3>1 DEF LastOf, s1
  <2>2. ASSUME NEW i \in 1..n, g = s[i], g \in T, \A j \in i + 1..n : s[j] \notin T
        PROVE  LastOf(g, s1, T)
    <3>1. i \in 1..Len(s1) /\ g = s1[i]
      BY <1>1, <2>2
    <3>2. ASSUME NEW j \in i + 1..Len(s1) PROVE s1[j] \notin T
      <4>1. CASE j = n + 1
        BY <1>1, <1>4, <4>1
      <4>2. CASE j # n + 1
        <5>1. j \in i + 1..n /\ j \in 1..n
          BY <1>1, <4>2
        <5> QED
          BY <1>1, <2>2, <5>1
      <4> QED
        BY <4>1, <4>2
    <3> QED
      BY <2>2, <3>1, <3>2 DEF LastOf
  <2> QED
    BY <1>4, <2>1, <2>2 DEF LastOf, n, s1
<1> QED
  BY <1>3, <1>4

\* Nothing is listed, and nothing is on a tile that was just stored.
LEMMA EmptyListed == AsListed(EmptyTile, <<>>)
<1>1. \A T : {i \in 1..0 : <<>>[i] \in T} = {}
  OBVIOUS
<1>2. \A T : Sifted(<<>>, <<>>, T)
  BY <1>1, FS_EmptySet DEF Sifted
<1>3. \A T : LastOf(0, <<>>, T)
  BY DEF LastOf
<1>4. EmptyTile.ground = 0 /\ \A n \in 0..3 : EmptyTile.layers[n] = <<>>
  BY DEF EmptyTile
<1> QED
  BY <1>2, <1>3, <1>4 DEF AsListed

\* What is listed last is put on the tile.
LEMMA WithItemListed ==
  ASSUME ItemsTypeOK, NEW t \in TileOnMap, NEW s \in Seq(ID), NEW id \in ID \ {0}, Known(id),
         ItemByServerID(id).ground \/ ItemByServerID(id).order \in 0..3,
         AsListed(t, s)
  PROVE  AsListed(WithItem(t, id), Append(s, id))
<1> DEFINE r == ItemByServerID(id)
<1>1. /\ t.layers \in [0..3 -> Seq(ID)]
      /\ LastOf(t.ground, s, Grounds)
      /\ \A n \in 0..3 : Sifted(t.layers[n], s, OnLayer(n))
  BY DEF AsListed, TileOnMap
<1>2. id \in Grounds <=> r.ground
  BY DEF Grounds, Known
<1>3. \A n \in 0..3 : id \in OnLayer(n) <=> ~r.ground /\ r.order = n
  BY DEF OnLayer, Known
<1>4. LastOf(IF id \in Grounds THEN id ELSE t.ground, Append(s, id), Grounds)
  BY <1>1, LastAppend
<1>5. \A n \in 0..3 : Sifted(IF id \in OnLayer(n) THEN Append(t.layers[n], id) ELSE t.layers[n],
                             Append(s, id), OnLayer(n))
  BY <1>1, SiftedAppend
<1>6. WithItem(t, id).ground = IF id \in Grounds THEN id ELSE t.ground
  BY <1>2 DEF WithItem, TileOnMap
<1>7. ASSUME NEW n \in 0..3
      PROVE  WithItem(t, id).layers[n] =
               IF id \in OnLayer(n) THEN Append(t.layers[n], id) ELSE t.layers[n]
  BY <1>1, <1>3, <1>7 DEF WithItem, TileOnMap
<1> QED
  BY <1>4, <1>5, <1>6, <1>7 DEF AsListed

\* What items.otb does not know changes nothing.
LEMMA UnknownListed ==
  ASSUME NEW t \in TileOnMap, NEW s \in Seq(ID), NEW id \in ID, id = 0 \/ ~Known(id),
         AsListed(t, s)
  PROVE  AsListed(t, Append(s, id))
<1>1. /\ t.layers \in [0..3 -> Seq(ID)]
      /\ LastOf(t.ground, s, Grounds)
      /\ \A n \in 0..3 : Sifted(t.layers[n], s, OnLayer(n))
  BY DEF AsListed, TileOnMap
<1>2. id \notin Grounds /\ \A n : id \notin OnLayer(n)
  BY DEF Grounds, OnLayer, Known
<1>3. LastOf(IF id \in Grounds THEN id ELSE t.ground, Append(s, id), Grounds)
  BY <1>1, LastAppend
<1>4. \A n \in 0..3 : Sifted(IF id \in OnLayer(n) THEN Append(t.layers[n], id) ELSE t.layers[n],
                             Append(s, id), OnLayer(n))
  BY <1>1, SiftedAppend
<1> QED
  BY <1>2, <1>3, <1>4 DEF AsListed

\* A tile without contents is as it was stored.
LEMMA NothingKept ==
  ASSUME NEW t \in TileOnMap, Contents(t) = <<>>
  PROVE  t = EmptyTile
<1>1. /\ t.layers \in [0..3 -> Seq(ID)] /\ t.ground \in ID
      /\ t = [ground |-> t.ground, layers |-> t.layers]
  BY DEF TileOnMap
<1> DEFINE g == IF t.ground # 0 THEN <<t.ground>> ELSE <<>>
<1>2. g \in Seq(ID)
  BY <1>1
<1>3. \A n \in 0..3 : t.layers[n] \in Seq(ID)
  BY <1>1
<1>4. g \o t.layers[0] \o t.layers[1] \o t.layers[2] \o t.layers[3] = <<>>
  BY DEF Contents
<1>5. \A u, v \in Seq(ID) : u \o v = <<>> => u = <<>> /\ v = <<>>
  OBVIOUS
<1>6. \A u, v \in Seq(ID) : u \o v \in Seq(ID)
  OBVIOUS
<1> HIDE DEF g
<1>7. 0 \in 0..3 /\ 1 \in 0..3 /\ 2 \in 0..3 /\ 3 \in 0..3
  OBVIOUS
<1>8. /\ g = <<>> /\ t.layers[0] = <<>> /\ t.layers[1] = <<>>
      /\ t.layers[2] = <<>> /\ t.layers[3] = <<>>
  <2>1. /\ t.layers[0] \in Seq(ID) /\ t.layers[1] \in Seq(ID)
        /\ t.layers[2] \in Seq(ID) /\ t.layers[3] \in Seq(ID)
    BY <1>3, <1>7
  <2>2. /\ g \o t.layers[0] \in Seq(ID)
        /\ g \o t.layers[0] \o t.layers[1] \in Seq(ID)
        /\ g \o t.layers[0] \o t.layers[1] \o t.layers[2] \in Seq(ID)
    BY ONLY <1>2, <1>6, <2>1, Zenon
  <2>3. g \o t.layers[0] \o t.layers[1] \o t.layers[2] = <<>> /\ t.layers[3] = <<>>
    BY ONLY <1>4, <1>5, <2>1, <2>2, Zenon
  <2>4. g \o t.layers[0] \o t.layers[1] = <<>> /\ t.layers[2] = <<>>
    BY ONLY <1>5, <2>1, <2>2, <2>3, Zenon
  <2> QED
    BY ONLY <1>2, <1>5, <2>1, <2>2, <2>3, <2>4, Zenon
<1>9. t.ground = 0
  BY <1>8 DEF g
<1>10. t.layers = [n \in 0..3 |-> <<>>]
  BY <1>1, <1>8
<1> QED
  BY <1>1, <1>9, <1>10 DEF EmptyTile

-----------------------------------------------------------------------------
(* The walk.                                                               *)

\* There is a call, and an innermost one.
LEMMA SomeCall ==
  ASSUME frames \in Seq(Call), frames # <<>>
  PROVE  /\ Len(frames) \in Nat \ {0} /\ Len(frames) \in 1..Len(frames)
         /\ Top = frames[Len(frames)] /\ Top \in Call
         /\ Top.at \in {"root", "mapData", "area", "attributes", "tile", "item", "places"}
<1>1. Len(frames) \in Nat \ {0} /\ Len(frames) \in 1..Len(frames)
  OBVIOUS
<1>2. Top = frames[Len(frames)] /\ Top \in Call
  BY <1>1 DEF Top
<1>3. \A c \in Call :
        c.at \in {"root", "mapData", "area", "attributes", "tile", "item", "places"}
  BY DEF Call
<1> QED
  BY <1>1, <1>2, <1>3

\* Which function the innermost call is of says how deep it is.
LEMMA Depth ==
  ASSUME frames \in Seq(Call), frames # <<>>, Nested
  PROVE  /\ Len(frames) \in Nat \ {0}
         /\ Top.at = "root" <=> Len(frames) = 1
         /\ Top.at = "mapData" <=> Len(frames) = 2
         /\ Top.at \in {"area", "places"} <=> Len(frames) = 3
         /\ Top.at \in {"attributes", "tile"} <=> Len(frames) = 4
         /\ Top.at = "item" <=> Len(frames) >= 5
<1>1. PICK L \in Nat \ {0} : L = Len(frames)
  BY SomeCall
<1>2. L \in 1..Len(frames) /\ Top = frames[L]
  BY <1>1, SomeCall
<1>3. /\ Top.at = "root" <=> L = 1
      /\ Top.at = "mapData" <=> L = 2
      /\ Top.at \in {"area", "places"} <=> L = 3
      /\ Top.at \in {"attributes", "tile"} <=> L = 4
  BY <1>2 DEF Nested
<1>4. Top.at \in {"root", "mapData", "area", "attributes", "tile", "item", "places"}
  BY SomeCall
<1>5. Top.at = "item" <=> L >= 5
  BY ONLY <1>1, <1>3, <1>4
<1> QED
  BY ONLY <1>1, <1>3, <1>5

\* A call is entered from one that may make it.
LEMMA NestedDeeper ==
  ASSUME frames \in Seq(Call), frames # <<>>, Nested, NEW f \in Call, Push(f),
         \/ Top.at = "root" /\ f.at = "mapData"
         \/ Top.at = "mapData" /\ f.at \in {"area", "places"}
         \/ Top.at = "area" /\ f.at = "attributes"
         \/ Top.at \in {"tile", "item"} /\ f.at = "item"
  PROVE  Nested'
<1>1. PICK L \in Nat \ {0} : L = Len(frames)
  BY ONLY SomeCall, frames \in Seq(Call), frames # <<>>
<1>2. /\ Len(frames') = L + 1 /\ frames'[L + 1] = f
      /\ \A i \in 1..L : frames'[i] = frames[i]
      /\ \A i \in 1..Len(frames') : i \in 1..L \/ i = L + 1
  BY <1>1, Pushed
<1>3. /\ f.at = "root" <=> L + 1 = 1
      /\ f.at = "mapData" <=> L + 1 = 2
      /\ f.at \in {"area", "places"} <=> L + 1 = 3
      /\ f.at \in {"attributes", "tile"} <=> L + 1 = 4
  <2>1. /\ Top.at = "root" <=> L = 1
        /\ Top.at = "mapData" <=> L = 2
        /\ Top.at \in {"area", "places"} <=> L = 3
        /\ Top.at \in {"attributes", "tile"} <=> L = 4
        /\ Top.at = "item" <=> L >= 5
    BY <1>1, Depth
  <2> QED
    BY <2>1
<1>4. \A i \in 1..L : frames[i].at \notin {"attributes", "places"}
  <2>1. Top = frames[L]
    BY <1>1 DEF Top
  <2> QED
    BY <1>1, <2>1 DEF Nested
<1>5. \A i \in 1..L :
        /\ frames'[i].at = "root" <=> i = 1
        /\ frames'[i].at = "mapData" <=> i = 2
        /\ frames'[i].at \in {"area", "places"} <=> i = 3
        /\ frames'[i].at \in {"attributes", "tile"} <=> i = 4
        /\ frames'[i].at \notin {"attributes", "places"}
  <2>1. \A i \in 1..L :
          /\ frames[i].at = "root" <=> i = 1
          /\ frames[i].at = "mapData" <=> i = 2
          /\ frames[i].at \in {"area", "places"} <=> i = 3
          /\ frames[i].at \in {"attributes", "tile"} <=> i = 4
    BY ONLY <1>1, Nested DEF Nested
  <2> QED
    BY ONLY <1>2, <1>4, <2>1
<1>6. ASSUME NEW i \in 1..Len(frames')
      PROVE  /\ frames'[i].at = "root" <=> i = 1
             /\ frames'[i].at = "mapData" <=> i = 2
             /\ frames'[i].at \in {"area", "places"} <=> i = 3
             /\ frames'[i].at \in {"attributes", "tile"} <=> i = 4
             /\ frames'[i].at \in {"attributes", "places"} => i = Len(frames')
  <2>1. CASE i \in 1..L
    BY ONLY <1>5, <2>1
  <2>2. CASE i = L + 1
    BY ONLY <1>2, <1>3, <2>2
  <2> QED
    BY <1>2, <2>1, <2>2
<1> QED
  BY <1>6 DEF Nested

\* A call returns.
LEMMA NestedAbove ==
  ASSUME frames \in Seq(Call), frames # <<>>, Nested, frames' = Popped
  PROVE  Nested'
<1>1. PICK L \in Nat \ {0} : L = Len(frames)
  BY ONLY SomeCall, frames \in Seq(Call), frames # <<>>
<1>2. Len(frames') = L - 1 /\ \A i \in 1..L - 1 : frames'[i] = frames[i]
  BY <1>1, Returned
<1>3. \A i \in 1..L - 1 : i \in 1..Len(frames) /\ i # Len(frames)
  BY <1>1
<1> QED
  BY <1>2, <1>3 DEF Nested

\* The list that is one shorter.
LEMMA AllButLast ==
  ASSUME NEW S, NEW s \in Seq(S)
  PROVE  /\ \A x \in S : /\ SubSeq(Append(s, x), 1, Len(Append(s, x)) - 1) = s
                         /\ Append(s, x) # <<>>
                         /\ Append(s, x)[Len(Append(s, x))] = x
         /\ s # <<>> => /\ SubSeq(s, 1, Len(s) - 1) \in Seq(S)
                        /\ s = Append(SubSeq(s, 1, Len(s) - 1), s[Len(s)])
<1>1. ASSUME NEW x \in S
      PROVE  /\ SubSeq(Append(s, x), 1, Len(Append(s, x)) - 1) = s
             /\ Append(s, x) # <<>>
             /\ Append(s, x)[Len(Append(s, x))] = x
  OBVIOUS
<1>2. ASSUME s # <<>>
      PROVE  /\ SubSeq(s, 1, Len(s) - 1) \in Seq(S)
             /\ s = Append(SubSeq(s, 1, Len(s) - 1), s[Len(s)])
  BY <1>2
<1> QED
  BY <1>1, <1>2

\* The first place that is not at the origin stays where players start.
LEMMA SpawnStep ==
  ASSUME spawn \in Pos, temples \in Seq(Pos), SpawnIsFirst,
         \/ UNCHANGED <<spawn, temples>>
         \/ \E p \in Pos : /\ temples' = Append(temples, p)
                           /\ spawn' = IF spawn = 0 THEN p ELSE spawn
  PROVE  SpawnIsFirst'
<1>1. CASE UNCHANGED <<spawn, temples>>
  BY <1>1 DEF SpawnIsFirst
<1>2. ASSUME NEW p \in Pos, temples' = Append(temples, p),
             spawn' = IF spawn = 0 THEN p ELSE spawn
      PROVE  SpawnIsFirst'
  <2>1. PICK n \in Nat : n = Len(temples)
    OBVIOUS
  <2>2. /\ Len(temples') = n + 1 /\ temples'[n + 1] = p
        /\ \A i \in 1..n : temples'[i] = temples[i]
        /\ \A i \in 1..n + 1 : i \in 1..n \/ i = n + 1
    BY <1>2, <2>1, AppendTypes
  <2>3. CASE spawn = 0
    <3>1. \A i \in 1..n : temples[i] = 0
      BY <2>1, <2>3 DEF SpawnIsFirst
    <3>2. CASE p = 0
      <4>1. spawn' = 0 /\ \A i \in 1..Len(temples') : temples'[i] = 0
        BY <1>2, <2>2, <2>3, <3>1, <3>2
      <4> QED
        BY ONLY <4>1 DEF SpawnIsFirst
    <3>3. CASE p # 0
      <4>1. /\ n + 1 \in 1..Len(temples') /\ temples'[n + 1] = spawn' /\ spawn' # 0
            /\ \A j \in 1..(n + 1) - 1 : temples'[j] = 0
        BY <1>2, <2>1, <2>2, <2>3, <3>1, <3>3
      <4> QED
        BY ONLY <4>1 DEF SpawnIsFirst
    <3> QED
      BY <3>2, <3>3
  <2>4. CASE spawn # 0
    <3>1. PICK i \in 1..n : /\ temples[i] = spawn
                            /\ \A j \in 1..i - 1 : temples[j] = 0
      BY <2>1, <2>4 DEF SpawnIsFirst
    <3>2. /\ i \in 1..Len(temples') /\ temples'[i] = spawn' /\ spawn' # 0
          /\ \A j \in 1..i - 1 : temples'[j] = 0
      BY <1>2, <2>1, <2>2, <2>4, <3>1
    <3> QED
      BY ONLY <3>2 DEF SpawnIsFirst
  <2> QED
    BY <2>3, <2>4
<1> QED
  BY <1>1, <1>2

\* What a tile should have depends on items.otb and nothing else.
LEMMA ListedPrimed ==
  ASSUME UNCHANGED itemsVars
  PROVE  /\ \A t, s : AsListed(t, s)' <=> AsListed(t, s)
         /\ \A t, s : StoodOn(t, s)' <=> StoodOn(t, s)
<1>1. Grounds' = Grounds /\ \A n : OnLayer(n)' = OnLayer(n)
  BY DEF Grounds, OnLayer, ItemByServerID, itemsVars
<1>2. \A t, s : AsListed(t, s)' <=> AsListed(t, s)
  BY <1>1 DEF AsListed
<1> QED
  BY <1>2 DEF StoodOn

\* addItem puts what is listed last on the tile, unless the program stops.
LEMMA AddItemListed ==
  ASSUME ItemsTypeOK, tiles \in [DOMAIN tiles -> TileOnMap],
         NEW p \in DOMAIN tiles, NEW id \in ID, AddItem(p, id),
         NEW s \in Seq(ID), AsListed(tiles[p], s)
  PROVE  \/ mapFile' = "panicked"
         \/ /\ mapFile' = mapFile /\ DOMAIN tiles' = DOMAIN tiles
            /\ \A z \in DOMAIN tiles : z # p => tiles'[z] = tiles[z]
            /\ AsListed(tiles'[p], Append(s, id))
<1>1. tiles[p] \in TileOnMap
  OBVIOUS
<1>2. CASE id = 0 \/ ~Known(id)
  <2>1. tiles' = tiles /\ mapFile' = mapFile
    BY <1>2 DEF AddItem
  <2> QED
    BY <1>1, <1>2, <2>1, UnknownListed
<1>3. CASE id # 0 /\ Known(id)
  <2>1. ItemByServerID(id).order \in 0..255
    <3>1. ItemByServerID(id) \in Item
      BY <1>3, KnownItem
    <3> QED
      BY ONLY <3>1 DEF Item
  <2>2. CASE ~ItemByServerID(id).ground /\ ItemByServerID(id).order > 3
    BY <1>3, <2>2 DEF AddItem
  <2>3. CASE ItemByServerID(id).ground \/ ItemByServerID(id).order \in 0..3
    <3>1. ~(~ItemByServerID(id).ground /\ ItemByServerID(id).order > 3)
      BY <2>3
    <3>2. tiles' = [tiles EXCEPT ![p] = WithItem(@, id)] /\ mapFile' = mapFile
      BY <1>3, <3>1 DEF AddItem
    <3>3. AsListed(WithItem(tiles[p], id), Append(s, id))
      BY <1>1, <1>3, <2>3, WithItemListed
    <3> QED
      BY <3>2, <3>3
  <2>4. ItemByServerID(id).order > 3 \/ ItemByServerID(id).order \in 0..3
    <3>1. PICK o \in 0..255 : o = ItemByServerID(id).order
      BY <2>1
    <3>2. o > 3 \/ o \in 0..3
      BY ONLY o \in 0..255
    <3> QED
      BY ONLY <3>1, <3>2, Zenon
  <2> QED
    BY <2>2, <2>3, <2>4
<1> QED
  BY <1>2, <1>3

\* A step that reads the map keeps the walk's invariant.
LEMMA WalkStep ==
  ASSUME ItemsInv, MapInv, WalkInv, ReadMap, UNCHANGED itemsVars
  PROVE  WalkInv'
<1> DEFINE L == Len(frames)
           Kept == UNCHANGED <<tiles, listed, spawn, temples>>
<1>1. /\ frames \in Seq(Call) /\ spawn \in Pos /\ temples \in Seq(Pos)
      /\ listed \in [Pos -> Seq(ID)]
      /\ tiles \in [DOMAIN tiles -> TileOnMap] /\ DOMAIN tiles \subseteq Pos
      /\ ItemsTypeOK /\ FileIDs \subseteq ID
  BY MapFileAssumption DEF MapInv, ItemsInv
<1>2. mapFile = "reading" =>
        /\ Nested /\ OnOneTile /\ ItemPending /\ OthersAsListed
        /\ frames # <<>> /\ itemsFile = "loaded" /\ Top.pos \in Pos /\ Top.id \in ID
  BY <1>1, TopCall DEF WalkInv, MapInv
<1>3. /\ \A t, s : AsListed(t, s)' <=> AsListed(t, s)
      /\ \A t, s : StoodOn(t, s)' <=> StoodOn(t, s)
      /\ itemsFile' = itemsFile
  BY ListedPrimed DEF itemsVars
<1>4. UNCHANGED <<spawn, temples>> => SpawnIsFirst'
  BY <1>1, SpawnStep DEF WalkInv
<1>5. mapFile = "reading" =>
        /\ L \in Nat \ {0} /\ Top = frames[L]
        /\ Top.at = "root" <=> L = 1
        /\ Top.at = "mapData" <=> L = 2
        /\ Top.at \in {"area", "places"} <=> L = 3
        /\ Top.at \in {"attributes", "tile"} <=> L = 4
        /\ Top.at = "item" <=> L >= 5
  BY <1>1, <1>2, Depth, SomeCall
\* Where the program has stopped, or New returns no map, nothing is claimed.
<1>6. ASSUME mapFile = "reading", mapFile' \in {"failed", "panicked"},
             UNCHANGED <<spawn, temples>>
      PROVE  WalkInv'
  BY <1>2, <1>3, <1>4, <1>6 DEF WalkInv
\* What is left to show of a step that goes on reading.
<1>7. ASSUME mapFile = "reading", mapFile' = "reading", SpawnIsFirst',
             Nested', OnOneTile', ItemPending', OthersAsListed'
      PROVE  WalkInv'
  BY <1>2, <1>3, <1>7 DEF WalkInv
\* No item is read before or after the step.
<1>8. ASSUME mapFile = "reading", L < 5, Len(frames') < 5,
             UNCHANGED <<tiles, listed>>
      PROVE  ItemPending' /\ OthersAsListed'
  <2>2. \A p \in DOMAIN tiles : AsListed(tiles[p], listed[p])
    BY <1>2, <1>5, <1>8 DEF OthersAsListed
  <2>3. \A p \in DOMAIN tiles' : AsListed(tiles[p], listed[p])'
    BY <1>3, <1>8, <2>2
  <2>4. ~(Len(frames') >= 5)
    BY <1>8
  <2> QED
    BY <2>3, <2>4 DEF ItemPending, OthersAsListed
<1>9. CASE OpenMap
  <2>1. /\ mapFile = "waiting" /\ mapFile' = "reading" /\ itemsFile = "loaded"
        /\ Push(Frame("root", 0, 0)) /\ Kept
    BY <1>9 DEF OpenMap
  <2>2. DOMAIN tiles = {} /\ frames = <<>>
    BY <2>1 DEF WalkInv
  <2>3. frames' = <<Frame("root", 0, 0)>> /\ Len(frames') = 1
    BY <2>1, <2>2 DEF Push
  <2>4. Nested'
    <3>1. frames'[1].at = "root"
      BY <2>3 DEF Frame
    <3> QED
      BY <2>3, <3>1 DEF Nested
  <2>5. OnOneTile' /\ ItemPending' /\ OthersAsListed'
    BY <2>1, <2>2, <2>3 DEF OnOneTile, ItemPending, OthersAsListed
  <2> QED
    BY <1>3, <1>4, <2>1, <2>4, <2>5 DEF WalkInv
\* A call is entered from one that is not an item's, and not for an item.
<1>10. ASSUME NEW f \in Call, mapFile = "reading", mapFile' = "reading",
              UNCHANGED <<tiles, spawn, listed, temples>>, Push(f),
              \/ Top.at = "root" /\ f.at = "mapData"
              \/ Top.at = "mapData" /\ f.at \in {"area", "places"}
       PROVE  WalkInv'
  <2>1. Nested'
    BY <1>1, <1>2, <1>10, NestedDeeper
  <2>2. L < 3 /\ Len(frames') = L + 1
    BY <1>1, <1>5, <1>10, Pushed
  <2>3. Len(frames') < 4 /\ L < 5 /\ Len(frames') < 5 /\ ~(Len(frames') >= 4)
    BY <1>5, <1>10, <2>2
  <2>4. OnOneTile'
    BY <2>3 DEF OnOneTile
  <2> QED
    BY <1>4, <1>7, <1>8, <1>10, <2>1, <2>3, <2>4
<1>11. CASE MapData \/ Places
  <2>1. PICK f : /\ f \in {Frame("mapData", 0, 0), Frame("places", 0, 0)} /\ Push(f)
                 /\ mapFile = "reading" /\ mapFile' = "reading"
                 /\ UNCHANGED <<tiles, spawn, listed, temples>>
                 /\ \/ Top.at = "root" /\ f.at = "mapData"
                    \/ Top.at = "mapData" /\ f.at = "places"
    BY <1>11 DEF MapData, Places, Child, Frame
  <2>2. f \in Call
    <3>1. 0 \in Pos
      BY MapFileAssumption DEF Pos
    <3>2. 0 \in ID
      BY DEF ID
    <3> QED
      BY <2>1, <3>1, <3>2, FrameTypes
  <2> QED
    BY <1>10, <2>1, <2>2
<1>12. CASE ItemDef
  <2>1. /\ mapFile = "reading" /\ mapFile' = "reading" /\ Top.at = "mapData"
        /\ UNCHANGED <<frames, tiles, spawn, listed, temples>>
    BY <1>12 DEF ItemDef, Child
  <2>2. L < 5 /\ Len(frames') < 5
    BY <1>5, <2>1
  <2>3. Nested' /\ OnOneTile'
    BY <1>2, <2>1 DEF Nested, OnOneTile
  <2> QED
    BY <1>4, <1>7, <1>8, <2>1, <2>2, <2>3
<1>13. CASE NoItem
  <2>1. /\ mapFile = "reading" /\ mapFile' = "reading"
        /\ UNCHANGED <<frames, tiles, spawn, listed, temples>>
    BY <1>13 DEF NoItem, Child
  <2>2. Nested' /\ OnOneTile'
    BY <1>2, <2>1 DEF Nested, OnOneTile
  <2>3. ItemPending' /\ OthersAsListed'
    BY <1>2, <1>3, <2>1 DEF ItemPending, OthersAsListed
  <2> QED
    BY <1>4, <1>7, <2>1, <2>2, <2>3
<1>14. ASSUME NEW q \in Pos, TileArea(q) PROVE WalkInv'
  <2>1. /\ mapFile = "reading" /\ mapFile' = "reading" /\ Top.at = "mapData"
        /\ UNCHANGED <<tiles, spawn, listed, temples>> /\ Push(Frame("area", q, 0))
    BY <1>14 DEF TileArea, Child
  <2>2. Frame("area", q, 0) \in Call /\ Frame("area", q, 0).at = "area"
    <3>1. 0 \in ID
      BY DEF ID
    <3> QED
      BY <3>1, FrameTypes
  <2> QED
    BY <1>10, <2>1, <2>2
<1>15. ASSUME NEW q \in Pos, Place(q) PROVE WalkInv'
  <2>1. /\ mapFile = "reading" /\ mapFile' = "reading" /\ Top.at = "places"
        /\ UNCHANGED <<frames, tiles, listed>>
        /\ temples' = Append(temples, q)
        /\ spawn' = IF spawn = 0 THEN q ELSE spawn
    BY <1>15 DEF Place, Child
  <2>2. L < 5 /\ Len(frames') < 5
    BY <1>5, <2>1
  <2>3. Nested' /\ OnOneTile'
    BY <1>2, <2>1 DEF Nested, OnOneTile
  <2>4. SpawnIsFirst'
    BY <1>1, <2>1, SpawnStep DEF WalkInv
  <2> QED
    BY <1>7, <1>8, <2>1, <2>2, <2>3, <2>4
<1>16. ASSUME NEW off \in Offsets, Tile(off) PROVE WalkInv'
  <2>1. /\ mapFile = "reading" /\ mapFile' = "reading" /\ Top.at = "area"
        /\ UNCHANGED <<spawn, temples>>
    BY <1>16 DEF Tile, Child
  <2>2. PICK q \in Pos : /\ tiles' = Put(tiles, q, EmptyTile)
                         /\ listed' = [listed EXCEPT ![q] = <<>>]
                         /\ Push(Frame("attributes", q, 0))
    <3>1. (Top.pos + off) % Wrap \in Pos
      BY <1>2, <2>1, Wraps
    <3> QED
      BY <1>16, <3>1 DEF Tile
  <2>3. PICK f \in Call : f = Frame("attributes", q, 0)
    <3>1. 0 \in ID
      BY DEF ID
    <3> QED
      BY <3>1, FrameTypes
  <2>4. f.at = "attributes" /\ f.pos = q
    BY <2>3 DEF Frame
  <2>5. L = 3 /\ Len(frames') = 4 /\ frames'[4] = f
    <3>1. L = 3
      BY <1>5, <2>1
    <3>2. Len(frames') = L + 1 /\ frames'[L + 1] = f
      BY <1>1, <2>2, <2>3, Pushed
    <3> QED
      BY <3>1, <3>2
  <2>6. Nested'
    BY <1>1, <1>2, <2>1, <2>2, <2>3, <2>4, NestedDeeper
  <2>7. /\ DOMAIN tiles' = DOMAIN tiles \cup {q} /\ tiles'[q] = EmptyTile
        /\ \A p \in DOMAIN tiles : p # q => tiles'[p] = tiles[p]
    BY <2>2 DEF Put
  <2>8. OnOneTile'
    BY <2>4, <2>5, <2>7 DEF OnOneTile
  <2>9. listed'[q] = <<>> /\ \A p \in Pos : p # q => listed'[p] = listed[p]
    BY <1>1, <2>2
  <2>10. \A p \in DOMAIN tiles' : AsListed(tiles[p], listed[p])'
    <3>1. \A p \in DOMAIN tiles : AsListed(tiles[p], listed[p])
      BY <1>2, <2>1, <2>5 DEF OthersAsListed
    <3>2. \A p \in DOMAIN tiles' : AsListed(tiles'[p], listed'[p])
      BY <1>1, <2>7, <2>9, <3>1, EmptyListed
    <3> QED
      BY <1>3, <3>2
  <2>11. ItemPending' /\ OthersAsListed'
    BY <2>5, <2>10 DEF ItemPending, OthersAsListed
  <2> QED
    BY <1>4, <1>7, <2>1, <2>6, <2>8, <2>11
<1>17. CASE EndAttributes
  <2>1. /\ mapFile = "reading" /\ mapFile' = "reading" /\ Top.at = "attributes"
        /\ frames' = Append(Popped, Frame("tile", Top.pos, 0))
        /\ UNCHANGED <<tiles, spawn, listed, temples>>
    BY <1>17 DEF EndAttributes
  <2>2. PICK f \in Call : f = Frame("tile", Top.pos, 0)
    <3>1. 0 \in ID
      BY DEF ID
    <3> QED
      BY <1>2, <2>1, <3>1, FrameTypes
  <2>3. f.at = "tile" /\ f.pos = Top.pos
    BY <2>2 DEF Frame
  <2>4. L = 4
    BY <1>5, <2>1
  <2>5. /\ Popped \in Seq(Call) /\ Len(Popped) = 3
        /\ \A i \in 1..3 : Popped[i] = frames[i]
    <3>1. /\ Popped \in Seq(Call) /\ Len(Popped) = L - 1
          /\ \A i \in 1..L - 1 : Popped[i] = frames[i]
      BY <1>1, <1>2, <2>1, Returned
    <3> QED
      BY <2>4, <3>1
  <2>6. /\ Len(frames') = 4 /\ frames'[4] = f
        /\ \A i \in 1..3 : frames'[i] = frames[i]
    <3>1. frames' = Append(Popped, f)
      BY <2>1, <2>2
    <3>2. /\ Len(Append(Popped, f)) = Len(Popped) + 1
          /\ Append(Popped, f)[Len(Popped) + 1] = f
          /\ \A i \in 1..Len(Popped) : Append(Popped, f)[i] = Popped[i]
      <4>1. Popped \in Seq(Call) /\ f \in Call
        BY <2>5
      <4> QED
        BY ONLY <4>1, AppendTypes
    <3> QED
      BY ONLY <2>5, <3>1, <3>2
  <2>7. Nested'
    <3>1. \A i \in 1..3 :
            /\ frames[i].at = "root" <=> i = 1
            /\ frames[i].at = "mapData" <=> i = 2
            /\ frames[i].at \in {"area", "places"} <=> i = 3
            /\ frames[i].at \in {"attributes", "tile"} <=> i = 4
            /\ frames[i].at \notin {"attributes", "places"}
      BY <1>2, <2>1, <2>4 DEF Nested
    <3>2. ASSUME NEW i \in 1..Len(frames')
          PROVE  /\ frames'[i].at = "root" <=> i = 1
                 /\ frames'[i].at = "mapData" <=> i = 2
                 /\ frames'[i].at \in {"area", "places"} <=> i = 3
                 /\ frames'[i].at \in {"attributes", "tile"} <=> i = 4
                 /\ frames'[i].at \in {"attributes", "places"} => i = Len(frames')
      <4>1. CASE i \in 1..3
        BY ONLY <2>6, <3>1, <4>1
      <4>2. CASE i = 4
        BY ONLY <2>3, <2>6, <4>2
      <4> QED
        BY <2>6, <4>1, <4>2
    <3> QED
      BY <3>2 DEF Nested
  <2>8. OnOneTile'
    <3>1. Top.pos \in DOMAIN tiles
      BY <1>2, <1>5, <2>1, <2>4 DEF OnOneTile
    <3> QED
      BY <2>1, <2>3, <2>6, <3>1 DEF OnOneTile
  <2>9. Len(frames') < 5 /\ L < 5
    BY <2>4, <2>6
  <2> QED
    BY <1>4, <1>7, <1>8, <2>1, <2>7, <2>8, <2>9
\* An item goes to the tile that is being read: what is listed last is on it,
\* and the other tiles are as they were.
<1>18. ASSUME NEW q \in DOMAIN tiles, NEW id \in ID, NEW s \in Seq(ID),
              mapFile = "reading", AsListed(tiles[q], s),
              listed'[q] = Append(s, id),
              \A p \in DOMAIN tiles :
                p # q => AsListed(tiles[p], listed[p]) /\ listed'[p] = listed[p],
              AddItem(q, id), mapFile' # "panicked"
       PROVE  /\ mapFile' = "reading" /\ DOMAIN tiles' = DOMAIN tiles
              /\ \A p \in DOMAIN tiles' : AsListed(tiles[p], listed[p])'
  <2>1. /\ mapFile' = mapFile /\ DOMAIN tiles' = DOMAIN tiles
        /\ \A z \in DOMAIN tiles : z # q => tiles'[z] = tiles[z]
        /\ AsListed(tiles'[q], Append(s, id))
    BY <1>1, <1>18, AddItemListed
  <2>2. \A p \in DOMAIN tiles : AsListed(tiles'[p], listed'[p])
    BY <1>18, <2>1
  <2> QED
    BY <1>3, <1>18, <2>1, <2>2
<1>19. ASSUME NEW id \in FileIDs, InlineItem(id) PROVE WalkInv'
  <2>1. /\ mapFile = "reading" /\ Top.at = "attributes"
        /\ listed' = [listed EXCEPT ![Top.pos] = Append(@, id)]
        /\ UNCHANGED <<frames, spawn, temples>>
        /\ mapFile' = "panicked" \/ AddItem(Top.pos, id)
    BY <1>19 DEF InlineItem, List
  <2>2. L = 4 /\ Top = frames[4]
    BY <1>5, <2>1
  <2>3. CASE mapFile' = "panicked"
    BY <1>6, <2>1, <2>3
  <2>4. CASE mapFile' # "panicked"
    <3>1. AddItem(Top.pos, id)
      BY <2>1, <2>4
    <3>2. PICK q \in DOMAIN tiles : q = Top.pos
      BY <1>2, <2>1, <2>2 DEF OnOneTile
    <3>3. q \in Pos /\ listed[q] \in Seq(ID) /\ id \in ID
      BY <1>1
    <3>4. \A p \in DOMAIN tiles : AsListed(tiles[p], listed[p])
      BY <1>2, <2>1, <2>2 DEF OthersAsListed
    <3>5. /\ listed'[q] = Append(listed[q], id)
          /\ \A p \in DOMAIN tiles : p # q => listed'[p] = listed[p]
      BY <1>1, <2>1, <3>2
    <3>6. /\ mapFile' = "reading" /\ DOMAIN tiles' = DOMAIN tiles
          /\ \A p \in DOMAIN tiles' : AsListed(tiles[p], listed[p])'
      BY <1>18, <2>1, <2>4, <3>1, <3>2, <3>3, <3>4, <3>5
    <3>7. Nested' /\ OnOneTile'
      BY <1>2, <2>1, <3>6 DEF Nested, OnOneTile
    <3>8. ItemPending' /\ OthersAsListed'
      BY <2>1, <2>2, <3>6 DEF ItemPending, OthersAsListed
    <3> QED
      BY <1>4, <1>7, <2>1, <3>6, <3>7, <3>8
  <2> QED
    BY <2>3, <2>4
<1>20. ASSUME NEW id \in FileIDs, ItemNode(id) PROVE WalkInv'
  <2>1. /\ mapFile = "reading" /\ mapFile' = "reading" /\ Top.at \in {"tile", "item"}
        /\ Push(Frame("item", Top.pos, id))
        /\ IF Top.at = "tile" THEN List(Top.pos, id) ELSE UNCHANGED listed
        /\ UNCHANGED <<tiles, spawn, temples>>
    BY <1>20 DEF ItemNode, Child
  <2>2. PICK f \in Call : f = Frame("item", Top.pos, id)
    BY <1>1, <1>2, <2>1, FrameTypes
  <2>3. f.at = "item" /\ f.pos = Top.pos /\ f.id = id
    BY <2>2 DEF Frame
  <2>4. /\ Len(frames') = L + 1 /\ frames'[L + 1] = f
        /\ \A i \in 1..L : frames'[i] = frames[i]
        /\ \A i \in 1..Len(frames') : i \in 1..L \/ i = L + 1
    BY <1>1, <2>1, <2>2, Pushed
  <2>5. L >= 4 /\ L \in Nat /\ Top = frames[L]
    <3>1. L \in Nat /\ Top = frames[L] /\ (L = 4 \/ L >= 5)
      BY <1>5, <2>1
    <3> QED
      BY ONLY <3>1
  <2>6. PICK q \in DOMAIN tiles :
          q = frames[4].pos /\ Top.pos = q /\ \A i \in 5..L : frames[i].pos = q
    BY <1>2, <2>1, <2>5 DEF OnOneTile
  <2>7. Nested'
    BY <1>1, <1>2, <2>1, <2>2, <2>3, NestedDeeper
  <2>8. Len(frames') >= 5 /\ frames'[4].pos = q
    BY <2>4, <2>5, <2>6
  <2>9. OnOneTile'
    <3>1. ASSUME NEW i \in 5..Len(frames') PROVE frames'[i].pos = q
      <4>1. CASE i \in 5..L
        BY <2>4, <2>5, <2>6, <4>1
      <4>2. CASE i = L + 1
        BY <2>3, <2>4, <2>6, <4>2
      <4> QED
        BY <2>4, <2>5, <4>1, <4>2
    <3> QED
      BY <2>1, <2>6, <2>8, <3>1 DEF OnOneTile
  <2>10. q \in Pos /\ listed[q] \in Seq(ID) /\ id \in ID
    BY <1>1
  <2>11. CASE Top.at = "tile"
    <3>1. L = 4
      BY <1>5, <2>1, <2>11
    <3>2. frames'[5] = f
      BY <2>4, <3>1
    <3>3. listed' = [listed EXCEPT ![q] = Append(@, id)]
      BY <2>1, <2>6, <2>11 DEF List
    <3>4. /\ listed'[q] = Append(listed[q], id)
          /\ \A p \in DOMAIN tiles : p # q => listed'[p] = listed[p]
      BY <1>1, <3>3
    <3>5. \A p \in DOMAIN tiles : AsListed(tiles[p], listed[p])
      BY <1>2, <2>1, <3>1 DEF OthersAsListed
    <3>6. /\ listed'[q] # <<>> /\ listed'[q][Len(listed'[q])] = id
          /\ SubSeq(listed'[q], 1, Len(listed'[q]) - 1) = listed[q]
      BY <2>10, <3>4, AllButLast
    <3>7. AsListed(tiles'[q], SubSeq(listed'[q], 1, Len(listed'[q]) - 1))
      BY <2>1, <3>5, <3>6
    <3>8. ItemPending'
      BY <1>3, <2>3, <2>8, <3>2, <3>6, <3>7 DEF ItemPending
    <3>9. \A p \in DOMAIN tiles' : p # q => AsListed(tiles[p], listed[p])'
      BY <1>3, <2>1, <3>4, <3>5
    <3>10. OthersAsListed'
      BY <2>8, <3>9 DEF OthersAsListed
    <3> QED
      BY <1>4, <1>7, <2>1, <2>7, <2>9, <3>8, <3>10
  <2>12. CASE Top.at = "item"
    <3>1. L >= 5 /\ UNCHANGED <<listed, tiles>>
      BY <1>5, <2>1, <2>12
    <3>2. frames'[5] = frames[5] /\ frames'[4] = frames[4]
      BY <2>4, <2>5, <3>1
    <3>3. ItemPending' /\ OthersAsListed'
      BY <1>2, <1>3, <2>1, <2>8, <3>1, <3>2 DEF ItemPending, OthersAsListed
    <3> QED
      BY <1>4, <1>7, <2>1, <2>7, <2>9, <3>3
  <2> QED
    BY <2>1, <2>11, <2>12
<1>21. CASE EndItem
  <2>1. /\ mapFile = "reading" /\ Top.at = "item" /\ frames' = Popped
        /\ IF Parent.at = "tile" THEN AddItem(Top.pos, Top.id)
           ELSE UNCHANGED <<tiles, mapFile>>
        /\ UNCHANGED <<spawn, listed, temples>>
    BY <1>21 DEF EndItem
  <2>2. L \in Nat /\ L >= 5 /\ Top = frames[L]
    BY <1>5, <2>1
  <2>3. Len(frames') = L - 1 /\ \A i \in 1..L - 1 : frames'[i] = frames[i]
    BY <1>1, <1>2, <2>1, Returned
  <2>4. Nested'
    BY <1>1, <1>2, <2>1, NestedAbove
  <2>5. PICK q \in DOMAIN tiles :
          q = frames[4].pos /\ Top.pos = q /\ \A i \in 5..L : frames[i].pos = q
    BY <1>2, <2>1, <2>2 DEF OnOneTile
  <2>6. Parent = frames[L - 1] /\ L - 1 \in 1..L
    BY <2>2 DEF Parent
  <2>7. frames'[4] = frames[4] /\ ~(Len(frames') >= 5) <=> L = 5
    BY <2>2, <2>3
  <2>8. CASE Parent.at = "tile"
    <3>1. L = 5
      <4>1. L - 1 = 4
        BY <1>2, <2>1, <2>6, <2>8 DEF Nested
      <4> QED
        BY <2>2, <4>1
    <3>2. PICK s \in Seq(ID) : s = SubSeq(listed[q], 1, Len(listed[q]) - 1)
                               /\ listed[q] = Append(s, Top.id) /\ AsListed(tiles[q], s)
      <4>1. listed[q] \in Seq(ID)
        BY <1>1
      <4>2. /\ listed[q] # <<>> /\ listed[q][Len(listed[q])] = Top.id
            /\ AsListed(tiles[q], SubSeq(listed[q], 1, Len(listed[q]) - 1))
        BY <1>2, <2>1, <2>2, <2>5, <3>1 DEF ItemPending
      <4> QED
        BY <4>1, <4>2, AllButLast
    <3>3. \A p \in DOMAIN tiles : p # q => AsListed(tiles[p], listed[p])
      BY <1>2, <2>1, <2>2, <2>5 DEF OthersAsListed
    <3>4. AddItem(q, Top.id) /\ Top.id \in ID
      BY <1>2, <2>1, <2>5, <2>8
    <3>5. CASE mapFile' # "panicked"
      <4>1. /\ mapFile' = "reading" /\ DOMAIN tiles' = DOMAIN tiles
            /\ \A p \in DOMAIN tiles' : AsListed(tiles[p], listed[p])'
        BY <1>18, <2>1, <3>2, <3>3, <3>4, <3>5
      <4>2. ~(Len(frames') >= 5) /\ Len(frames') = 4 /\ frames'[4] = frames[4]
        BY <2>3, <3>1
      <4>3. OnOneTile'
        BY <2>5, <4>1, <4>2 DEF OnOneTile
      <4>4. ItemPending' /\ OthersAsListed'
        BY <4>1, <4>2 DEF ItemPending, OthersAsListed
      <4> QED
        BY <1>4, <1>7, <2>1, <2>4, <4>1, <4>3, <4>4
    <3>6. CASE mapFile' = "panicked"
      BY <1>6, <2>1, <3>6
    <3> QED
      BY <3>5, <3>6
  <2>9. CASE Parent.at # "tile"
    <3>1. L > 5
      <4>1. L # 5
        <5>1. ASSUME L = 5 PROVE FALSE
          <6>1. 4 \in 1..Len(frames) /\ L - 1 = 4
            BY <5>1
          <6>2. Parent.at \in {"attributes", "tile"}
            BY <1>2, <2>1, <2>6, <6>1 DEF Nested
          <6>3. Parent.at # "attributes"
            BY <1>2, <2>1, <2>6, <5>1, <6>1 DEF Nested
          <6> QED
            BY <2>9, <6>2, <6>3
        <5> QED
          BY <5>1
      <4>2. PICK n \in Nat : n = L /\ n >= 5
        BY <2>2
      <4>3. n # 5
        BY <4>1, <4>2
      <4>4. n > 5
        BY ONLY n \in Nat, <4>2, <4>3
      <4> QED
        BY <4>2, <4>4
    <3>2. /\ UNCHANGED <<tiles, mapFile, listed>>
          /\ Len(frames') = L - 1 /\ Len(frames') >= 5
          /\ frames'[4] = frames[4] /\ frames'[5] = frames[5]
      BY <2>1, <2>3, <2>9, <3>1
    <3>3. OnOneTile'
      <4>1. \A i \in 5..Len(frames') : frames'[i].pos = q
        BY <2>2, <2>3, <2>5
      <4> QED
        BY <2>5, <3>2, <4>1 DEF OnOneTile
    <3>4. ItemPending' /\ OthersAsListed'
      BY <1>2, <1>3, <2>1, <2>2, <3>2 DEF ItemPending, OthersAsListed
    <3> QED
      BY <1>4, <1>7, <2>1, <2>4, <3>2, <3>3, <3>4
  <2> QED
    BY <2>8, <2>9
<1>22. CASE EndNode
  <2>1. /\ mapFile = "reading" /\ mapFile' = "reading" /\ frames' = Popped
        /\ Top.at \in {"mapData", "area", "tile", "places"}
        /\ UNCHANGED <<tiles, spawn, listed, temples>>
    BY <1>22 DEF EndNode
  <2>2. L \in Nat /\ L <= 4
    BY <1>5, <2>1
  <2>3. Len(frames') = L - 1
    BY <1>1, <1>2, <2>1, Returned
  <2>4. Nested'
    BY <1>1, <1>2, <2>1, NestedAbove
  <2>5. L < 5 /\ Len(frames') < 5 /\ ~(Len(frames') >= 4)
    BY <2>2, <2>3
  <2>6. OnOneTile'
    BY <2>5 DEF OnOneTile
  <2> QED
    BY <1>4, <1>7, <1>8, <2>1, <2>4, <2>5, <2>6
<1>23. CASE CloseMap
  <2>1. /\ mapFile = "reading" /\ mapFile' = "loaded" /\ Top.at = "root" /\ frames' = <<>>
        /\ UNCHANGED <<tiles, spawn, listed, temples>>
    BY <1>23 DEF CloseMap
  <2>2. L = 1
    BY <1>5, <2>1
  <2>3. \A p \in DOMAIN tiles : AsListed(tiles[p], listed[p])
    BY <1>2, <2>1, <2>2 DEF OthersAsListed
  <2>4. \A p \in DOMAIN tiles' : AsListed(tiles[p], listed[p])'
    BY <1>3, <2>1, <2>3
  <2> QED
    BY <1>2, <1>3, <1>4, <2>1, <2>4 DEF WalkInv
<1>24. CASE MapFails
  BY <1>6, <1>24 DEF MapFails
<1>25. ASSUME NEW q \in Pos, StandOn(q) PROVE WalkInv'
  <2>1. /\ mapFile = "loaded" /\ mapFile' = "loaded" /\ q \in DOMAIN tiles
        /\ Contents(tiles[q]) = <<>>
        /\ tiles' = [tiles EXCEPT ![q].ground = GroundID]
        /\ UNCHANGED <<frames, spawn, listed, temples>>
    BY <1>25 DEF StandOn
  <2>2. tiles[q] = EmptyTile
    BY <1>1, <2>1, NothingKept
  <2>3. \A p \in DOMAIN tiles : AsListed(tiles[p], listed[p]) \/ StoodOn(tiles[p], listed[p])
    BY <2>1 DEF WalkInv
  <2>4. StoodOn(tiles'[q], listed'[q])
    <3>1. tiles'[q] = [EmptyTile EXCEPT !.ground = GroundID]
      BY <2>1, <2>2
    <3>2. AsListed(EmptyTile, listed[q])
      BY <2>1, <2>2, <2>3 DEF StoodOn
    <3> QED
      BY <2>1, <3>1, <3>2 DEF StoodOn
  <2>5. \A p \in DOMAIN tiles' :
          AsListed(tiles'[p], listed'[p]) \/ StoodOn(tiles'[p], listed'[p])
    BY <2>1, <2>3, <2>4
  <2>6. \A p \in DOMAIN tiles' :
          AsListed(tiles[p], listed[p])' \/ StoodOn(tiles[p], listed[p])'
    BY <1>3, <2>5
  <2> QED
    BY <1>3, <1>4, <2>1, <2>6 DEF WalkInv
<1> QED
  BY <1>9, <1>11, <1>12, <1>13, <1>14, <1>15, <1>16, <1>17, <1>19, <1>20, <1>21, <1>22,
     <1>23, <1>24, <1>25 DEF ReadMap

-----------------------------------------------------------------------------
(* The theorems.                                                           *)

\* The inductive invariant, for every items.otb and every map file.
THEOREM Loads == Spec => []LoaderInv
<1>1. Init => LoaderInv
  <2> SUFFICES ASSUME Init PROVE LoaderInv
    OBVIOUS
  <2>1. ItemsInv
    BY DEF Init, ItemsInit, ItemsInv, ItemsTypeOK, IndexesAgree
  <2>2. MapInv
    <3>1. 0 \in Pos /\ MaxNodes \in Nat
      BY MapFileAssumption DEF Pos
    <3> QED
      BY <3>1 DEF Init, MapInv, TilesKnown
  <2> QED
    BY <2>1, <2>2, Parts
<1>2. LoaderInv /\ [Next]_vars => LoaderInv'
  <2> SUFFICES ASSUME LoaderInv, [Next]_vars PROVE LoaderInv'
    OBVIOUS
  <2>1. ItemsInv /\ MapInv
    BY Parts
  <2>2. ItemsInv' /\ DOMAIN byServer \subseteq DOMAIN byServer'
    BY <2>1, ItemsStep DEF Next, vars
  <2>3. CASE UNCHANGED mapVars
    <3>1. UNCHANGED <<frames, tiles, spawn, mapFile, nodes, listed, temples>>
      BY <2>3 DEF mapVars
    <3>2. TilesKnown'
      BY <2>1, <2>2, <3>1 DEF MapInv, TilesKnown, AllKnown, Known
    <3>3. MapInv'
      BY <2>1, <3>1, <3>2 DEF MapInv
    <3> QED
      BY <2>2, <3>3 DEF LoaderInv, ItemsInv, MapInv, TypeOK
  <2>4. CASE ReadMap /\ UNCHANGED itemsVars
    <3>1. MapInv'
      BY <2>1, <2>4, MapStep
    <3> QED
      BY <2>2, <3>1 DEF LoaderInv, ItemsInv, MapInv, TypeOK
  <2> QED
    BY <2>3, <2>4 DEF Next, vars
<1> QED
  BY <1>1, <1>2, PTL DEF Spec

\* Every variable keeps its type, whatever the files contain.
THEOREM TypeCorrect == Spec => []TypeOK
<1>1. LoaderInv => TypeOK
  BY DEF LoaderInv
<1> QED
  BY <1>1, Loads, PTL

\* The six indexes of the items agree.
THEOREM IndexesAgreeAlways == Spec => []IndexesAgree
<1>1. LoaderInv => IndexesAgree
  BY DEF LoaderInv
<1> QED
  BY <1>1, Loads, PTL

\* Everything on a tile is known, but for the ground under creatures.
THEOREM TilesKnownAlways == Spec => []TilesKnown
<1>1. LoaderInv => TilesKnown
  BY DEF LoaderInv
<1> QED
  BY <1>1, Loads, PTL

\* Each tile is as the file lists it, but for the item that is being read.
THEOREM Walks == Spec => []WalkInv
<1>1. Init => WalkInv
  <2> SUFFICES ASSUME Init PROVE WalkInv
    OBVIOUS
  <2>1. SpawnIsFirst
    BY DEF Init, SpawnIsFirst
  <2> QED
    BY <2>1 DEF Init, WalkInv
<1>2. LoaderInv /\ WalkInv /\ [Next]_vars => WalkInv'
  <2> SUFFICES ASSUME LoaderInv, WalkInv, [Next]_vars PROVE WalkInv'
    OBVIOUS
  <2>1. ItemsInv /\ MapInv
    BY Parts
  <2>2. CASE ReadMap /\ UNCHANGED itemsVars
    BY <2>1, <2>2, WalkStep
  <2>3. CASE UNCHANGED mapVars /\ (ItemsNext \/ UNCHANGED itemsVars)
    <3>1. UNCHANGED <<frames, tiles, spawn, mapFile, listed, temples>>
      BY <2>3 DEF mapVars
    <3>2. SpawnIsFirst'
      BY <3>1 DEF WalkInv, SpawnIsFirst
    <3>3. CASE mapFile = "waiting"
      BY <3>1, <3>2, <3>3 DEF WalkInv
    <3>4. CASE mapFile # "waiting"
      <4>1. itemsFile = "loaded"
        BY <3>4 DEF WalkInv
      <4>2. UNCHANGED itemsVars
        BY <2>3, <4>1 DEF ItemsNext, ReadItem, ItemsFail, ItemsEnd
      <4>3. /\ itemsFile' = itemsFile
            /\ \A t, s : AsListed(t, s)' <=> AsListed(t, s)
            /\ \A t, s : StoodOn(t, s)' <=> StoodOn(t, s)
        BY <4>2, ListedPrimed DEF itemsVars
      <4>4. CASE mapFile = "reading"
        <5>1. Nested' /\ OnOneTile' /\ ItemPending' /\ OthersAsListed'
          BY <3>1, <4>3, <4>4 DEF WalkInv, Nested, OnOneTile, ItemPending, OthersAsListed
        <5> QED
          BY <3>1, <3>2, <4>1, <4>3, <4>4, <5>1 DEF WalkInv
      <4>5. CASE mapFile # "reading"
        BY <3>1, <3>2, <3>4, <4>1, <4>3, <4>5 DEF WalkInv
      <4> QED
        BY <4>4, <4>5
    <3> QED
      BY <3>3, <3>4
  <2> QED
    BY <2>2, <2>3 DEF Next, vars
<1> QED
  BY <1>1, <1>2, Loads, PTL DEF Spec

\* What has been loaded is what the file lists, for every items.otb and every
\* map file.
THEOREM LoadedAsListedAlways == Spec => []LoadedAsListed
<1>1. LoaderInv /\ WalkInv => LoadedAsListed
  <2> SUFFICES ASSUME LoaderInv, WalkInv PROVE LoadedAsListed
    OBVIOUS
  <2>1. TypeOK /\ SpawnIsFirst
    BY DEF LoaderInv, WalkInv
  <2>2. ASSUME mapFile = "reading", \A i \in 1..Len(frames) : frames[i].at # "item"
        PROVE  \A p \in DOMAIN tiles : AsListed(tiles[p], listed[p])
    <3>1. frames \in Seq(Call) /\ frames # <<>> /\ Nested /\ OthersAsListed
      BY <2>1, <2>2 DEF LoaderInv, WalkInv, TypeOK
    <3>2. Top.at # "item"
      BY <2>2, <3>1, SomeCall
    <3>3. ~(Len(frames) >= 5)
      BY <3>1, <3>2, Depth
    <3> QED
      BY <3>1, <3>3 DEF OthersAsListed
  <2>3. TilesAsListed
    BY <2>2 DEF WalkInv, TilesAsListed
  <2> QED
    BY <2>1, <2>3 DEF LoadedAsListed
<1> QED
  BY <1>1, Loads, Walks, PTL

\* The page of items for a server identifier starts with its item.
THEOREM PageStarts == Spec => []PageStartsWithItem
<1>1. LoaderInv => PageStartsWithItem
  <2> SUFFICES ASSUME LoaderInv, NEW s \in DOMAIN serverToIdx
               PROVE  /\ serverToIdx[s] \in 1..Len(clientIdxs)
                      /\ ItemWithSequentialClientID(serverToIdx[s]) = ThingsItem(s)
    BY DEF PageStartsWithItem
  <2>1. /\ serverToIdx[s] \in 1..Len(clientIdxs)
        /\ items[clientIdxs[serverToIdx[s]]].server = s
    BY DEF LoaderInv, IndexesAgree
  <2>2. s # None
    BY NoneIsNoID DEF LoaderInv, TypeOK, ItemsTypeOK
  <2> QED
    BY <2>1, <2>2 DEF ItemWithSequentialClientID, ServerID
<1> QED
  BY <1>1, Loads, PTL

\* The pages list the client items in the order of the file.
THEOREM Pages == Spec => []PagesInOrder
<1>1. LoaderInv => PagesInOrder
  <2> SUFFICES ASSUME LoaderInv, ServerIDsDiffer, NEW k \in 1..Len(clientIdxs)
               PROVE  ItemWithSequentialClientID(k) = [otb |-> clientIdxs[k], dat |-> clientIDs[k]]
    BY DEF PagesInOrder
  <2>1. clientIdxs[k] \in 1..Len(items)
    <3>1. clientIdxs \in Seq(1..Len(items))
      BY DEF LoaderInv, TypeOK, ItemsTypeOK
    <3> QED
      BY ONLY <3>1, k \in 1..Len(clientIdxs)
  <2>2. PICK s : s = items[clientIdxs[k]].server
    OBVIOUS
  <2>3. s # None /\ Known(s) /\ ServerID(items[clientIdxs[k]]) = s
    BY <2>1, <2>2 DEF LoaderInv, ServerIDsDiffer, ServerID
  <2>4. byServer[s] \in 1..Len(items) /\ items[byServer[s]].server = s
    BY <2>3 DEF LoaderInv, TypeOK, ItemsTypeOK, IndexesAgree, Known, ItemByServerID
  <2>5. byServer[s] = clientIdxs[k]
    BY <2>1, <2>2, <2>4 DEF ServerIDsDiffer
  <2>6. items[clientIdxs[k]].client = clientIDs[k] /\ clientIDs[k] # None
    BY DEF LoaderInv, IndexesAgree
  <2>7. ClientIDForServerID(s) = clientIDs[k]
    BY <2>3, <2>5, <2>6 DEF ClientIDForServerID, ItemByServerID
  <2> QED
    BY <2>3, <2>5, <2>7 DEF ItemWithSequentialClientID, ThingsItem
<1> QED
  BY <1>1, Loads, PTL
=============================================================================
