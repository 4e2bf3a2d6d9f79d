# go-tibia: a verification development

TLA+ modules that model the parts of go-tibia whose correctness depends on the
order in which things happen, the TLC configurations that check them on small
instances, and TLAPS proofs of what holds for every instance. Paths below are
relative to `src/`.

Run a configuration with `tlc -config MCWorld_otbm.cfg MCWorld`, a proof with
`tlapm WorldProofs.tla`.

## 1. Inventory

go-tibia is a server for an old version of the Tibia protocol (`cmd/gotserv`),
a web server that draws what the game's data files contain (`cmd/gotweb`), a web
front end compiled to WebAssembly (`cmd/gotwebfe`), and the libraries they use.

| component | state | operations | interacts with |
|---|---|---|---|
| game world connections, `gameworld/gameworld.go`, `playermove.go` | per connection: keys, two unbuffered channels, main goroutine, `networkSender`, `networkReceiver`; per server: `LameDuckText`, `connections` | `Serve`, `serveGame` with its main loop, `playerSay`, `playerMove…`, `initialAppear` | the map data source, the listeners of gotserv, other connections through `senderChan` |
| creature identifiers, `gameworld/gameworld.go:49-109` | `maxCreatureIDPlayer`, a package variable | `NewCreatureID` | every connection that logs in |
| map data sources, `gameworld/procedural_map.go`, `otb/map/public.go` | creatures by identifier, tiles by position, each with a slice of creatures | `AddCreature`, `RemoveCreatureByID`, `GetMapTile`, and on a tile `AddCreature`, `RemoveCreature` | all main goroutines, without a lock (except for generated tiles) |
| map description, `gameworld/map.go` | one call's goroutines, channel and array | `mapDescription`, `floorDescription`, `tileDescription` | reads the map data source; written to a client on login and walks |
| gotserv, `cmd/gotserv/gotserv.go` | two listeners with a deadline, things, map | `games`, `serveLameDuck`, `logins`, `connection` | hands connections to `login` and `gameworld` |
| framing and encryption, `net/` | one message's buffer | `ReadMessage`, `Encrypt`, `Finalize`, RSA, xtea | used by gameworld and login |
| login protocol, `login/` | none | `Serve` | called by gotserv |
| OTB container, `otb/otb.go` | a tree of nodes | `NewOTB`, `Children` | item and map loaders |
| item attributes, `otb/items` | arrays and index maps | `New`, `ItemByServerID…`, `AddXMLInfo` | things, map loader |
| map loader, `otb/map/map.go` | tiles, towns, waypoints | `New`, `readRoot…` | otb; is then a map data source |
| dataset and sprites, `dat`, `spr` | arrays filled while reading | `NewDataset`, `DecodeOne…` | things |
| things, `things/` | pointers to the four data sets | lookups, drawing of an item or a creature | compositor, web |
| compositor, `compositor/`, `compositor/dom` | none kept | draw floors, tiles and lights | things, map data source |
| web server, `cmd/gotweb`, `web/` | the data files as loaded at the start, their signatures | handlers with ETags, the script of the service worker | all of the above |
| file lookup, `paths/` | in the browser, a cache of downloads under a lock | `Open`, `Find` | gotweb over HTTP, loaders |
| web front end, `cmd/gotwebfe`, `datafiles/html` | the worker's caches in the browser | `install`, `activate`, `fetch`; loaders and the drawing loop | gotweb, paths |
| the rest: `xmls`, `imageprint`, `cmd/itemprint`, `secrets`, generators | none | parsing, printing | |

What is hard in this code, and what would make it correct:

* **The game world is goroutines without locks.** Three goroutines per
  connection and one more per hearer of every utterance exchange messages on
  unbuffered channels that can block for ever. A client must be sent its initial
  appearance before anything else, its answers in order and no utterance twice;
  a logout must be carried out whatever others say; a player who leaves must
  leave no creature behind; every goroutine should end.
* **The world map is shared without locks.** A walk is a removal and an
  addition on two tiles, each a read, a copy and an assignment of a slice. A
  creature should be on exactly one tile, the one its position names.
* **A map description is assembled from concurrent pieces**, with an index
  computed up front and again in the goroutines, a channel whose capacity must
  suffice, and a run-length code for empty tiles that has to be unambiguous.
* **Identifiers** name a player everywhere, come from an unsynchronised counter,
  and should be unique.
* **Start-up** hands a listener with a deadline from one goroutine to another,
  and a string decides whether a client meets a world that is not there yet.
* **Data files are trees in a byte stream** with a byte that is put back, read by
  a recursion that turns the end of a file into success at every depth. The tree
  should say what the bytes said, and no node should be lost.
* **Items are found through six indexes** that are filled while the file is read,
  with missing and repeated identifiers. They should agree, and what is on a tile
  of the map should be in them, since those who draw it do not ask again.
* **Pictures are drawn concurrently from one reader of the sprite file**, out of
  arrays whose sizes were computed in 8 and 16 bits. A request should get the
  sprites it asked for, every number a picture looks at should have been read, and
  one bad item should not hang or stop the server.
* **Messages have 16 bit sizes and end anywhere.** `ReadMessage` takes fewer bytes
  than announced for a message. What is read should be what was written, or end
  there; a first message decides which of two protocols answers, on either port.
* **The front end is cached four times**: by a worker in two named caches, by the
  browser with validators, by a map in the program, and by gotweb, which
  knows what it loaded and not what is on its disk now. Versions should not be mixed, a new
  worker should not pull the files from under a page, and one lock guards all
  downloads of a page.

The list of hazards with their lines is in `PROJECT.json`.

## 2. Modules

| module | models | composed with |
|---|---|---|
| `ClientStream` | abstract: what one client may be sent | implemented by `Gameworld` |
| `Gameworld`, `GameworldProofs`, `MCGameworld` | `Serve`, `serveGame`, sender, receiver, `playerSay` | instance of `ClientStream` |
| `World`, `WorldProofs`, `MCWorld` | creatures and tiles under concurrent walks | `WorldProofs` extends `PlayerIDs` too |
| `MapDescription`, `MapDescriptionProofs`, `MCMapDescription` | `mapDescription`, `floorDescription` | |
| `PlayerIDs`, `MCPlayerIDs` | `NewCreatureID` and the maps keyed by it | |
| `GotServ`, `GotServProofs`, `MCGotServ` | `games` and `serveLameDuck` | `GotServProofs` extends `Logins` too |
| `OtbTree`, `OtbTreeProofs`, `MCOtbTree` | `NewOTB` and `OTBNode.parse` | |
| `ItemsOtb` | `otb/items`: `New` and the lookups of items | extended by `OtbmLoader` |
| `OtbmLoader`, `OtbmLoaderProofs`, `MCOtbm` | `otb/map`: `New` and the functions that read nodes | extends `ItemsOtb` |
| `Dataset` | `dat`: `NewDataset` and its lookups; which sprites `compositeGfx` looks at | extended by `Drawing` |
| `Drawing`, `DrawingProofs`, `MCDrawing` | `compositor`, the lookups of `things`, `SpriteSet.Image`, requests for maps | extends `ItemsOtb` and `Dataset` |
| `Message` | `net/message.go` as functions on bytes | extended by `Logins` |
| `Logins`, `MCLogins` | `connection` of gotserv, `login.Serve`, the handshake of `gameworld.Serve`, and the client that reads | extends `Message` |
| `Gotweb` | the files that gotweb serves and tells apart | extended by `ServiceWorker` |
| `ServiceWorker` | `sw.js` and the browser around it | extended by `Frontend` |
| `Frontend`, `FrontendProofs`, `MCFrontend` | a page with gotwebfe, `paths/http.go` | extends `ServiceWorker` |

Definitions preceded by a comment that begins with "Faulty" are not part of any
specification: each is the definition that follows it with a plausible mistake,
and replaces it when a property is tested for whether it would notice.

### Gameworld

A connection's main goroutine has a control state (`main`) that names the
statement it is at; the sender and the receiver likewise. A rendezvous on an
unbuffered channel is one step of both: `TakeAppear`, `TakeReply` and `TakeChat`
complete sends on `senderChan`, the actions that start with `Receives` complete a
send on `receiverChan`. `chat` is the set of goroutines `playerSay` has started
(`gameworld.go:497`) and that have not sent yet; `todo` is what is left of its
`range` over `connections`, to which an entry added meanwhile may or may not
belong. A message has its kind and its number among those read from its
connection; what it says is left out. Of each kind the model has the outcomes of
the code: `Request` answers or logs an error, `Leave` runs the deferred removal,
`Ignore` does nothing. `Kinds`, `Repertoire` and `Quota` are bounds on what clients
send: which kinds, each client which of them, and how many.

`MapRace` is the runtime's check for concurrent use of a map, which stops the
process: two goroutines that are both about to use one of the two maps, one to
write. It may or may not be noticed. A write to a socket may fail when the peer
has gone, when the socket has been closed, or while the deadline of the accepting
goroutine (`gotserv.go:110`, cleared at `gameworld.go:352`) still applies.

`ClientStream` says what all this is for: a rejection and nothing else, or the
initial appearance, then answers in order and utterances, none twice. Its only
variable is the stream of each client, which is `wire` in `Gameworld`.

### World

`LoadSlice` is the read of a tile's slice of creatures, and `Put`, `Take`, `Erase` the
assignment of the slice built from it; the two steps are where another player's goroutine gets
in between. `Walk` is the part of `moveCreature` that looks for the creature on its tile and
computes where it goes, `WalkFails` the early return. Coordinates wrap as `uint16` does.
`Stored` is the set of positions whose tile is kept: all for the procedural map, those of the
file for an OTBM map. Positions of an OTBM map without a tile get a new one at each look
(`otb/map/public.go:71-78`). `raced` remembers that an assignment replaced a slice that was no
longer the one read.

### MapDescription

The loop that starts the goroutines of the floors, the goroutines themselves with their loops in
x and y, the channel with its capacity, `wg.Wait`, the collection into `all` and the final loop
that writes descriptions and skip counts. `filled` is the map: the positions whose tiles are not
empty. The message is the sequence of described positions and of codes for runs of empty tiles;
`SkipCode` is the loop at `map.go:206-217` with `Base` for 256, and `Encode` the loop around it,
both as recursive functions of what is left or has been done. `Rounds` is a loop over
coordinates whose bound is computed in 16 bits: where it wraps, the loop does not run. A tile
that cannot be described makes its goroutine return early, as an error does in the code.

### PlayerIDs

`maxCreatureIDPlayer++` is `Load` and `Store`. The identifier is tagged with a bit
for its kind. `AddCreature`, `Register` and `RemoveCreatureByID` put and remove
entries of the two maps under the identifier, each remembering whose it is.

### GotServ

`games` opens the port, starts `serveLameDuck`, loads things and map, sends on
`lameDuckStop` and goes on accepting. The two share the listener's deadline and
`LameDuckText`, which connections read without a lock: `BeginClear` and `EndClear`
bracket the write, in between a reader may see either value, or half of each
(`TornRead`). The kernel queues clients as soon as the port is open.

### OtbTree

The file is chosen byte by byte. `stack` has one entry for each call of `parse` that
has not returned, and that entry is the node the call is at: a `NODE_START` inside a
node is a call, one after a `NODE_END` moves the innermost call on to the sibling.
`reading` is the place in the loop of the innermost call. `Return` is the seek by
minus one (`otb.go:205`): the byte stays `unread`, and the caller's next read is that
`NODE_END`. `EndOfFile` is the read that returns nothing, which `parse` takes for
the end of the node (`otb.go:174`), and so do all its callers. `tokens` is a history variable:
what the bytes say, whatever tree is made of them.

### ItemsOtb and OtbmLoader

`ReadItem` reads one node of `items.otb` into the array and, with `IndexClient` and
`IndexServer`, into the six indexes; `ItemByServerID` and its relatives are the lookups.
Arrays are indexed from 1. `OtbmLoader` is the walk of the tree of a
map file: `frames` has one entry for each call of a function that reads a node, from
`readRoot` down to items in items. A tile is stored before it is read, so a later
tile at its position replaces it (`Tile`); an item is added when its node has been
read (`EndItem`), one among the tile's attributes at once (`InlineItem`). The program panics on
an order above the last of the four layers and on a countable inline item;
`mapFile` remembers it. `listed` and `temples` are history variables, the file's own
order of items and of places. Positions are on a line of length `Wrap`, since x, y are
sums of two numbers of the file; position 0 is the origin, which the loader cannot
tell from having no place to start (`map.go:668`). `StandOn` is ground that
`AddCreature` puts under a creature on an empty tile (`public.go:62`).

### Dataset and Drawing

`Dataset` is the loop of `NewDataset`: `ReadHeader` makes the arrays, `ReadOption` and
`EndOfOptions` read the option bytes of one entry, `ReadGraphics` its graphics with the
numbers of its sprites. `NItems`, `SpriteCount` and the lookups compute in the widths of
the code, `Byte` and `Word` for 256 and 65536. `KindAt` and `IdAt` are where the loop puts
the n-th entry of the file. `ActiveSprite` and `DrawnSprites` are the arithmetic of
`compositeGfx`, with `Beyond` for an index that is out of range.

In `Drawing` the files are read first, one after the other as `FromPaths` does (`LoadItems`,
`LoadDat`, `LoadSprites`); one that was not found is omitted, and `things` comes without it.
`program` is what uses them: a server, which does not get through `RegisterRoutes`
(`web/handlers.go:547-558`) without a dataset and sprites, as both signatures are read there, or
a tool or test, which draws with what there is; then `NoSpriteSet` is the panic at a nil sprite
set (`spr.go:27`), and `HasDataset` decides whether anything is looked up at all. Each drawer
goes through the tiles of its box: `Visit` is the i-th tile of the three nested loops, with the
cell of the picture it is aligned with; `DrawThing` is one turn of the loops over items and
creatures, whose failing branches panic, skip, or go on with the same index; `LockSprites`,
`FindSprite` and `ReadSprite` are `SpriteSet.Image` with its lock and the seeks of the one
reader, each of them a place where another request may run. `painted` is a history variable. A
generated map that has a creature to put on a new tile never gives its lock back (`NextTile`).

### Message and Logins

A byte on the way is a plain one, one of a block that was encrypted with a key, or
unknown: a checksum, or what decryption makes of anything else. With that, `Sized`,
`Encrypt`, `Finalize`, `Body`, `Decrypt` are the functions of `net/message.go`, and sizes have
`Base`, `Block` and `Check` for 256, 8 and 4. A first message of a client is a record
of what its bytes announce (`Hello`), which is all that the handshake depends on. `conn` is
the statement a connection's goroutine is at. A panic in any of them ends the process.
`Read` is a client that uses the same library; `Lose` cuts a connection at any byte.

### Gotweb, ServiceWorker and Frontend

A file is its version, which also stands for its hash and its signature. `Tag` is what a
handler tells it by, computed before `http.ServeFile` reads the file again: `Ask` and
`Answers` are the two ends of a request, and files may be replaced in between. `copy` is
the browser's copy with its validator. The handlers declare files fresh for half a minute or
ten hours (`gotweb.go:449-471`, 530), and others have a date from which a browser guesses: in
the model any copy may be taken for fresh at any time, and then the answer is the copy as it
was when the request was made. `unasked` remembers which files a worker was given in that
way, since `sw.js:77` fetches with the default mode.

`Update` is the browser that finds another `sw.js`, `AskToAdd` and `Add` are `cache.add` file
by file, `Activate` is `skipWaiting` and the deletion of other caches. A page is under the
worker that was active when it was loaded; `GetCached` and `Get` are `smartFetch`. A fetch of
the worker for a page belongs to the worker (`fetchAndStore`, `sw.js:285-311`): it goes on
when the page has been reloaded (`Navigate` makes it a request of one of the `Others`), and
what it brought is put into a cache later, by an action of its own (`puts`, `StoreFetched`), since
nobody waits for the put. `Others` also make requests of their own (`OtherAsks`): they are
pages in other tabs, of which the model has what they ask for and the installations they start, and
not their loaders.

`Lock`, the download and `Got` are one call of `noFindOpenHTTPImp`, which downloads before it
looks whether it has the file. `Failed` has its three bad ends: an error of `http.Get` panics;
another status and a body that cannot be read to its end return with the lock held. A loader
opens the files of `full.FromDefaultPaths` twice, to find and to read them, and then
`outfits.xml` with `paths.Open`. That tries twice, so that after a failure it waits for the lock
that the first try has left held; the `f.Close()` on what was not opened (`main.go:174-189`) is
not reached.

## 3. What the runs show

| run | instance | shows |
|---|---|---|
| `order` | two connections, one message and two, kinds say, move, bad | the stream of each client implements `ClientStream`; nobody who was shown the world leaves a creature behind; the inductive invariant |
| `live` | two connections, one sends up to two of turn and logout, the other one of say and other; fairness | a logout that was read is carried out, and goroutines of `playerSay` end, unless a `networkSender` has given up; a player whose client has gone without logging out stays |
| `otbm` | two players, 3 by 2 positions that wrap, one without a tile, two walks each | tiles and positions agree unless an update was lost; a player stranded on a position without a tile stays there |
| `lostupdate` | two players side by side | *violated*: overlapping walks leave a creature on no tile or on two |
| `surface` | box of 2 by 1 above ground, three floors, every map, base 2; fairness | assembled in order, decodable but for runs of a multiple of the base, no panic, and `mapDescription` returns, as no floor ends at an edge |
| `startup` | three clients; fairness | nobody enters an unloaded world; the lame duck ends, restores the listener; no client waits for ever |
| `serial` | three connections, counter below the kind's bit | identifiers unique and entries one's own, if calls do not overlap |
| `otb` | every file of six meaningful bytes over an ordinary byte and the three special ones, cut anywhere | no node is lost or linked twice; the tree written out again is what was read |
| `load` | every `items.otb` of two of six items, every map file of seven nodes | the indexes agree; tiles have the items their nodes list, in order, all known; spawn at the first place; a page starts with its item |
| `draw` | a server or a tool, each file there, broken or not found; one item, two entries of the dataset, every entry of four graphics, two requests on maps of two floors; bytes of 4, words of 8; fairness | lookups answer with the right entry; sprites suffice; nobody's sprites are mixed up; floors lie on top of each other; drawing ends, or stops for a reason in the data, a tool also for want of a file |
| `frames` | one connection on either port, eleven first messages and silence, three messages of the game of three lengths, base 4; fairness | what is read was written, or is the end; each is answered as it asked; every connection ends |
| `web` | the program, `outfits.xml` that may be missing, dataset, sprites and pictures; one replaced file and four scenarios of page loads, installations, loaders, a restart, a lost answer, a request of another tab; fairness | copies are as new as their tags; a worker serves what it came with, but for what it was given without asking; it loses nothing; a page under a worker never fails and has one version of each file; loaders end |

The type invariants of `Gameworld`, `OtbmLoader`, `Drawing`, `Logins` and `Frontend` are
conjuncts of `StreamInv`, `LoadedAsListed`, `DrawingInv`, `LoginsInv` and `FrontendInv`; those of
the others are proved (section 5). `LoadedAsListed` and `Readable` are conjunctions as well,
of what is named in the lines above.

`LoadedAsListed` says what is on a tile without a loop: `Sifted` relates the ground and each
layer of a tile to the items listed for it, by a map of places that keeps their order and leaves
none out. `NoneLost` is about steps after which the worker is still the active one, and about
what is in a cache of its own: files elsewhere may well be lost to the next worker, as soon as
there are more of them than the run has. After an installation that was broken off, two fetches
of one file that the worker lacks may bring two versions, and the put that comes later replaces
what has been served: `NoneLost` says that it takes such a put. `ServesWhatItCameWith` leaves
out files that an installation was given from a copy the browser took for fresh, which may be
older than the script. `Described` excepts boxes with a floor that ends at an edge
(`WithinBounds`, section 4).

Bounds. Two connections suffice for one to speak to another and to itself while it is logging
in, answering or closing; a second message of one of them lets answers and utterances be out of
order or repeated, and in `live` lets a logout be offered while the main loop is still sending
an answer (`gameworld.go:455`), to a `networkSender` that is writing, is busy with what another
has said, or has given up. The kinds are chosen so that every branch of the main loop is taken
in one of the runs. For `World` two players are what a lost update takes, and two walks take a
player onto the position without a tile and let it try to get away. For `MapDescription` three
floors of two tiles give goroutines that overlap and runs of empty tiles across floors, of every
length up to six and so of one, two and three times the `Base`. Three clients let one be served
by the lame duck, one be queued during the handover and one come later. Six bytes hold a root
with two children that have siblings or children of their own, or properties with an escape in
between. Two items of `items.otb` can have the same server or client identifier, or lack either,
which is what lets the indexes differ; `GroundID` is not among them. Seven nodes are the map
data, an area, two tiles at one position or at two, with items and items in items, or two lists
of places.

For `Drawing` two requests are what mixes up a shared reader; the item has the identifier
of an entry, one behind the last, or none; the graphics have two layers and two
frames, variants in both directions, and areas that wrap to a smaller number and to
zero; one of the maps lies across the edge, and one has an outfit that the dataset may
not have. With one item and two entries there are 108,472 states. In `Logins`
connections share only the process and `ready`, which its own actions change too, so that one
connection and any number of others look alike to it; base 4 makes sizes wrap at 16, and the
texts are empty, as long as fits, and one byte longer. In `Frontend` each
scenario bounds how often each kind of event may happen (`Scenarios`), in any order: a loader
beside another while a worker is installed; a loader whose answer is lost; a file replaced, a
restart and two page loads around a worker and its successor; and two installations, one of
which may break off, with a request of another tab. A worker's list has five files, and so the
first page finds the worker at any point of it. Together they have 322,454 states. The proofs show
that what is proved in section 5 does not depend on the bounds.

Fairness. Goroutines that can run do run: the Go scheduler is fair to them. A write to a socket
ends, successfully or not, since a client drains its socket or is gone. Reading a file ends. No
fairness on clients: they need not connect, send or leave; none on the failure of a tile; none
on `EndLameDuck` in `Gameworld`. In `GotServ` a queued client is not passed over for ever
(strong fairness of the two accepting actions), because the kernel's queue is first in, first
out. In `Drawing` each request that has begun goes on (weak fairness of `Draw(d)`):
`SpriteSet.m` is held for two steps only, and Go's mutex hands over to who has waited for long;
nobody need begin. In `Logins` the deadline of five seconds (`gotserv.go:110`) is what makes
`NoHello` fair. In `Frontend` downloads come to an end and the lock is taken by someone as long
as anybody wants it, no matter who; users, deployments and workers need not do anything.

`CHECK_DEADLOCK FALSE` is set where the system may stop: all connections served and
closed, all walks taken, `mapDescription` returned, a file read to its end or given up,
all pictures drawn, no page loaded any more.

## 4. Observations

Of what the code's comments, documents and tests say, one line is refuted by a run:

* `playermove.go:85-86` promises that a creature is taken off one tile and added to
  another; without a lock it may end on none or two. Run `lostupdate`. On an
  OTBM map a single player who walks onto a position without a tile also ends on none
  (`StrandedStays` in run `otbm`).

Others are in the model, and the properties say exactly how far they go:

* `gameworld.go:134-135` name channels to quit the sender and the main loop;
  nothing ever sends on them. A client that goes without logging out leaves its main
  loop and its creature behind for good: `OrphanStays`.
* `map.go:182-192`: 256 skipped tiles are sent as 255 are, so that runs of a
  multiple of 256 cannot be told from shorter ones: `Readable` excepts exactly these.
* `map.go:226-227`: the bounds of the loops over a floor are `uint16`. Where `x+width` or `y+height`
  wraps, the floor has no tiles, the total computed at line 118 has them all the same, and the
  collector waits for them for ever: `Described` excepts these boxes, and `NobodyBlocked` in
  `MapDescriptionProofs` says that this is the only way to wait for ever.
* `gameworld.go:98` calls identifiers unique; two calls of `NewCreatureID` that overlap
  return the same one: `SerialIDsUnique` excepts these, which takes the history variable it is about.
* `dat.go:532`: the bound of `Item` is one too high. The identifier behind the last item
  panics, and with it whatever draws an item that `items.otb` gives this identifier
  (`LookupsInRange`, `StopsOnlyOnBadData`).
* `dat.go:988-991`: the number of sprites is a product of products of bytes; where one wraps,
  an entry is read with fewer sprites than it is drawn with, or its sprites are
  taken for what follows. `SpritesSuffice` excepts these.
* `from_paths.go`: a file that was not found is skipped without an error. A tool without sprites
  panics at the first of them (`spr.go:27`), and without a dataset the first creature makes the
  loop of `compositor/tile.go` go on for ever with the same creature; `StopsOnlyOnBadData` says that
  this is all the want of a file can do, and that it does not happen to a server.
* `procedural_map.go:139-146`: `GetMapTile` asks for the tile it is making, with the lock
  held; all who come after wait for ever (`DrawingEnds` excepts it).
* `spr.go`: the signature of a sprite file is never set, so that every sprite file has the same
  ETag. A browser keeps what it has when gotweb gets other sprites (`CopyNotOlder` is about
  the other files), and the worker's data cache, named after the dataset only, is taken for complete.
* `sw.js`: an installation that fails leaves its caches, and the next one that finds them does not
  fill them; `ServesWhatItCameWith` and `WorksOffline` are about pages before that. By default the map that
  `sw.js` lists is served from a file `:test:` (`gotweb.go:85`, 507), which is not there: then every
  installation breaks off, and the two say nothing. They are about a gotweb with a map file.
* `sw.js:77` with `gotweb.go:530`: a worker that is installed within half a minute of a page load
  may be given the program of that page, and keeps it under the name of the new one (`unasked`).
* `http.go:64-77`: a status other than 200 returns with the lock held. Without a worker
    a missing `outfits.xml` therefore hangs the loaders; with one it is a network error,
  whose panic stops the program (`LoadersEnd` excepts both).
* `gotserv.go:84-102`: a client that asks the login port for the game stops the server
  (`ReadStrings`); and so may a client that is turned away while the text is
  cleared, if it is read in half (`Reject`). Nothing says that they do not, so no run does.
* Only read, and not in a model: `gotweb.go:104` closes a file that was not opened if
  `outfits.xml` is missing; `NewSubscriptionManager` decodes into a value instead of a pointer, so
  that subscriptions are never kept.

## 5. Proofs

All are checked by TLAPS without assumptions other than the named `ASSUME`s on the
constants, and hold for every value of the constants that satisfies these. Every
invariant and every action property that a passing run checks is a theorem.

* `GameworldProofs`. `TypeCorrect`; `StreamInvariant`, the conjunction of types,
  `AppearInv`, `OrderInv` and `SpeechInv`, each proved inductive relative to those
  before it. `AppearInv` is why speech cannot come before the appearance: a connection
  is in `connections` only after its appearance was taken. `OrderInv` relates the
  numbers of answers on their way to the number of messages read, and `SpeechInv` says
  that a speech is in at most one place on its way. From them `StreamImplemented`,
  step by step: a step of the sender's write is a step of `ClientStream`, any other
  leaves `wire` alone or appends a rejection. `NoGhost` rests on
  `GhostInv`. `OrphansForGood` is an action property: once the receiver has
  gone without a logout, no step of anybody brings the main loop to its deferred removal.
* `WorldProofs`. `TypeCorrect`, and `TilesAgreeAlways`, whose invariant adds what a
  player in the middle of an operation has read: unless it has been
  overtaken, the slice it is going to assign is that of the tile as it is. `StrandedForGood`:
  who is on a position that is not stored stays there. About `PlayerIDs`, `SerialIDs` and
  `OwnEntriesAlways`; the invariant bounds the counter by the number of connections that have
  called `NewCreatureID`, which needs facts on cardinalities, and that number by the bit of
  the kind (`KindAssumption`: 2^28 in the code, more players than that never log in).
* `MapDescriptionProofs`. `TypeCorrect` and `AssembledAlways` need `TotalIsRight`
  (non-linear arithmetic on floors and area) and an invariant that ties each floor's
  goroutine to the index its first tile gets. `ReadableAlways` has two halves. That nothing
  is missing when the message is written needs `OnceInv`, no index is sent twice, and `CountInv`,
  what was received is counted. That a client can tell the tiles from the message is about
  two recursive functions. Induction over numbers has an operator as a parameter, so it is done
  over sets: a set of numbers that has 0 and with each number the next is `UpTo` the bound. `Reads`
  relates a message to tiles by the places its tokens stand for; the loop writes a message
  that reads as its tiles, and two readings of one message have the same places, unless they differ
  in a run of a multiple of the base. `NeverBlocks` is what there is of `Described` without
  fairness: with as many different indexes below `Total` the channel has room for one more, and
  (`LossInv`) what was sent is in the channel or in `all`, so that the collector gets what it waits for
  if each floor has all its tiles.
* `GotServProofs`. `StartupInv` is inductive as it stands; `PlaysOnAMapAlways`
  follows. About `Logins`, `LoginsCorrect` and `AnswersAreAsked`. `Asked` says
  for each place in the handshake what was asked and what can have been sent so far. `Flows` says, as
  long as all that was sent fits its size, that what is on its way is what is left of the messages
  that were sent, in order, with known places where each begins (`Placed`), perhaps cut, and what was
  read is the messages before, the last one cut at most. That a message which fits is read as
  it was written is a lemma on one message, for every base, block size and length of the
  checksum. `DifferentAssumption` says that an answer to a login is not among the texts, as
  its first byte tells in the protocol; `TextsAssumption` is about the model's own bound, which is not zero.
* `OtbTreeProofs`. `TreeInv` adds to `NodesLinked` that the current nodes of the calls have
  no sibling yet, the innermost no child unless the put-back byte is next: nobody's
  link is ever overwritten. `TypeCorrect` and `AlwaysLinked` follow. `TreeIsTheFileAlways`:
  what the recursive function `Written` makes of the tree is never compared with the tokens as they come.
  Instead `PlacedInv` gives each node the place of its `NODE_START`, that of its `NODE_END`,
  which may be still to come, and that after its last sibling. Places that agree with the links
  and the tokens determine what is written (`PlacedIsWritten`): two chains that obey the same equations are
  the same, for else they would differ at a greatest node, and a node only refers to greater ones.
* `OtbmLoaderProofs`. `LoaderInv` adds to the types, `IndexesAgree` and `TilesKnown` that
  every item with a server identifier is found by one, and that what is read
  is below a root. `IndexesAgreeAlways`, `TilesKnownAlways`, `PageStarts` and `Pages`
  follow from it. `TilesKnown` excepts the ground under creatures, which nobody looks up
  (`public.go:62`). `PagesInOrder` is about files whose server identifiers differ:
  the code calls others irregular (`items.go:676-679`). `Walks` proves `WalkInv`: calls are nested
  as nodes are, all of them are about one tile, the last one stored, an item whose node is
  being read is listed and not yet there, and everything else is as listed. `LoadedAsListedAlways`
  follows; that one more item keeps `Sifted` is a lemma on maps of places.
* `DrawingProofs`. `DrawInv` adds to `DrawingInv` that whoever is in `SpriteSet.Image` has
  the reader at the sprite it is to paint (`ReaderInv`), that entries are where the
  header puts them and have what was counted (`EntriesInv`), and that nobody draws before
  the files are read (`FilesInv`). `DrawInvariant` proves it inductive, with a lemma for
  each action. `DrawsAsAsked` follows at once, `LookupsRight` from the places of entries, and
  `SpritesThere` from `EntriesInv` and arithmetic on seven factors: the number of a
  variant in a frame is below the number of all variants and frames (`Numbered`), and a block of
  layers below that number fits (`Fits`). `FloorsInOrder` says of every sprite painted that it is of a
  tile visited before (`PictureInv`), and needs the inverse of the enumeration of tiles by three nested loops.
    `StopsForAReason` has for each place in the drawing loop what can only be so because of
  the files or the map (`StopsInv`): a request in a server has a dataset and sprites, and what it
  stops at is on, or due on, the tile it has come to. They hold for every file, every map, every box
  with a width and a height, every number of requests, and every width of integers.
* `FrontendProofs`. One inductive invariant, `IInv`, of thirteen conjuncts. `Growing`: files are only
  replaced by later ones. `Tagged`: a request that is told by a version is told by one that was
  there, and the copy it names is as new. `Ordered` and `WorkerAsks`: a worker asks after it
    was made, so that what it caches is as new as its script, unless it is in `unasked`. `PageAsks`, `PutsPast`
  and `Shelved`: who waits for what, whose puts are still to come, and which caches there are. `Whole`: an installation that was not broken off has
  all files listed. `Kept`: what a loader opens of a file is what the page keeps of it. `FrontendTyped`, `ServesTheNewest`,
  `Offline`, `OneVersionAlways` and `NoneLostAlways` follow, the last from one step and the invariant.
  `ListedAssumption` is what the script of the worker has: a list without repetition, with the
  program and the data in it. `LoadersAssumption` says that loaders want files of that list,
  `OthersAssumption` that other pages are not this one, and `NoneAssumption` that no worker is nobody.
  All five hold for any number of other pages.

Only model-checked: the liveness properties `LogoutLeaves`, `SpeechDelivered`, `Described`,
`LameDuckEnds`, `ListenerRestored`, `NobodyWaits`, `DrawingEnds`, `ConnectionsEnd` and
`LoadersEnd`, since ENABLED and fairness are outside what the provers do here. The fairness of
section 3 is therefore only used by runs. `WalkEffect`, which the run `lostupdate` refutes, is
not a theorem.

## 6. Not modelled

* What messages contain, beyond their kind: stats, inventory, outfits, lights.
* The order of creatures on a tile, and what a tile contains besides them.
* The creature with the hard-coded identifier 1234 of the procedural map.
* Attributes of items other than what the map loader asks for; the smallest and the largest
  identifiers of items; groups, names and prices from XML (`xmls`, `otb/items/xml.go`), which
  are parsers built on `encoding/xml`.
* What the map loader reads and only logs: flags and houses of tiles, attributes of items, names
  of towns and waypoints.
* What option bytes of the dataset mean, apart from which things they may be used for; pixels,
  light, colors, addons and mounts; the compositor of the browser's document (`compositor/dom`),
  whose effects are in the document.
* The ciphers and the checksum themselves (`net/rsa.go`, xtea, adler32): a block is what was
  encrypted, or garbage.
* Of the web server, what is not a file of the front end or a picture of a map: pages of items
  and outfits, templates, routes, parameters, push subscriptions. They read what `Drawing`
  reads, and keep nothing.
* How long a browser takes a copy for fresh (any copy may be, at any time), and when it drops
  one.
* The buttons of the page that clear its caches and unregister the worker
  (`index.html:305-306`): the properties of the front end are about pages on which nobody
  presses them.
* Pages in other tabs, apart from their requests and installations; the drawing loop of the
  page.
* Search for a file in a list of directories (`paths/find_local.go`), which has no state.
* Command line tools (`cmd/itemprint`, `imageprint`, `cmd/wikiloader`, `cmd/vapidgen`), the test
  runner `cmd/gotwebfe_runner` and constants (`secrets`).
* Everything listed as `not_modelled` in `PROJECT.json`.

## 7. Plan

Done, in this order, those with a module of proofs proved about: `Gameworld` with `ClientStream`,
`World`, `MapDescription`, `GotServ`, `PlayerIDs`, `OtbTree`, `ItemsOtb` with `OtbmLoader`,
`Dataset` with `Drawing`, `Message` with `Logins`, `Gotweb` with `ServiceWorker` and
`Frontend`.

What would come next:

1. `World`: the lock of generated tiles with players on it, and the creature with
   identifier 1234.
2. A map data source with atomic walks as an abstract specification, which `World` implements
   as long as no update is lost.
