-------------------------- MODULE ClientConnection --------------------------
(***************************************************************************)
(* The client from its start to a joined world: the autoloads, the menu, the   *)
(* browser that asks gateways for their servers, and the polled web socket     *)
(* (client/autoload/network_manager.gd, settings.gd, scripts/main_menu.gd,     *)
(* browser.gd, main.gd).  Everything runs on one thread, in frames: input is    *)
(* handled, NetworkManager polls, a scene that was asked for takes over.        *)
(***************************************************************************)
EXTENDS Naturals, FiniteSets

CONSTANTS
    Hosts,     \* gateways
    Servers,   \* the ws_url of a world server
    Names,     \* names a player may give
    NoName,    \* model value: a name that is empty once trimmed
    Fallback,  \* model value: "Player", which the menu puts in its place
    NoHost,    \* model value: a URL that is empty once trimmed
    Local,     \* model value: the ws_url a client starts with
    Blank,     \* model value: a server card with no ws_url
    DevName,   \* model value: the name a client starts with
    None,      \* model value: no socket, no list, no world, no gateway
    MaxFetches \* bound of the model: requests to one gateway at a time

ASSUME ClientAssumption ==
    /\ NoHost \notin Hosts
    /\ Local \notin Servers /\ Blank \notin Servers
    /\ DevName \notin Names
    /\ NoName # Fallback
    /\ MaxFetches \in Nat \ {0}

VARIABLES
    dev,                      \* started with --dev
    scene, next,              \* the scene that is up, the one asked for
    polled,                   \* NetworkManager has run in this frame
    playerName, settingsRead, \* Settings
    autoConnect, wsUrl, helloName, socket, online, \* NetworkManager
    asked,                    \* HTTP requests under way to each gateway
    page, active, status, shown,                   \* the browser scene
    debug, hud, world         \* the main scene: is its debug line seen, what does that
                              \* line say, whose world is shown

settings == <<playerName, settingsRead>>
network == <<autoConnect, wsUrl, helloName, socket, online>>
browser == <<page, active, status, shown>>
main == <<debug, hud, world>>
vars == <<dev, scene, next, polled, settings, network, asked, browser, main>>

Urls == [host : Hosts \cup {NoHost}, scheme : BOOLEAN]
\* hellos: those said on this socket, the name in the last of them, what was read.
Called == Names \cup {NoName, Fallback, DevName}
Sockets == [url : Servers \cup {Local}, state : {"connecting", "open", "closing", "closed"},
            hellos : 0 .. 2, name : Called, got : {"nothing", "welcome"}]
Lists == [of : Hosts, cards : SUBSET (Servers \cup {Blank})]

Is(state) == socket # None /\ socket.state = state

\* connect_to_url may refuse at once.
NewSocket(url) ==
    [url : {url}, state : {"connecting", "closed"}, hellos : {0}, name : {DevName}, got : {"nothing"}]

Init ==
    /\ dev \in BOOLEAN
    /\ scene = "boot" /\ next = "network" /\ polled = FALSE
    /\ playerName = DevName /\ settingsRead = FALSE
    /\ autoConnect = FALSE /\ wsUrl = Local /\ helloName = DevName
    /\ socket = None /\ online = FALSE
    /\ asked = [h \in Hosts |-> 0]
    /\ page = "none" /\ active = None /\ status = "none" /\ shown = None
    /\ debug = FALSE /\ hud = "none" /\ world = None

(* Start: the autoloads become ready in the order project.godot lists them *)

IsDev == dev /\ settingsRead

\* Settings has not read its arguments yet, whatever they are.
NetworkReady ==
    /\ scene = "boot" /\ next = "network"
    /\ next' = "settings"
    /\ autoConnect' = IsDev
    /\ helloName' = playerName
    /\ socket' \in IF IsDev THEN NewSocket(wsUrl) ELSE {None}
    /\ UNCHANGED <<dev, scene, polled, settings, wsUrl, online, asked, browser, main>>

\* --user, or the name kept in foundry.json, where it may be empty.
SettingsReady ==
    /\ scene = "boot" /\ next = "settings"
    /\ next' = "menu"
    /\ settingsRead' = TRUE
    /\ playerName' \in Called
    /\ UNCHANGED <<dev, scene, polled, network, asked, browser, main>>

(* Scenes *)

\* A scene that has asked for another is out of the tree: its buttons are dead.
Pressed(s) == scene = s /\ next = "none"

Asks(s) == next' = s /\ UNCHANGED <<dev, scene, polled, asked>>

MenuReady ==
    /\ next = "menu"
    /\ scene = "boot" \/ polled
    /\ scene' = "menu" /\ polled' = FALSE
    /\ next' = IF IsDev THEN "main" ELSE "none"
    /\ UNCHANGED <<dev, settings, network, asked, browser, main>>

BrowserReady ==
    /\ next = "browser" /\ polled
    /\ scene' = "browser" /\ next' = "none" /\ polled' = FALSE
    /\ page' = "gateways" /\ active' = None /\ status' = "none" /\ shown' = None
    /\ UNCHANGED <<dev, settings, network, asked, main>>

\* Joining has opened a socket already; one that is closed is tried once more.  The
\* line that tells of it is part of the debug display, which is off at first.
MainReady ==
    /\ next = "main" /\ polled
    /\ scene' = "main" /\ next' = "none" /\ polled' = FALSE
    /\ hud' = "connecting" /\ debug' = FALSE
    /\ IF socket # None /\ ~Is("closed")
       THEN UNCHANGED <<socket, online>>
       ELSE socket' \in NewSocket(wsUrl) /\ online' = FALSE
    /\ page' = "none" /\ active' = None /\ status' = "none" /\ shown' = None
    /\ UNCHANGED <<dev, settings, autoConnect, wsUrl, helloName, asked, world>>

SetName(n) ==
    /\ Pressed("menu")
    /\ playerName' = n
    /\ UNCHANGED <<dev, scene, next, polled, settingsRead, network, asked, browser, main>>

\* Nobody plays without a name.
Play ==
    /\ Pressed("menu")
    /\ playerName' = IF playerName = NoName THEN Fallback ELSE playerName
    /\ Asks("browser")
    /\ UNCHANGED <<settingsRead, network, browser, main>>

(* The browser *)

\* Mistaken: the request goes to the gateway, but the name is kept as it was saved.
NormalizeNot(url) == url

\* An address gets a scheme, unless nothing is left of it.
Normalize(url) == [url EXCEPT !.scheme = (url.host # NoHost)]

\* Mistaken: whatever comes is shown.
FetchedAny(from, list) ==
    /\ status' = IF list = None THEN "error" ELSE "found"
    /\ shown' = list

\* The answer is for the gateway on the page: its list, or the error instead.
Fetched(from, list) ==
    IF page' # "servers" \/ from # active'
    THEN UNCHANGED <<status, shown>>
    ELSE /\ status' = IF list = None THEN "error" ELSE "found"
         /\ shown' = list

\* fetch_servers: an address that cannot be asked is answered for at once.
Browse(url) ==
    /\ Pressed("browser") /\ page = "gateways"
    /\ page' = "servers"
    /\ active' = Normalize(url)
    /\ \/ /\ url.host # NoHost
          /\ asked[url.host] < MaxFetches
          /\ asked' = [asked EXCEPT ![url.host] = @ + 1]
          /\ status' = "contacting" /\ shown' = None
       \/ /\ status' = "error" /\ shown' = None
          /\ UNCHANGED asked
    /\ UNCHANGED <<dev, scene, next, polled, settings, network, main>>

BackToGateways ==
    /\ Pressed("browser") /\ page = "servers"
    /\ page' = "gateways" /\ status' = "none" /\ shown' = None
    /\ UNCHANGED <<dev, scene, next, polled, settings, network, asked, active, main>>

BackToMenu ==
    /\ Pressed("browser") /\ page = "gateways"
    /\ Asks("menu")
    /\ UNCHANGED <<settings, network, browser, main>>

\* A request ends: a list, an error of any kind, or 8 seconds.  The browser may
\* be gone, or on another page, by then.  The gateways are the repository's: the
\* "servers" of their answer is always a list.
Answer(h) ==
    /\ asked[h] > 0
    /\ asked' = [asked EXCEPT ![h] = @ - 1]
    /\ UNCHANGED <<dev, scene, next, polled, settings, network, page, active, main>>
    /\ \E list \in {None} \cup [of : {h}, cards : SUBSET (Servers \cup {Blank})] :
          IF scene = "browser"
          THEN Fetched([host |-> h, scheme |-> TRUE], list)
          ELSE UNCHANGED <<status, shown>>

\* Mistaken: a card with no address is joined too.
JoinBlank(s) ==
    /\ Pressed("browser") /\ status = "found" /\ s \in shown.cards
    /\ wsUrl' = s
    /\ helloName' = playerName
    /\ socket' \in NewSocket(s) /\ online' = FALSE
    /\ Asks("main")
    /\ UNCHANGED <<settings, autoConnect, browser, main>>

\* Mistaken: the name is left as NetworkManager had it.
JoinNameless(s) ==
    /\ Pressed("browser") /\ status = "found" /\ s \in shown.cards \ {Blank}
    /\ wsUrl' = s
    /\ socket' \in NewSocket(s) /\ online' = FALSE
    /\ Asks("main")
    /\ UNCHANGED <<settings, autoConnect, helloName, browser, main>>

\* Mistaken: the browser stays until there is a connection.
JoinStays(s) ==
    /\ Pressed("browser") /\ status = "found" /\ s \in shown.cards \ {Blank}
    /\ wsUrl' = s
    /\ helloName' = playerName
    /\ socket' \in NewSocket(s) /\ online' = FALSE
    /\ UNCHANGED <<dev, scene, next, polled, asked, settings, autoConnect, browser, main>>

\* A card with no address cannot be joined.
Join(s) ==
    /\ Pressed("browser") /\ status = "found" /\ s \in shown.cards \ {Blank}
    /\ wsUrl' = s
    /\ helloName' = playerName
    /\ socket' \in NewSocket(s) /\ online' = FALSE
    /\ Asks("main")
    /\ UNCHANGED <<settings, autoConnect, browser, main>>

(* NetworkManager._process *)

\* Every frame polls once; with a scene to come it is the last of the old scene.
Frame ==
    /\ scene # "boot" /\ ~polled
    /\ polled' = (next # "none")
    /\ UNCHANGED <<dev, scene, next, settings, autoConnect, wsUrl, helloName, asked, browser>>

Connecting ==
    /\ Frame /\ Is("connecting")
    /\ \E state \in {"connecting", "open", "closing", "closed"} : socket' = [socket EXCEPT !.state = state]
    /\ UNCHANGED <<online, main>>

\* Mistaken: a hello in every frame.
OpenAlways ==
    /\ Frame /\ Is("open")
    /\ online' = TRUE
    /\ socket' = [socket EXCEPT !.hellos = IF @ < 2 THEN @ + 1 ELSE @, !.name = helloName]
    /\ UNCHANGED main

\* The first frame that finds the socket open says hello, unless polling has just
\* closed it; a later one may read the welcome, which only the main scene hears.
Open ==
    /\ Frame /\ Is("open")
    /\ online' = TRUE
    /\ \E state \in {"open", "closing", "closed"}, welcome \in BOOLEAN :
          LET greets == ~online /\ state = "open" IN
          /\ welcome => socket.hellos > 0 /\ socket.got = "nothing"
          /\ socket' = [socket EXCEPT !.state = state,
                            !.hellos = IF greets THEN @ + 1 ELSE @,
                            !.name = IF greets THEN helloName ELSE @,
                            !.got = IF welcome THEN "welcome" ELSE @]
          /\ world' = IF welcome /\ scene = "main" THEN wsUrl ELSE world
    /\ UNCHANGED <<debug, hud>>

\* A socket that is closing is neither polled nor reported: it stays so.
Closing == Frame /\ Is("closing") /\ UNCHANGED <<online, socket, main>>

\* The loss of a connection is told once, to the debug line; a client that retries
\* makes a new socket when its time has come.
Closed ==
    /\ Frame /\ Is("closed")
    /\ online' = FALSE
    /\ hud' = IF online /\ scene = "main" THEN "disconnected" ELSE hud
    /\ socket' \in IF autoConnect THEN {socket} \cup NewSocket(wsUrl) ELSE {socket}
    /\ UNCHANGED <<debug, world>>

NoSocketYet == Frame /\ socket = None /\ UNCHANGED <<socket, online, main>>

Process == Connecting \/ Open \/ Closing \/ Closed \/ NoSocketYet

(* The debug line of the main scene *)

\* F12.  The line keeps what it said while it was not seen.
ToggleDebug ==
    /\ scene = "main"
    /\ debug' = ~debug
    /\ UNCHANGED <<dev, scene, next, polled, settings, network, asked, browser, hud, world>>

\* Mistaken: the flag of NetworkManager is shown.
ShowNoticed ==
    /\ scene = "main" /\ debug
    /\ hud' = IF online THEN "online" ELSE "offline"
    /\ UNCHANGED <<dev, scene, next, polled, settings, network, asked, browser, debug, world>>

\* main._process: every fifteenth frame the line that is seen is written anew.
ShowState ==
    /\ scene = "main" /\ debug
    /\ hud' = IF Is("open") THEN "online" ELSE "offline"
    /\ UNCHANGED <<dev, scene, next, polled, settings, network, asked, browser, debug, world>>

Ready == NetworkReady \/ SettingsReady \/ MenuReady \/ BrowserReady \/ MainReady
Player ==
    \/ \E n \in Names \cup {NoName} : SetName(n)
    \/ \E url \in Urls : Browse(url)
    \/ \E s \in Servers \cup {Blank} : Join(s)
    \/ Play \/ BackToGateways \/ BackToMenu \/ ToggleDebug

Next == Process \/ ShowState \/ Ready \/ Player \/ \E h \in Hosts : Answer(h)

Spec == Init /\ [][Next]_vars

\* The engine runs frames and scenes; an HTTP request has its time limit.
FairSpec ==
    /\ Spec
    /\ WF_vars(Process) /\ WF_vars(ShowState) /\ WF_vars(Ready)
    /\ \A h \in Hosts : WF_vars(Answer(h))

-----------------------------------------------------------------------------
(* What is promised *)

TypeOK ==
    /\ dev \in BOOLEAN /\ polled \in BOOLEAN /\ settingsRead \in BOOLEAN
    /\ scene \in {"boot", "menu", "browser", "main"}
    /\ next \in {"network", "settings", "menu", "browser", "main", "none"}
    /\ playerName \in Called /\ helloName \in Called
    /\ autoConnect \in BOOLEAN /\ online \in BOOLEAN
    /\ wsUrl \in Servers \cup {Local}
    /\ socket \in Sockets \cup {None}
    /\ asked \in [Hosts -> 0 .. MaxFetches]
    /\ page \in {"gateways", "servers", "none"}
    /\ active \in Urls \cup {None}
    /\ status \in {"contacting", "found", "error", "none"}
    /\ shown \in Lists \cup {None}
    /\ debug \in BOOLEAN
    /\ hud \in {"connecting", "disconnected", "online", "offline", "none"}
    /\ world \in Servers \cup {Local, None}

(***************************************************************************)
(* A socket that is open and noticed has said hello exactly once, and with the *)
(* name the player has in Settings, which is not empty, when the player came    *)
(* through the menu (_connected in _process, player_name in _on_join and        *)
(* _on_browse, _on_socket_connected).                                          *)
(***************************************************************************)
Introduced ==
    socket # None =>
        /\ socket.hellos <= 1
        /\ online /\ Is("open") => socket.hellos = 1
        /\ socket.hellos = 1 /\ ~dev => socket.name = playerName /\ playerName # NoName

(***************************************************************************)
(* The list on the page is of the gateway the page names, however late the     *)
(* answers to earlier requests come (the guard of _on_servers_fetched).        *)
(***************************************************************************)
ShowsActive ==
    /\ shown # None => page = "servers" /\ shown.of = active.host
    /\ page = "gateways" => status = "none"

(***************************************************************************)
(* A welcome is never read before the main scene is there to hear it, so the   *)
(* world that is shown is that of the server that was joined (connect_to_server *)
(* before change_scene_to_file, _handle_packet).                               *)
(***************************************************************************)
WelcomeHeard ==
    socket # None =>
        /\ socket.url = wsUrl
        /\ socket.got = "welcome" => world = wsUrl

(***************************************************************************)
(* The inductive invariant of the proofs.  NetworkManager asks Settings before  *)
(* Settings has read anything, so a client never retries; there is no socket    *)
(* outside the main scene and the frame before it, none of them is read by then, *)
(* and the name is settled when the browser is left.                            *)
(***************************************************************************)
Wired ==
    /\ ~autoConnect
    /\ next \in {"network", "settings"} => scene = "boot"
    /\ next = "network" => ~settingsRead
    /\ scene = "main" => next = "none"
    /\ scene = "browser" \/ next = "browser" => playerName # NoName
    /\ scene = "main" \/ next = "main" => dev \/ (helloName = playerName /\ playerName # NoName)
    /\ socket # None => scene = "main" \/ next = "main"
    /\ Is("open") => scene = "main" \/ polled
    /\ online => scene = "main"
Greeting ==
    /\ socket # None /\ socket.hellos > 0 => scene = "main"
    /\ Is("connecting") => socket.hellos = 0 /\ ~online
    /\ Is("open") /\ ~online => socket.hellos = 0
    /\ socket # None /\ socket.hellos = 0 => socket.got = "nothing"
Found == status = "found" => shown # None
ClientInv ==
    /\ TypeOK
    /\ Wired
    /\ Greeting
    /\ Found
    /\ Introduced
    /\ ShowsActive
    /\ WelcomeHeard

(***************************************************************************)
(* Nobody looks at "Contacting gateway..." for ever: the answer, or the error,  *)
(* comes under the very name the browser waits for (normalize_gateway_url).     *)
(***************************************************************************)
Settles == status = "contacting" ~> status # "contacting"

(***************************************************************************)
(* A player who keeps the debug display on is told of a connection that is      *)
(* gone, however it went: also of one that stays in its closing, which          *)
(* NetworkManager never notices (is_connected_to_server in main._process, not   *)
(* _connected).                                                                *)
(***************************************************************************)
LossShown == debug /\ (Is("closing") \/ Is("closed")) ~> ~debug \/ hud = "offline"

=============================================================================
