----------------------- MODULE ClientConnectionProofs -----------------------
(* What TLAPS proves of ClientConnection, for any gateways, servers and names. *)
EXTENDS ClientConnection, TLAPS

LEMMA InitInv == Init => ClientInv
<1> SUFFICES ASSUME Init PROVE ClientInv
    OBVIOUS
<1> USE ClientAssumption DEF ClientAssumption, Init
<1>1. TypeOK
  <2>1. asked \in [Hosts -> 0 .. MaxFetches]
    OBVIOUS
  <2>2. dev \in BOOLEAN /\ polled \in BOOLEAN /\ settingsRead \in BOOLEAN /\ autoConnect \in BOOLEAN /\ online \in BOOLEAN
    OBVIOUS
  <2>3. playerName \in Called /\ helloName \in Called BY DEF Called
  <2> QED BY <2>1, <2>2, <2>3 DEF TypeOK
<1>2. Wired /\ Greeting /\ Found BY DEF Wired, Greeting, Found, Is
<1>3. Introduced /\ ShowsActive /\ WelcomeHeard BY DEF Introduced, ShowsActive, WelcomeHeard
<1> QED BY <1>1, <1>2, <1>3 DEF ClientInv

(* What a new socket is like. *)
LEMMA NewSocketIs ==
    ASSUME NEW url \in Servers \cup {Local}, NEW s \in NewSocket(url)
    PROVE  /\ s \in Sockets
           /\ s.url = url /\ s.state \in {"connecting", "closed"}
           /\ s.hellos = 0 /\ s.name = DevName /\ s.got = "nothing"
<1>1. s.url = url /\ s.state \in {"connecting", "closed"} /\ s.hellos = 0 /\ s.name = DevName /\ s.got = "nothing"
    BY DEF NewSocket
<1>2. s \in [url : Servers \cup {Local}, state : {"connecting", "closed"}, hellos : {0}, name : {DevName}, got : {"nothing"}]
    BY DEF NewSocket
<1>3. s \in Sockets
    BY <1>2 DEF Sockets, Called
<1> QED BY <1>1, <1>3

(* A frame polls once, and leaves the rest of the client alone. *)
LEMMA FrameIs ==
    ASSUME Frame
    PROVE  /\ scene # "boot" /\ ~polled /\ polled' \in BOOLEAN
           /\ next # "none" => polled'
           /\ dev' = dev /\ scene' = scene /\ next' = next
           /\ playerName' = playerName /\ settingsRead' = settingsRead
           /\ autoConnect' = autoConnect /\ wsUrl' = wsUrl /\ helloName' = helloName
           /\ asked' = asked
           /\ page' = page /\ active' = active /\ status' = status /\ shown' = shown
<1>1. polled' = (next # "none") BY DEF Frame
<1>2. polled' \in BOOLEAN /\ (next # "none" => polled') BY <1>1
<1> QED BY <1>2 DEF Frame, settings, browser

LEMMA NetworkReadyKeeps ==
    ASSUME ClientInv, NetworkReady
    PROVE  ClientInv'
<1> USE ClientAssumption DEF
    ClientAssumption, ClientInv, IsDev, Is, Pressed, Asks, settings, network, browser, main, NewSocket, Sockets
<1>1. TypeOK' BY DEF TypeOK, Wired, Found, NetworkReady
<1>2. Wired' BY DEF TypeOK, Wired, NetworkReady
<1>3. Greeting' BY DEF TypeOK, Wired, Greeting, NetworkReady
<1>4. Found' BY DEF TypeOK, Found, NetworkReady
<1>5. Introduced' BY DEF TypeOK, Wired, Greeting, Introduced, NetworkReady
<1>6. ShowsActive' BY DEF TypeOK, ShowsActive, NetworkReady
<1>7. WelcomeHeard' BY DEF TypeOK, Wired, Greeting, WelcomeHeard, NetworkReady
<1> QED BY <1>1, <1>2, <1>3, <1>4, <1>5, <1>6, <1>7

LEMMA SettingsReadyKeeps ==
    ASSUME ClientInv, SettingsReady
    PROVE  ClientInv'
<1> USE ClientAssumption DEF
    ClientAssumption, ClientInv, IsDev, Is, Pressed, Asks, settings, network, browser, main
<1>1. TypeOK' BY DEF TypeOK, Wired, Found, SettingsReady
<1>2. Wired' BY DEF TypeOK, Wired, SettingsReady
<1>3. Greeting' BY DEF TypeOK, Wired, Greeting, SettingsReady
<1>4. Found' BY DEF TypeOK, Found, SettingsReady
<1>5. Introduced' BY DEF TypeOK, Wired, Greeting, Introduced, SettingsReady
<1>6. ShowsActive' BY DEF TypeOK, ShowsActive, SettingsReady
<1>7. WelcomeHeard' BY DEF TypeOK, Wired, Greeting, WelcomeHeard, SettingsReady
<1> QED BY <1>1, <1>2, <1>3, <1>4, <1>5, <1>6, <1>7

LEMMA MenuReadyKeeps ==
    ASSUME ClientInv, MenuReady
    PROVE  ClientInv'
<1> USE ClientAssumption DEF
    ClientAssumption, ClientInv, IsDev, Is, Pressed, Asks, settings, network, browser, main
<1>1. TypeOK'
  <2>1. (/\ dev \in BOOLEAN
         /\ polled \in BOOLEAN
         /\ settingsRead \in BOOLEAN
         /\ autoConnect \in BOOLEAN
         /\ online \in BOOLEAN)'
      BY DEF TypeOK, Wired, Found, MenuReady
  <2>2. (scene \in {"boot", "menu", "browser", "main"})' BY DEF TypeOK, Wired, Found, MenuReady
  <2>3. (next \in {"network", "settings", "menu", "browser", "main", "none"})'
      BY DEF TypeOK, Wired, Found, MenuReady
  <2>4. (playerName \in Called /\ helloName \in Called)'
      BY DEF TypeOK, Wired, Found, MenuReady
  <2>5. (wsUrl \in Servers \cup {Local})' BY DEF TypeOK, Wired, Found, MenuReady
  <2>6. (socket \in Sockets \cup {None})' BY DEF TypeOK, Wired, Found, MenuReady
  <2>7. (asked \in [Hosts -> 0 .. MaxFetches])' BY DEF TypeOK, Wired, Found, MenuReady
  <2>8. (/\ page \in {"gateways", "servers", "none"}
         /\ status \in {"contacting", "found", "error", "none"}
         /\ debug \in BOOLEAN
         /\ hud \in {"connecting", "disconnected", "online", "offline", "none"})'
      BY DEF TypeOK, Wired, Found, MenuReady
  <2>9. (active \in Urls \cup {None})' BY DEF TypeOK, Wired, Found, MenuReady
  <2>10. (shown \in Lists \cup {None})' BY DEF TypeOK, Wired, Found, MenuReady
  <2>11. (world \in Servers \cup {Local, None})' BY DEF TypeOK, Wired, Found, MenuReady
  <2> QED BY <2>1, <2>2, <2>3, <2>4, <2>5, <2>6, <2>7, <2>8, <2>9, <2>10, <2>11 DEF TypeOK
<1>2. Wired' BY DEF TypeOK, Wired, MenuReady
<1>3. Greeting' BY DEF TypeOK, Wired, Greeting, MenuReady
<1>4. Found' BY DEF TypeOK, Found, MenuReady
<1>5. Introduced' BY DEF TypeOK, Wired, Greeting, Introduced, MenuReady
<1>6. ShowsActive' BY DEF TypeOK, ShowsActive, MenuReady
<1>7. WelcomeHeard' BY DEF TypeOK, Wired, Greeting, WelcomeHeard, MenuReady
<1> QED BY <1>1, <1>2, <1>3, <1>4, <1>5, <1>6, <1>7

LEMMA BrowserReadyKeeps ==
    ASSUME ClientInv, BrowserReady
    PROVE  ClientInv'
<1> USE ClientAssumption DEF
    ClientAssumption, ClientInv, IsDev, Is, Pressed, Asks, settings, network, browser, main
<1>1. TypeOK' BY DEF TypeOK, Wired, Found, BrowserReady
<1>2. Wired' BY DEF TypeOK, Wired, BrowserReady
<1>3. Greeting' BY DEF TypeOK, Wired, Greeting, BrowserReady
<1>4. Found' BY DEF TypeOK, Found, BrowserReady
<1>5. Introduced' BY DEF TypeOK, Wired, Greeting, Introduced, BrowserReady
<1>6. ShowsActive' BY DEF TypeOK, ShowsActive, BrowserReady
<1>7. WelcomeHeard' BY DEF TypeOK, Wired, Greeting, WelcomeHeard, BrowserReady
<1> QED BY <1>1, <1>2, <1>3, <1>4, <1>5, <1>6, <1>7

LEMMA MainReadyKeeps ==
    ASSUME ClientInv, MainReady
    PROVE  ClientInv'
<1> USE ClientAssumption DEF
    ClientAssumption, ClientInv, IsDev, Is, Pressed, Asks, settings, network, browser, main
<1>a. wsUrl \in Servers \cup {Local}
    BY DEF TypeOK
<1>b. \/ socket # None /\ ~Is("closed") /\ socket' = socket /\ online' = online
      \/ /\ socket' \in Sockets /\ socket'.url = wsUrl /\ socket'.state \in {"connecting", "closed"}
         /\ socket'.hellos = 0 /\ socket'.name = DevName /\ socket'.got = "nothing"
         /\ online' = FALSE
    BY <1>a, NewSocketIs DEF MainReady
<1>c. scene' = "main" /\ next' = "none" /\ polled' = FALSE /\ wsUrl' = wsUrl /\ world' = world
      /\ dev' = dev /\ helloName' = helloName /\ playerName' = playerName /\ autoConnect' = autoConnect
      /\ settingsRead' = settingsRead /\ next = "main"
    BY DEF MainReady
<1>1. TypeOK'
  <2>1. (/\ dev \in BOOLEAN
         /\ polled \in BOOLEAN
         /\ settingsRead \in BOOLEAN
         /\ autoConnect \in BOOLEAN
         /\ online \in BOOLEAN)'
      BY DEF TypeOK, Wired, Found, MainReady
  <2>2. (scene \in {"boot", "menu", "browser", "main"})' BY DEF TypeOK, Wired, Found, MainReady
  <2>3. (next \in {"network", "settings", "menu", "browser", "main", "none"})'
      BY DEF TypeOK, Wired, Found, MainReady
  <2>4. (playerName \in Called /\ helloName \in Called)'
      BY DEF TypeOK, Wired, Found, MainReady
  <2>5. (wsUrl \in Servers \cup {Local})' BY DEF TypeOK, Wired, Found, MainReady
  <2>6. (socket \in Sockets \cup {None})' BY <1>b DEF TypeOK
  <2>7. (asked \in [Hosts -> 0 .. MaxFetches])' BY DEF TypeOK, Wired, Found, MainReady
  <2>8. (/\ page \in {"gateways", "servers", "none"}
         /\ status \in {"contacting", "found", "error", "none"}
         /\ debug \in BOOLEAN
         /\ hud \in {"connecting", "disconnected", "online", "offline", "none"})'
      BY DEF TypeOK, Wired, Found, MainReady
  <2>9. (active \in Urls \cup {None})' BY DEF TypeOK, Wired, Found, MainReady
  <2>10. (shown \in Lists \cup {None})' BY DEF TypeOK, Wired, Found, MainReady
  <2>11. (world \in Servers \cup {Local, None})' BY DEF TypeOK, Wired, Found, MainReady
  <2> QED BY <2>1, <2>2, <2>3, <2>4, <2>5, <2>6, <2>7, <2>8, <2>9, <2>10, <2>11 DEF TypeOK
<1>2. Wired' BY <1>b, <1>c DEF TypeOK, Wired, MainReady
<1>3. Greeting' BY <1>b, <1>c DEF Greeting, Wired
<1>4. Found' BY DEF TypeOK, Found, MainReady
<1>5. Introduced' BY <1>b, <1>c DEF Greeting, Introduced, Wired
<1>6. ShowsActive' BY DEF TypeOK, ShowsActive, MainReady
<1>7. WelcomeHeard' BY <1>b, <1>c DEF WelcomeHeard
<1> QED BY <1>1, <1>2, <1>3, <1>4, <1>5, <1>6, <1>7

LEMMA SetNameKeeps ==
    ASSUME NEW n \in Names \cup {NoName}, ClientInv, SetName(n)
    PROVE  ClientInv'
<1> USE ClientAssumption DEF
    ClientAssumption, ClientInv, IsDev, Is, Pressed, Asks, settings, network, browser, main
<1>1. TypeOK'
  <2>1. playerName' \in Called BY DEF TypeOK, Called, SetName
  <2>2. scene' = scene /\ next' \in {"browser", "none"} BY DEF SetName
  <2>3. UNCHANGED <<dev, polled, settingsRead, network, asked, browser, main>> BY DEF SetName
  <2> QED BY <2>1, <2>2, <2>3 DEF TypeOK
<1>2. Wired' BY DEF TypeOK, Wired, SetName
<1>3. Greeting' BY DEF TypeOK, Wired, Greeting, SetName
<1>4. Found' BY DEF TypeOK, Found, SetName
<1>5. Introduced' BY DEF TypeOK, Wired, Greeting, Introduced, SetName
<1>6. ShowsActive' BY DEF TypeOK, ShowsActive, SetName
<1>7. WelcomeHeard' BY DEF TypeOK, Wired, Greeting, WelcomeHeard, SetName
<1> QED BY <1>1, <1>2, <1>3, <1>4, <1>5, <1>6, <1>7

LEMMA PlayKeeps ==
    ASSUME ClientInv, Play
    PROVE  ClientInv'
<1> USE ClientAssumption DEF
    ClientAssumption, ClientInv, IsDev, Is, Pressed, Asks, settings, network, browser, main
<1>1. TypeOK'
  <2>1. playerName' \in Called BY DEF TypeOK, Called, Play
  <2>2. scene' = scene /\ next' \in {"browser", "none"} BY DEF Play
  <2>3. UNCHANGED <<dev, polled, settingsRead, network, asked, browser, main>> BY DEF Play
  <2> QED BY <2>1, <2>2, <2>3 DEF TypeOK
<1>2. Wired' BY DEF TypeOK, Wired, Play
<1>3. Greeting' BY DEF TypeOK, Wired, Greeting, Play
<1>4. Found' BY DEF TypeOK, Found, Play
<1>5. Introduced' BY DEF TypeOK, Wired, Greeting, Introduced, Play
<1>6. ShowsActive' BY DEF TypeOK, ShowsActive, Play
<1>7. WelcomeHeard' BY DEF TypeOK, Wired, Greeting, WelcomeHeard, Play
<1> QED BY <1>1, <1>2, <1>3, <1>4, <1>5, <1>6, <1>7

LEMMA BrowseKeeps ==
    ASSUME NEW url \in Urls, ClientInv, Browse(url)
    PROVE  ClientInv'
<1> USE ClientAssumption DEF
    ClientAssumption, ClientInv, IsDev, Is, Pressed, Asks, settings, network, browser, main, Lists, Urls, Normalize, Fetched
<1>1. TypeOK'
  <2>1. (/\ dev \in BOOLEAN
         /\ polled \in BOOLEAN
         /\ settingsRead \in BOOLEAN
         /\ autoConnect \in BOOLEAN
         /\ online \in BOOLEAN)'
      BY DEF TypeOK, Wired, Found, Browse
  <2>2. (scene \in {"boot", "menu", "browser", "main"})' BY DEF TypeOK, Wired, Found, Browse
  <2>3. (next \in {"network", "settings", "menu", "browser", "main", "none"})'
      BY DEF TypeOK, Wired, Found, Browse
  <2>4. (playerName \in Called /\ helloName \in Called)'
      BY DEF TypeOK, Wired, Found, Browse
  <2>5. (wsUrl \in Servers \cup {Local})' BY DEF TypeOK, Wired, Found, Browse
  <2>6. (socket \in Sockets \cup {None})' BY DEF TypeOK, Wired, Found, Browse
  <2>7. (asked \in [Hosts -> 0 .. MaxFetches])' BY DEF TypeOK, Wired, Found, Browse
  <2>8. (/\ page \in {"gateways", "servers", "none"}
         /\ status \in {"contacting", "found", "error", "none"}
         /\ debug \in BOOLEAN
         /\ hud \in {"connecting", "disconnected", "online", "offline", "none"})'
      BY DEF TypeOK, Wired, Found, Browse
  <2>9. (active \in Urls \cup {None})' BY DEF TypeOK, Wired, Found, Browse
  <2>10. (shown \in Lists \cup {None})' BY DEF TypeOK, Wired, Found, Browse
  <2>11. (world \in Servers \cup {Local, None})' BY DEF TypeOK, Wired, Found, Browse
  <2> QED BY <2>1, <2>2, <2>3, <2>4, <2>5, <2>6, <2>7, <2>8, <2>9, <2>10, <2>11 DEF TypeOK
<1>2. Wired' BY DEF TypeOK, Wired, Browse
<1>3. Greeting' BY DEF TypeOK, Wired, Greeting, Browse
<1>4. Found' BY DEF TypeOK, Found, Browse
<1>5. Introduced' BY DEF TypeOK, Wired, Greeting, Introduced, Browse
<1>6. ShowsActive' BY DEF TypeOK, ShowsActive, Browse
<1>7. WelcomeHeard' BY DEF TypeOK, Wired, Greeting, WelcomeHeard, Browse
<1> QED BY <1>1, <1>2, <1>3, <1>4, <1>5, <1>6, <1>7

LEMMA BackToGatewaysKeeps ==
    ASSUME ClientInv, BackToGateways
    PROVE  ClientInv'
<1> USE ClientAssumption DEF
    ClientAssumption, ClientInv, IsDev, Is, Pressed, Asks, settings, network, browser, main
<1>1. TypeOK' BY DEF TypeOK, Wired, Found, BackToGateways
<1>2. Wired' BY DEF TypeOK, Wired, BackToGateways
<1>3. Greeting' BY DEF TypeOK, Wired, Greeting, BackToGateways
<1>4. Found' BY DEF TypeOK, Found, BackToGateways
<1>5. Introduced' BY DEF TypeOK, Wired, Greeting, Introduced, BackToGateways
<1>6. ShowsActive' BY DEF TypeOK, ShowsActive, BackToGateways
<1>7. WelcomeHeard' BY DEF TypeOK, Wired, Greeting, WelcomeHeard, BackToGateways
<1> QED BY <1>1, <1>2, <1>3, <1>4, <1>5, <1>6, <1>7

LEMMA BackToMenuKeeps ==
    ASSUME ClientInv, BackToMenu
    PROVE  ClientInv'
<1> USE ClientAssumption DEF
    ClientAssumption, ClientInv, IsDev, Is, Pressed, Asks, settings, network, browser, main
<1>1. TypeOK' BY DEF TypeOK, Wired, Found, BackToMenu
<1>2. Wired' BY DEF TypeOK, Wired, BackToMenu
<1>3. Greeting' BY DEF TypeOK, Wired, Greeting, BackToMenu
<1>4. Found' BY DEF TypeOK, Found, BackToMenu
<1>5. Introduced' BY DEF TypeOK, Wired, Greeting, Introduced, BackToMenu
<1>6. ShowsActive' BY DEF TypeOK, ShowsActive, BackToMenu
<1>7. WelcomeHeard' BY DEF TypeOK, Wired, Greeting, WelcomeHeard, BackToMenu
<1> QED BY <1>1, <1>2, <1>3, <1>4, <1>5, <1>6, <1>7

LEMMA AnswerKeeps ==
    ASSUME NEW h \in Hosts, ClientInv, Answer(h)
    PROVE  ClientInv'
<1> USE ClientAssumption DEF
    ClientAssumption, ClientInv, IsDev, Is, Pressed, Asks, settings, network, browser, main, Lists, Urls, Normalize, Fetched
<1>1. TypeOK' BY DEF TypeOK, Wired, Found, Answer
<1>2. Wired' BY DEF TypeOK, Wired, Answer
<1>3. Greeting' BY DEF TypeOK, Wired, Greeting, Answer
<1>4. Found' BY DEF TypeOK, Found, Answer
<1>5. Introduced' BY DEF TypeOK, Wired, Greeting, Introduced, Answer
<1>6. ShowsActive' BY DEF TypeOK, ShowsActive, Answer
<1>7. WelcomeHeard' BY DEF TypeOK, Wired, Greeting, WelcomeHeard, Answer
<1> QED BY <1>1, <1>2, <1>3, <1>4, <1>5, <1>6, <1>7

LEMMA JoinKeeps ==
    ASSUME NEW s \in Servers \cup {Blank}, ClientInv, Join(s)
    PROVE  ClientInv'
<1> USE ClientAssumption DEF
    ClientAssumption, ClientInv, IsDev, Is, Pressed, Asks, settings, network, browser, main, Lists
<1>a. s \in Servers
    BY DEF TypeOK, Found, Join
<1>b. /\ socket' \in Sockets /\ socket'.url = s /\ socket'.state \in {"connecting", "closed"}
      /\ socket'.hellos = 0 /\ socket'.name = DevName /\ socket'.got = "nothing"
    BY <1>a, NewSocketIs DEF Join
<1>1. TypeOK'
  <2>1. (/\ dev \in BOOLEAN
         /\ polled \in BOOLEAN
         /\ settingsRead \in BOOLEAN
         /\ autoConnect \in BOOLEAN
         /\ online \in BOOLEAN)'
      BY DEF TypeOK, Wired, Found, Join
  <2>2. (scene \in {"boot", "menu", "browser", "main"})' BY DEF TypeOK, Wired, Found, Join
  <2>3. (next \in {"network", "settings", "menu", "browser", "main", "none"})'
      BY DEF TypeOK, Wired, Found, Join
  <2>4. (playerName \in Called /\ helloName \in Called)'
      BY DEF TypeOK, Wired, Found, Join
  <2>5. (wsUrl \in Servers \cup {Local})' BY <1>a DEF TypeOK, Wired, Found, Join
  <2>6. (socket \in Sockets \cup {None})' BY <1>b DEF TypeOK
  <2>7. (asked \in [Hosts -> 0 .. MaxFetches])' BY DEF TypeOK, Wired, Found, Join
  <2>8. (/\ page \in {"gateways", "servers", "none"}
         /\ status \in {"contacting", "found", "error", "none"}
         /\ debug \in BOOLEAN
         /\ hud \in {"connecting", "disconnected", "online", "offline", "none"})'
      BY DEF TypeOK, Wired, Found, Join
  <2>9. (active \in Urls \cup {None})' BY DEF TypeOK, Wired, Found, Join
  <2>10. (shown \in Lists \cup {None})' BY DEF TypeOK, Wired, Found, Join
  <2>11. (world \in Servers \cup {Local, None})' BY DEF TypeOK, Wired, Found, Join
  <2> QED BY <2>1, <2>2, <2>3, <2>4, <2>5, <2>6, <2>7, <2>8, <2>9, <2>10, <2>11 DEF TypeOK
<1>2. Wired' BY <1>b DEF TypeOK, Wired, Join
<1>3. Greeting' BY <1>b DEF Greeting, Join
<1>4. Found' BY DEF TypeOK, Found, Join
<1>5. Introduced' BY <1>b DEF Introduced, Join
<1>6. ShowsActive' BY DEF TypeOK, ShowsActive, Join
<1>7. WelcomeHeard' BY <1>b DEF WelcomeHeard, Join
<1> QED BY <1>1, <1>2, <1>3, <1>4, <1>5, <1>6, <1>7

LEMMA ConnectingKeeps ==
    ASSUME ClientInv, Connecting
    PROVE  ClientInv'
<1> USE ClientAssumption DEF ClientAssumption, ClientInv, IsDev, Is, Pressed, Asks, main, Sockets
<1>0. Frame BY DEF Connecting
<1>1. TypeOK' BY <1>0, FrameIs DEF TypeOK, Wired, Found, Connecting
<1>2. Wired'
  <2>1. (Is("open") => scene = "main" \/ polled)'
    BY <1>0, FrameIs DEF Wired, Connecting
  <2>2. online' = online /\ socket # None
    BY DEF Connecting
  <2>3. ~online BY DEF Greeting, Connecting
  <2> QED BY <1>0, <2>1, <2>2, <2>3, FrameIs DEF Wired
<1>3. Greeting' BY <1>0, FrameIs DEF TypeOK, Wired, Greeting, Connecting
<1>4. Found' BY <1>0, FrameIs DEF TypeOK, Found, Connecting
<1>5. Introduced' BY <1>0, FrameIs DEF TypeOK, Wired, Greeting, Introduced, Connecting
<1>6. ShowsActive' BY <1>0, FrameIs DEF TypeOK, ShowsActive, Connecting
<1>7. WelcomeHeard' BY <1>0, FrameIs DEF TypeOK, Wired, Greeting, WelcomeHeard, Connecting
<1> QED BY <1>1, <1>2, <1>3, <1>4, <1>5, <1>6, <1>7

LEMMA OpenKeeps ==
    ASSUME ClientInv, Open
    PROVE  ClientInv'
<1> USE ClientAssumption DEF ClientAssumption, ClientInv, IsDev, Is, Pressed, Asks, main, Sockets
<1>0. Frame BY DEF Open
<1>1. TypeOK'
  <2>1. (/\ dev \in BOOLEAN
         /\ polled \in BOOLEAN
         /\ settingsRead \in BOOLEAN
         /\ autoConnect \in BOOLEAN
         /\ online \in BOOLEAN)'
      BY <1>0, FrameIs DEF TypeOK, Wired, Found, Open
  <2>2. (scene \in {"boot", "menu", "browser", "main"})'
      BY <1>0, FrameIs DEF TypeOK, Wired, Found, Open
  <2>3. (next \in {"network", "settings", "menu", "browser", "main", "none"})'
      BY <1>0, FrameIs DEF TypeOK, Wired, Found, Open
  <2>4. (playerName \in Called /\ helloName \in Called)'
      BY <1>0, FrameIs DEF TypeOK, Wired, Found, Open
  <2>5. (wsUrl \in Servers \cup {Local})' BY <1>0, FrameIs DEF TypeOK, Wired, Found, Open
  <2>6. (socket \in Sockets \cup {None})'
    <3>1. PICK state \in {"open", "closing", "closed"}, welcome \in BOOLEAN :
             socket' = [socket EXCEPT !.state = state,
                            !.hellos = IF ~online /\ state = "open" THEN @ + 1 ELSE @,
                            !.name = IF ~online /\ state = "open" THEN helloName ELSE @,
                            !.got = IF welcome THEN "welcome" ELSE @]
      BY DEF Open
    <3>2. socket \in Sockets /\ helloName \in Called
      BY DEF Open, TypeOK
    <3>3. socket.hellos \in 0 .. 1 /\ (~online => socket.hellos = 0)
      BY <3>2 DEF Greeting, Introduced, Open
    <3>4. PICK greeted \in 0 .. 2, called \in Called, read \in {"nothing", "welcome"} :
             socket' = [socket EXCEPT !.state = state, !.hellos = greeted, !.name = called, !.got = read]
      <4>1. CASE ~online /\ state = "open" /\ welcome
        <5>1. socket.hellos + 1 = 1
          BY <3>3, <4>1
        <5>2. socket' = [socket EXCEPT !.state = state, !.hellos = 1, !.name = helloName, !.got = "welcome"]
          BY <3>1, <5>1, <4>1
        <5>3. 1 \in 0 .. 2 /\ socket.got \in {"nothing", "welcome"}
          BY <3>2
        <5> QED BY <3>2, <5>2, <5>3
      <4>2. CASE ~online /\ state = "open" /\ ~welcome
        <5>1. socket.hellos + 1 = 1
          BY <3>3, <4>2
        <5>2. socket' = [socket EXCEPT !.state = state, !.hellos = 1, !.name = helloName, !.got = socket.got]
          BY <3>1, <5>1, <4>2
        <5>3. 1 \in 0 .. 2 /\ socket.got \in {"nothing", "welcome"}
          BY <3>2
        <5> QED BY <3>2, <5>2, <5>3
      <4>3. CASE ~(~online /\ state = "open") /\ welcome
        BY <3>1, <3>2, <3>3, <4>3
      <4>4. CASE ~(~online /\ state = "open") /\ ~welcome
        BY <3>1, <3>2, <3>3, <4>4
      <4> QED BY <4>1, <4>2, <4>3, <4>4
    <3> HIDE DEF Is, ClientInv
    <3> QED BY <3>2, <3>4
  <2>7. (asked \in [Hosts -> 0 .. MaxFetches])' BY <1>0, FrameIs DEF TypeOK, Wired, Found, Open
  <2>8. (/\ page \in {"gateways", "servers", "none"}
         /\ status \in {"contacting", "found", "error", "none"}
         /\ debug \in BOOLEAN
         /\ hud \in {"connecting", "disconnected", "online", "offline", "none"})'
      BY <1>0, FrameIs DEF TypeOK, Wired, Found, Open
  <2>9. (active \in Urls \cup {None})' BY <1>0, FrameIs DEF TypeOK, Wired, Found, Open
  <2>10. (shown \in Lists \cup {None})' BY <1>0, FrameIs DEF TypeOK, Wired, Found, Open
  <2>11. (world \in Servers \cup {Local, None})' BY <1>0, FrameIs DEF TypeOK, Wired, Found, Open
  <2> QED BY <2>1, <2>2, <2>3, <2>4, <2>5, <2>6, <2>7, <2>8, <2>9, <2>10, <2>11 DEF TypeOK
<1>2. Wired'
  <2>1. scene = "main" /\ next = "none" /\ scene' = "main" /\ next' = "none"
    BY <1>0, FrameIs DEF Wired, Open
  <2> QED BY <1>0, <2>1, FrameIs DEF Wired
<1>3. Greeting' BY <1>0, FrameIs DEF TypeOK, Wired, Greeting, Open
<1>4. Found' BY <1>0, FrameIs DEF TypeOK, Found, Open
<1>5. Introduced' BY <1>0, FrameIs DEF TypeOK, Wired, Greeting, Introduced, Open
<1>6. ShowsActive' BY <1>0, FrameIs DEF TypeOK, ShowsActive, Open
<1>7. WelcomeHeard' BY <1>0, FrameIs DEF TypeOK, Wired, Greeting, WelcomeHeard, Open
<1> QED BY <1>1, <1>2, <1>3, <1>4, <1>5, <1>6, <1>7

LEMMA ClosedKeeps ==
    ASSUME ClientInv, Closed
    PROVE  ClientInv'
<1> USE ClientAssumption DEF
    ClientAssumption, ClientInv, IsDev, Is, Pressed, Asks, main, NewSocket, Sockets
<1>0. Frame BY DEF Closed
<1>1. TypeOK' BY <1>0, FrameIs DEF TypeOK, Wired, Found, Closed
<1>2. Wired' BY <1>0, FrameIs DEF TypeOK, Wired, Closed
<1>3. Greeting' BY <1>0, FrameIs DEF TypeOK, Wired, Greeting, Closed
<1>4. Found' BY <1>0, FrameIs DEF TypeOK, Found, Closed
<1>5. Introduced' BY <1>0, FrameIs DEF TypeOK, Wired, Greeting, Introduced, Closed
<1>6. ShowsActive' BY <1>0, FrameIs DEF TypeOK, ShowsActive, Closed
<1>7. WelcomeHeard' BY <1>0, FrameIs DEF TypeOK, Wired, Greeting, WelcomeHeard, Closed
<1> QED BY <1>1, <1>2, <1>3, <1>4, <1>5, <1>6, <1>7

LEMMA ClosingKeeps ==
    ASSUME ClientInv, Closing
    PROVE  ClientInv'
<1> USE ClientAssumption DEF ClientAssumption, ClientInv, IsDev, Is, Pressed, Asks, main
<1>0. Frame BY DEF Closing
<1>1. TypeOK' BY <1>0, FrameIs DEF TypeOK, Wired, Found, Closing
<1>2. Wired' BY <1>0, FrameIs DEF TypeOK, Wired, Closing
<1>3. Greeting' BY <1>0, FrameIs DEF TypeOK, Wired, Greeting, Closing
<1>4. Found' BY <1>0, FrameIs DEF TypeOK, Found, Closing
<1>5. Introduced' BY <1>0, FrameIs DEF TypeOK, Wired, Greeting, Introduced, Closing
<1>6. ShowsActive' BY <1>0, FrameIs DEF TypeOK, ShowsActive, Closing
<1>7. WelcomeHeard' BY <1>0, FrameIs DEF TypeOK, Wired, Greeting, WelcomeHeard, Closing
<1> QED BY <1>1, <1>2, <1>3, <1>4, <1>5, <1>6, <1>7

(* The debug line and whether it is seen are the business of nothing else. *)
LEMMA DebugKeeps ==
    ASSUME ClientInv, ToggleDebug \/ ShowState
    PROVE  ClientInv'
<1>1. /\ debug' \in BOOLEAN
      /\ hud' \in {"connecting", "disconnected", "online", "offline", "none"}
    BY DEF ToggleDebug, ShowState, ClientInv, TypeOK
<1>2. UNCHANGED <<dev, scene, next, polled, settings, network, asked, browser, world>>
    BY DEF ToggleDebug, ShowState
<1>3. TypeOK'
    BY <1>1, <1>2 DEF ClientInv, TypeOK, settings, network, browser
<1>4. Wired' /\ Greeting' /\ Found'
    BY <1>2 DEF ClientInv, Wired, Greeting, Found, Is, settings, network, browser
<1>5. Introduced' /\ ShowsActive' /\ WelcomeHeard'
    BY <1>2 DEF ClientInv, Introduced, ShowsActive, WelcomeHeard, Is, settings, network, browser
<1> QED BY <1>3, <1>4, <1>5 DEF ClientInv

LEMMA NoSocketYetKeeps ==
    ASSUME ClientInv, NoSocketYet
    PROVE  ClientInv'
<1> USE ClientAssumption DEF ClientAssumption, ClientInv, IsDev, Is, Pressed, Asks, main
<1>0. Frame BY DEF NoSocketYet
<1>1. TypeOK' BY <1>0, FrameIs DEF TypeOK, Wired, Found, NoSocketYet
<1>2. Wired' BY <1>0, FrameIs DEF TypeOK, Wired, NoSocketYet
<1>3. Greeting' BY <1>0, FrameIs DEF TypeOK, Wired, Greeting, NoSocketYet
<1>4. Found' BY <1>0, FrameIs DEF TypeOK, Found, NoSocketYet
<1>5. Introduced' BY <1>0, FrameIs DEF TypeOK, Wired, Greeting, Introduced, NoSocketYet
<1>6. ShowsActive' BY <1>0, FrameIs DEF TypeOK, ShowsActive, NoSocketYet
<1>7. WelcomeHeard' BY <1>0, FrameIs DEF TypeOK, Wired, Greeting, WelcomeHeard, NoSocketYet
<1> QED BY <1>1, <1>2, <1>3, <1>4, <1>5, <1>6, <1>7

LEMMA StepKeeps == ClientInv /\ [Next]_vars => ClientInv'
<1> SUFFICES ASSUME ClientInv, [Next]_vars PROVE ClientInv'
    OBVIOUS
<1>1. CASE Process
    BY <1>1, ConnectingKeeps, OpenKeeps, ClosingKeeps, ClosedKeeps, NoSocketYetKeeps DEF Process
<1>2. CASE Ready
    BY <1>2, NetworkReadyKeeps, SettingsReadyKeeps, MenuReadyKeeps, BrowserReadyKeeps, MainReadyKeeps DEF Ready
<1>3. CASE Player
    BY <1>3, SetNameKeeps, BrowseKeeps, JoinKeeps, PlayKeeps, BackToGatewaysKeeps, BackToMenuKeeps, DebugKeeps DEF Player
<1>4. CASE \E h \in Hosts : Answer(h)
    BY <1>4, AnswerKeeps
<1>5. CASE UNCHANGED vars
    BY <1>5 DEF vars, settings, network, browser, main, ClientInv, TypeOK, Wired, Greeting, Found, Introduced, ShowsActive, WelcomeHeard, Is
<1>6. CASE ShowState
    BY <1>6, DebugKeeps
<1> QED BY <1>1, <1>2, <1>3, <1>4, <1>5, <1>6 DEF Next

(* The inductive invariant, the shape of the state included. *)
THEOREM ClientInvariant == Spec => []ClientInv
BY InitInv, StepKeeps, PTL DEF Spec

(* One hello to a connection, under the name the player has. *)
THEOREM AlwaysIntroduced == Spec => []Introduced
<1>1. ClientInv => Introduced BY DEF ClientInv
<1> QED BY <1>1, ClientInvariant, PTL

(* A page never shows another gateway's list. *)
THEOREM PageIsRight == Spec => []ShowsActive
<1>1. ClientInv => ShowsActive BY DEF ClientInv
<1> QED BY <1>1, ClientInvariant, PTL

(* The welcome finds the main scene, which shows the server that was joined. *)
THEOREM WorldIsRight == Spec => []WelcomeHeard
<1>1. ClientInv => WelcomeHeard BY DEF ClientInv
<1> QED BY <1>1, ClientInvariant, PTL

(* The state keeps its shape: one scene, one socket, one list on the page, and no
   gateway is asked more often than the bound says. *)
THEOREM ClientTypes == Spec => []TypeOK
<1>1. ClientInv => TypeOK BY DEF ClientInv
<1> QED BY <1>1, ClientInvariant, PTL


=============================================================================
