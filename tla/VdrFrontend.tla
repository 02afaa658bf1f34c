---------------------------- MODULE VdrFrontend -----------------------------
(***************************************************************************)
(* The VDR front end (src/vdr-ketlaerfe/libfe.cpp): run_vdr_frontend opens *)
(* a control connection to the VDR server, waits for a client id, plays    *)
(* the server's stream and then serves, in one thread, playback events,    *)
(* control commands (the on-screen display) and remote keys until it is    *)
(* told to stop.  It may be run again and again by the same program (the   *)
(* TV plugin of MMS), and its statics survive from one session to the next.*)
(*                                                                         *)
(* The server, the remote and the playback engine are the environment.     *)
(***************************************************************************)
EXTENDS Integers, Sequences

CONSTANTS
  Windows,        \* the handles of the server's OSD windows
  LocalPowerdown, \* g_bLocalPowerdown: the stand-alone program sets it
  MaxInbox,       \* bound: units the socket holds
  MaxKeys,        \* bound: keys waiting in the IR device
  MaxEvents       \* bound: events waiting in the playback engine

ASSUME ParameterAssumption ==
  LocalPowerdown \in BOOLEAN /\ {MaxInbox, MaxKeys, MaxEvents} \subseteq Nat

VARIABLES
  pc,       \* where run_vdr_frontend is
  conn,     \* conn_fd: "none" (-1), "open", or "stale" (closed, still set)
  clientId, \* a CLIENT-ID was received in this session
  osd,      \* g_hOSD exists
  pb,       \* g_pb is set
  playing,  \* the flow manager runs
  zoom,     \* g_bZoom
  cropped,  \* the video plane shows the zoomed rectangle
  libHeld,  \* this program's reference to libketlaer
  osdSize,  \* osd_width and osd_height; not part of init or deinit
  shown,    \* the windows whose picture is on the screen surface
  irReady,  \* what the last select said of the IR device
  header,   \* osdcmd of handle_control_osdcmd
  server,   \* the server's side: "away", "greeting", "serving", "gone"
  todo,     \* units of the message the server is sending that are not sent
  inbox,    \* units on the way to the client
  wanted,   \* the windows the server has drawn and not closed
  wiped,    \* those of them that a Close of some window has wiped off since
  said,     \* the OSD size the server has set in this session, or "unsaid"
  keys,     \* keys the IR device holds
  events    \* events the playback engine holds

session == <<conn, clientId, osd, pb, playing, libHeld>>
screen  == <<zoom, cropped, osdSize, shown>>
drawn   == <<wanted, wiped, said>>
net     == <<server, todo, inbox, drawn>>
vars    == <<pc, session, screen, irReady, header, net, keys, events>>

-----------------------------------------------------------------------------
(* What travels on the control connection: text lines and, after an OSDCMD *)
(* line, a binary header, then a palette and a bitmap if the header says so*)

Line(t)    == [unit |-> "line", text |-> t]
Sizes      == {"default", "other"}
Header(c, a, p, d) == [cmd |-> c, arg |-> a, palette |-> p, data |-> d]
NoHeader   == Header("none", "none", FALSE, FALSE)

\* arg is the window handle wnd, or the size of OSD_Size.  A Set_RLE may come
\* without a palette.  Nop, Move and Set_YUV only print, as SetPalette does.
Headers    == {Header("Set_RLE", w, p, TRUE) : w \in Windows, p \in BOOLEAN}
                \cup {Header("Close", w, FALSE, FALSE) : w \in Windows}
                \cup {Header("Size", z, FALSE, FALSE) : z \in Sizes}
                \cup {Header("SetPalette", "any", TRUE, FALSE)}
OsdCommand(h) ==
  <<Line("OSDCMD"), [unit |-> "header", osdcmd |-> h]>>
    \o (IF h.palette THEN <<[unit |-> "palette"]>> ELSE <<>>)
    \o (IF h.data THEN <<[unit |-> "bitmap", wnd |-> h.arg]>> ELSE <<>>)

Keys   == {"home", "zoom", "power", "mapped", "unmapped"}
Events == {"FatalError", "Completed", "other"}

LoopPcs    == {"event", "select", "keys"}
ControlPcs == {"line", "header", "palette", "bitmap", "apply"}

Init ==
  /\ pc = "idle"
  /\ conn = "none" /\ clientId = FALSE
  /\ osd = FALSE /\ pb = FALSE /\ playing = FALSE /\ libHeld = FALSE
  /\ zoom = FALSE /\ cropped = FALSE /\ osdSize = "default" /\ shown = {}
  /\ irReady = FALSE /\ header = NoHeader
  /\ server = "away" /\ todo = <<>> /\ inbox = <<>>
  /\ wanted = {} /\ wiped = {} /\ said = "unsaid"
  /\ keys = <<>> /\ events = <<>>

-----------------------------------------------------------------------------
(* init *)

Start ==
  /\ pc = "idle"
  /\ pc' = "connect"
  /\ libHeld' = TRUE
  /\ UNCHANGED <<conn, clientId, osd, pb, playing, screen, irReady,
                 header, net, keys, events>>

NothingDrawn == wanted' = {} /\ wiped' = {} /\ said' = "unsaid"

\* init_connection; on success the front end asks for control.  It has sent
\* nothing before that, so a server that closed already has not refused data
\* and this first write does not raise SIGPIPE.
Connect ==
  /\ pc = "connect"
  /\ pc' = "handshake" /\ conn' = "open"
  /\ clientId' = FALSE
  /\ server' = "greeting" /\ todo' = <<>> /\ inbox' = <<>> /\ NothingDrawn
  /\ UNCHANGED <<osd, pb, playing, libHeld, screen, irReady, header, keys,
                 events>>

\* No such host or no socket leaves conn_fd at -1; a refused connect closes
\* the descriptor and leaves its number behind.
ConnectFails ==
  /\ pc = "connect"
  /\ pc' = "deinit"
  /\ conn' \in {"none", "stale"}
  /\ UNCHANGED <<clientId, osd, pb, playing, libHeld, screen, irReady,
                 header, net, keys, events>>

\* while (client_id == -1) process_control();
AwaitClientId ==
  /\ pc = "handshake" /\ ~clientId
  /\ pc' = "line"
  /\ UNCHANGED <<session, screen, irReady, header, net, keys, events>>

\* CONFIG is sent, which ends the program (SIGPIPE) if the server is gone and
\* has refused CONTROL.
ConfigRaisesSigpipe ==
  /\ pc = "handshake" /\ clientId /\ server = "gone"
  /\ pc' = "killed"
  /\ UNCHANGED <<session, screen, irReady, header, net, keys, events>>

\* ... the OSD surface, the flags, the player and a clean screen.
Configure ==
  /\ pc = "handshake" /\ clientId
  /\ pc' = "event"
  /\ osd' = TRUE /\ pb' = TRUE /\ playing' = TRUE
  /\ zoom' = FALSE /\ shown' = {}
  /\ UNCHANGED <<conn, clientId, libHeld, cropped, osdSize, irReady, header, net, keys,
                 events>>

-----------------------------------------------------------------------------
(* process_control and handle_control_osdcmd *)

\* Where process_control returns to: the handshake loop, or mainloop, which
\* then looks at the keyboard if its select found it readable.
KeysUnasked  == IF ~pb THEN "handshake" ELSE "keys"
AfterControl == IF ~pb THEN "handshake" ELSE IF irReady THEN "keys" ELSE "event"

\* The blocking reads: take the next unit, or see the connection end.
Receive == inbox # <<>> /\ inbox' = Tail(inbox)
           /\ UNCHANGED <<server, todo, drawn>>
AtEnd   == inbox = <<>> /\ server = "gone" /\ UNCHANGED net

\* process_control handles one command per call.
DrainLines(text) ==   \* (variant: go on reading after the client id)
  CASE text \in {"blank", "CLIENT-ID"} -> "line"
    [] text = "OSDCMD"                 -> "header"
    [] OTHER                           -> AfterControl
RejectOthers(text) ==   \* (variant: a line it does not know is an error)
  CASE text = "blank"                -> "line"
    [] text = "OSDCMD"               -> "header"
    [] text \in {"CLIENT-ID", "FLUSH"} -> AfterControl
    [] OTHER                         -> "deinit"
AfterLine(text) ==
  CASE text = "blank"  -> "line"
    [] text = "OSDCMD" -> "header"
    [] OTHER           -> AfterControl

ReadLine ==
  /\ pc = "line" /\ Receive
  /\ LET text == Head(inbox).text IN
       /\ pc' = AfterLine(text)
       /\ clientId' = (clientId \/ text = "CLIENT-ID")
  /\ UNCHANGED <<conn, osd, pb, playing, libHeld, screen, irReady,
                 header, keys, events>>

\* The header says how many palette entries and data bytes follow.
SkipPalette(h) == IF h.data THEN "bitmap" ELSE "apply"
AfterHeader(h) == IF h.palette THEN "palette"
                  ELSE IF h.data THEN "bitmap" ELSE "apply"

ReadHeader ==
  /\ pc = "header" /\ Receive
  /\ header' = Head(inbox).osdcmd
  /\ pc' = AfterHeader(Head(inbox).osdcmd)
  /\ UNCHANGED <<session, screen, irReady, keys, events>>

ReadPalette ==
  /\ pc = "palette" /\ Receive
  /\ pc' = IF header.data THEN "bitmap" ELSE "apply"
  /\ UNCHANGED <<session, screen, irReady, header, keys, events>>

ReadBitmap ==
  /\ pc = "bitmap" /\ Receive
  /\ pc' = "apply"
  /\ UNCHANGED <<session, screen, irReady, header, keys, events>>

\* hud_osd_command.  Set_RLE paints its window; Close, of whichever window,
\* clears the OSD surface and the whole screen; the others leave the picture.
OverlayStays(h) == IF h.cmd = "Set_RLE" THEN shown \cup {h.arg} ELSE shown
Overlay(h) == CASE h.cmd = "Set_RLE" -> shown \cup {h.arg}
                [] h.cmd = "Close"   -> {}
                [] OTHER             -> shown

\* Without a palette hud_fill_img_memory reads a null pointer.
Crashes(h) == h.cmd = "Set_RLE" /\ ~h.palette

ApplyOsd ==
  /\ pc = "apply"
  /\ IF Crashes(header)
     THEN pc' = "killed" /\ UNCHANGED <<osdSize, shown>>
     ELSE /\ pc' = AfterControl
          /\ osdSize' = IF header.cmd = "Size" THEN header.arg ELSE osdSize
          /\ shown' = Overlay(header)
  /\ header' = NoHeader
  /\ UNCHANGED <<session, zoom, cropped, irReady, net, keys, events>>

\* Any read that finds the connection closed ends the command; its result
\* CONTROL_DISCONNECTED goes nowhere.
ReadFails ==
  /\ pc \in ControlPcs \ {"apply"} /\ AtEnd
  /\ pc' = AfterControl
  /\ header' = NoHeader
  /\ UNCHANGED <<session, screen, irReady, keys, events>>

-----------------------------------------------------------------------------
(* mainloop and process_keyboard *)

EndsSession(e)   == e \in {"FatalError", "Completed"}

GetEvent ==
  /\ pc = "event" /\ events # <<>>
  /\ pc' = IF EndsSession(Head(events)) THEN "deinit" ELSE "select"
  /\ events' = Tail(events)
  /\ UNCHANGED <<session, screen, irReady, header, net, keys>>

GetEventTimesOut ==
  /\ pc = "event" /\ events = <<>>
  /\ pc' = "select"
  /\ UNCHANGED <<session, screen, irReady, header, net, keys, events>>

\* The end of the connection makes conn_fd readable too.
Select ==
  /\ pc = "select"
  /\ irReady' = (keys # <<>>)
  /\ pc' = IF inbox # <<>> \/ server = "gone" THEN "line"
           ELSE IF keys # <<>> THEN "keys" ELSE "event"
  /\ UNCHANGED <<session, screen, header, net, keys, events>>

SelectFails ==
  /\ pc = "select"
  /\ pc' = "deinit"
  /\ UNCHANGED <<session, screen, irReady, header, net, keys, events>>

TakeKey(k, next) ==
  /\ pc = "keys" /\ keys # <<>> /\ Head(keys) = k
  /\ keys' = Tail(keys)
  /\ pc' = next
  /\ UNCHANGED <<session, osdSize, shown, irReady, header, net, events>>

HomeIgnored == TakeKey("home", "event") /\ UNCHANGED <<zoom, cropped>>
HomeKey     == TakeKey("home", "deinit") /\ UNCHANGED <<zoom, cropped>>

ZoomKey ==
  /\ TakeKey("zoom", "event")
  /\ zoom' = ~zoom
  /\ cropped' = ~zoom

\* exit(99) asks the supervisor to switch the box off.
PowerOffKey ==
  /\ LocalPowerdown
  /\ TakeKey("power", "exit99") /\ UNCHANGED <<zoom, cropped>>

\* A key of vdr_keymap is written to the server, others are ignored.  A write
\* to a connection the server has closed ends in SIGPIPE, at the latest the
\* second time; nothing in the program handles that signal.
ForwardKey ==
  /\ \E k \in {"mapped", "unmapped", "power"} :
       /\ k = "power" => ~LocalPowerdown
       /\ \/ TakeKey(k, "event")
          \/ k # "unmapped" /\ server = "gone" /\ TakeKey(k, "killed")
  /\ UNCHANGED <<zoom, cropped>>

-----------------------------------------------------------------------------
(* deinit *)

\* The player stops before the events it has raised are dropped.
StopPlayback ==
  IF pb THEN playing' = FALSE /\ events' = <<>> /\ pb' = FALSE
        ELSE UNCHANGED <<playing, events, pb>>

\* g_bZoom = false; apply_zoom();
KeepZoom  == UNCHANGED <<zoom, cropped>>
ResetZoom == zoom' = FALSE /\ cropped' = FALSE

Deinit ==
  /\ pc = "deinit"
  /\ pc' = "idle"
  /\ StopPlayback
  /\ osd' = FALSE
  /\ conn' = "none"
  /\ IF conn = "open" THEN server' = "away" /\ todo' = <<>> /\ inbox' = <<>>
                      ELSE UNCHANGED <<server, todo, inbox>>
  /\ ResetZoom
  /\ libHeld' = FALSE
  /\ NothingDrawn
  /\ UNCHANGED <<clientId, osdSize, shown, irReady, header, keys>>

-----------------------------------------------------------------------------
(* The environment *)

\* The server answers CONTROL with lines the client skips and its id; OSD
\* commands and flushes go to clients that have one.
ServerSays(message) ==
  /\ todo = <<>>
  /\ todo' = message
  /\ UNCHANGED <<inbox, drawn>>

ServerStarts ==
  /\ \/ /\ server = "greeting" /\ UNCHANGED server
        /\ \E t \in {"blank", "other"} : ServerSays(<<Line(t)>>)
     \/ /\ server = "greeting" /\ server' = "serving"
        /\ ServerSays(<<Line("CLIENT-ID")>>)
     \/ /\ server = "serving" /\ UNCHANGED server
        /\ \/ ServerSays(<<Line("FLUSH")>>)
           \/ \E h \in Headers : ServerSays(OsdCommand(h))
  /\ UNCHANGED <<pc, session, screen, irReady, header, keys, events>>

\* What the server has told the client to show, once a command is complete.
Tells(u) ==
  IF u.unit = "bitmap"
  THEN /\ wanted' = wanted \cup {u.wnd} /\ wiped' = wiped \ {u.wnd}
       /\ UNCHANGED said
  ELSE IF u.unit = "header" /\ u.osdcmd.cmd = "Close"
  THEN /\ wanted' = wanted \ {u.osdcmd.arg} /\ wiped' = wanted'
       /\ UNCHANGED said
  ELSE IF u.unit = "header" /\ u.osdcmd.cmd = "Size"
  THEN said' = u.osdcmd.arg /\ UNCHANGED <<wanted, wiped>>
  ELSE UNCHANGED drawn

ServerSendsUnit ==
  /\ server \in {"greeting", "serving"}
  /\ todo # <<>> /\ Len(inbox) < MaxInbox
  /\ inbox' = Append(inbox, Head(todo))
  /\ todo' = Tail(todo)
  /\ Tells(Head(todo))
  /\ UNCHANGED <<pc, session, screen, irReady, header, server, keys, events>>

\* The server goes away, in the middle of a message or not.
ServerCloses ==
  /\ server \in {"greeting", "serving"}
  /\ server' = "gone" /\ todo' = <<>>
  /\ UNCHANGED <<pc, session, screen, irReady, header, inbox, drawn, keys,
                 events>>

PressKey ==
  /\ Len(keys) < MaxKeys
  /\ \E k \in Keys : keys' = Append(keys, k)
  /\ UNCHANGED <<pc, session, screen, irReady, header, net, events>>

PlaybackEvent ==
  /\ playing /\ Len(events) < MaxEvents
  /\ \E e \in Events : events' = Append(events, e)
  /\ UNCHANGED <<pc, session, screen, irReady, header, net, keys>>

-----------------------------------------------------------------------------
Control  == ReadLine \/ ReadHeader \/ ReadPalette \/ ReadBitmap \/ ApplyOsd
              \/ ReadFails
MainLoop == GetEvent \/ GetEventTimesOut \/ Select \/ SelectFails
              \/ HomeKey \/ ZoomKey \/ PowerOffKey \/ ForwardKey
Client   == Connect \/ ConnectFails \/ AwaitClientId
              \/ ConfigRaisesSigpipe \/ Configure
              \/ Control \/ MainLoop \/ Deinit
Environment == ServerStarts \/ ServerSendsUnit \/ ServerCloses \/ PressKey
                 \/ PlaybackEvent

\* A program that ended (exit, SIGPIPE or a null pointer) takes no step.
Next ==
  /\ pc \notin {"exit99", "killed"}
  /\ Start \/ Client \/ Environment

Spec == Init /\ [][Next]_vars

\* The front end's thread runs; a server that has begun a message sends the
\* rest of it or closes the connection.  Nobody has to press a key.
ServerFinishes == ServerSendsUnit \/ (todo # <<>> /\ ServerCloses)
FairSpec == Spec /\ WF_vars(Client) /\ WF_vars(ServerFinishes)

-----------------------------------------------------------------------------
(* Properties *)

Units == {Line(t) : t \in {"blank", "other", "CLIENT-ID", "FLUSH", "OSDCMD"}}
           \cup {[unit |-> "header", osdcmd |-> h] : h \in Headers}
           \cup {[unit |-> "palette"]}
           \cup {[unit |-> "bitmap", wnd |-> w] : w \in Windows}

TypeOK ==
  /\ pc \in {"idle", "connect", "handshake", "deinit", "exit99", "killed"}
              \cup LoopPcs \cup ControlPcs
  /\ conn \in {"none", "open", "stale"}
  /\ {clientId, osd, pb, playing, zoom, cropped, libHeld, irReady}
       \subseteq BOOLEAN
  /\ osdSize \in Sizes /\ said \in Sizes \cup {"unsaid"}
  /\ shown \subseteq Windows /\ wanted \subseteq Windows /\ wiped \subseteq Windows
  /\ header \in Headers \cup {NoHeader}
  /\ server \in {"away", "greeting", "serving", "gone"}
  /\ todo \in Seq(Units) /\ inbox \in Seq(Units)
  /\ keys \in Seq(Keys) /\ events \in Seq(Events)

\* The client never takes binary OSD data for a command line or a line for
\* data: process_control and handle_control_osdcmd consume exactly what the
\* server sends, over any sequence of commands.
StreamStaysInStep ==
  inbox # <<>> =>
    LET next == Head(inbox).unit IN
      /\ pc \in LoopPcs \cup {"handshake", "line", "apply"} => next = "line"
      /\ pc \in {"header", "palette", "bitmap"} => next = pc

\* No command reaches hud_osd_command before g_hOSD is made, and no FLUSH is
\* handled while g_pb is still NULL, although the handshake loop already runs
\* the full process_control.
NothingUsedBeforeInit ==
  /\ pc \in ControlPcs \ {"line"} => osd /\ libHeld
  /\ pc = "line" /\ inbox # <<>> /\ Head(inbox) = Line("FLUSH") => pb

\* Whenever everything received is handled, no window is on the screen that the
\* server has closed, every open one is there unless a Close of another window
\* has wiped it off since it was last drawn (hud_osd_command ignores wnd), and
\* the OSD has the size the server set, if it set one in this session.
OverlayFollowsServer ==
  pc \in LoopPcs /\ inbox = <<>> =>
    shown = wanted \ wiped /\ (said # "unsaid" => osdSize = said)

\* ir_getkey blocks; it is only called with a key waiting, although the
\* select that said so ran before process_control read from the network.
KeyboardNeverBlocks == pc = "keys" => keys # <<>>

\* A session that returns has stopped the player, dropped its events, undone
\* the zoom and given back surface, descriptor and library reference, however it
\* ended; the video plane and g_bZoom agree at all times, across sessions too.
\* The OSD size is not among them: it acts on the next session.
SessionReleasesAll ==
  /\ cropped = zoom
  /\ pc = "idle" => /\ conn = "none" /\ ~osd /\ ~pb /\ ~libHeld
                    /\ ~playing /\ events = <<>> /\ ~zoom

SessionOver == pc \in {"idle", "exit99", "killed"}

\* Home ends a running session, whatever the server sends or stops sending
\* between two commands; so do the end of the stream and a fatal error of the
\* player.
SessionEnds ==
  \/ pc \in LoopPcs /\ keys # <<>> /\ Head(keys) = "home"
  \/ \E i \in DOMAIN events : events[i] \in {"FatalError", "Completed"}
  ~> SessionOver

\* A client id that reached the client starts the session, even if the server
\* is gone by then, unless the answer to it ends the program for that reason.
IdStartsSession ==
  pc \in {"handshake", "line"} /\ ~pb
    /\ (\E i \in DOMAIN inbox : inbox[i] = Line("CLIENT-ID"))
  ~> pc = "event" \/ (pc = "killed" /\ server = "gone")
=============================================================================
