------------------------- MODULE VdrFrontendProofs -------------------------
(***************************************************************************)
(* The safety properties of VdrFrontend, proved for any bounds on what     *)
(* waits in the socket, the IR device and the playback engine.             *)
(***************************************************************************)
EXTENDS VdrFrontend, SequenceTheorems, TLAPS

-----------------------------------------------------------------------------
(* The inductive invariant *)

\* The session: what exists where, and what the next session starts from.
SessionInv ==
  /\ osd = pb /\ playing = pb /\ cropped = zoom
  /\ libHeld = (pc # "idle")
  /\ ~pb => ~zoom /\ events = <<>>
  /\ pc \in (LoopPcs \cup ControlPcs) \ {"line"} => pb
  /\ pc \in {"idle", "connect", "handshake"} => ~pb
  /\ pc \in {"idle", "connect"} => conn = "none"

\* The key that select saw is still there when the command has been handled.
KeysInv ==
  /\ pc = "keys" => keys # <<>>
  /\ pc \in ControlPcs /\ pb /\ irReady => keys # <<>>

\* The stream from the next unit on: what is on the way, what the server has
\* begun and, if there is a server, the line that it will send after that.
Alive == server \in {"greeting", "serving"}
Sent  == Len(inbox) + Len(todo)
Ahead == IF Alive THEN Sent + 1 ELSE Len(inbox)
Unit(i) == IF i <= Len(inbox) THEN inbox[i]
           ELSE IF i <= Sent THEN todo[i - Len(inbox)] ELSE Line("blank")

\* The kind of unit after a header, and after its palette.
AfterPalette(h)  == IF h.data THEN "bitmap" ELSE "line"
AfterUnitHeader(h) == IF h.palette THEN "palette" ELSE AfterPalette(h)

\* What may come after a unit, and two units after it.
Follows(u, v) ==
  /\ u.unit = "line" => v.unit = IF u.text = "OSDCMD" THEN "header" ELSE "line"
  /\ u.unit = "header" => /\ v.unit = AfterUnitHeader(u.osdcmd)
                          /\ v.unit = "bitmap" => v.wnd = u.osdcmd.arg
  /\ u.unit = "bitmap" => v.unit = "line"
FollowsPalette(u, w) ==
  u.unit = "header" /\ u.osdcmd.palette =>
    w.unit = AfterPalette(u.osdcmd) /\ (w.unit = "bitmap" => w.wnd = u.osdcmd.arg)

\* Where the client expects a line.
LinePcs == LoopPcs \cup {"handshake", "line", "apply"}

\* The stream is framed, and the client is at the unit that it expects.
FramingInv ==
  /\ \A i \in 1..(Ahead - 1) : Follows(Unit(i), Unit(i + 1))
  /\ \A i \in 1..(Ahead - 2) : FollowsPalette(Unit(i), Unit(i + 2))
  /\ Ahead > 0 /\ pc \in LinePcs => Unit(1).unit = "line"
  /\ Ahead > 0 /\ pc \in {"header", "palette", "bitmap"} => Unit(1).unit = pc
  /\ Ahead > 0 /\ pc = "bitmap" => Unit(1).wnd = header.arg
  /\ Ahead > 1 /\ pc = "palette" =>
       /\ Unit(2).unit = AfterPalette(header)
       /\ Unit(2).unit = "bitmap" => Unit(2).wnd = header.arg

\* Before the client has its id, the server's lines up to the id are lines
\* that the client skips.
Greeting(u) == u \in {Line("blank"), Line("other"), Line("CLIENT-ID")}
AwaitsId == pc \in {"handshake", "line"} /\ ~pb /\ ~clientId

GreetingInv ==
  /\ pc = "line" /\ ~pb => ~clientId
  /\ AwaitsId =>
       /\ \A i \in 1..Sent : Greeting(Unit(i))
                             \/ \E j \in 1..(i - 1) : Unit(j) = Line("CLIENT-ID")
       /\ server = "serving" => \E j \in 1..Sent : Unit(j) = Line("CLIENT-ID")

\* What a unit does to the windows on the screen and to the size of the OSD, once
\* its command is handled; and both of them, what is being handled included.
Connected == pc \in LoopPcs \cup ControlPcs \cup {"handshake"}
Closes(u) == u.unit = "header" /\ u.osdcmd.cmd = "Close"
Sizing(u) == u.unit = "header" /\ u.osdcmd.cmd = "Size"
After(u, p) == IF u.unit = "bitmap" THEN p \cup {u.wnd}
               ELSE IF Closes(u) THEN {} ELSE p
SizeAfter(u, z) == IF Sizing(u) THEN u.osdcmd.arg ELSE z
Picture == IF pc = "apply" THEN Overlay(header) ELSE IF pb THEN shown ELSE {}
Size    == IF pc = "apply" /\ header.cmd = "Size" THEN header.arg ELSE osdSize

\* The pictures that follow each other while the client handles what it has
\* received end in the one that the server counts on; the sizes likewise.
Leads(f) ==
  /\ f[0] = Picture /\ f[Len(inbox)] = wanted \ wiped
  /\ \A i \in 1..Len(inbox) : f[i] = After(inbox[i], f[i - 1])
LeadsSize(g) ==
  /\ g[0] = Size /\ (said # "unsaid" => g[Len(inbox)] = said)
  /\ \A i \in 1..Len(inbox) : g[i] = SizeAfter(inbox[i], g[i - 1])

OverlayInv ==
  /\ pc = "bitmap" => header.cmd = "Set_RLE"
  /\ pc = "palette" => header \in Headers /\ header.palette
  /\ Connected => /\ \E f \in [0..Len(inbox) -> SUBSET Windows] : Leads(f)
                  /\ \E g \in [0..Len(inbox) -> Sizes] : LeadsSize(g)

IInv == /\ TypeOK /\ SessionInv /\ KeysInv
        /\ FramingInv /\ GreetingInv /\ OverlayInv

-----------------------------------------------------------------------------
(* Facts of the data *)

Pcs == {"idle", "connect", "handshake", "deinit", "exit99", "killed"}
         \cup LoopPcs \cup ControlPcs

LEMMA UnitFacts ==
  /\ \A u \in Units : /\ u.unit \in {"line", "header", "palette", "bitmap"}
                      /\ u.unit = "line" => u = Line(u.text)
                      /\ u.unit = "header" => u.osdcmd \in Headers
                      /\ u.unit = "bitmap" => u.wnd \in Windows
  /\ \A t \in {"blank", "other", "CLIENT-ID", "FLUSH", "OSDCMD"} :
       Line(t) \in Units /\ Line(t).unit = "line" /\ Line(t).text = t
  /\ \A h \in Headers : [unit |-> "header", osdcmd |-> h] \in Units
  /\ [unit |-> "palette"] \in Units
  /\ \A w \in Windows : [unit |-> "bitmap", wnd |-> w] \in Units
<1>1. ASSUME NEW u \in Units
      PROVE  /\ u.unit \in {"line", "header", "palette", "bitmap"}
             /\ u.unit = "line" => u = Line(u.text)
             /\ u.unit = "header" => u.osdcmd \in Headers
             /\ u.unit = "bitmap" => u.wnd \in Windows
  <2>1. CASE \E t \in {"blank", "other", "CLIENT-ID", "FLUSH", "OSDCMD"} : u = Line(t)
    BY <2>1 DEF Line
  <2>2. CASE \E h \in Headers : u = [unit |-> "header", osdcmd |-> h]
    BY <2>2
  <2>3. CASE u = [unit |-> "palette"]
    BY <2>3
  <2>4. CASE \E w \in Windows : u = [unit |-> "bitmap", wnd |-> w]
    BY <2>4
  <2>5. QED
    BY <2>1, <2>2, <2>3, <2>4 DEF Units
<1>2. \A t \in {"blank", "other", "CLIENT-ID", "FLUSH", "OSDCMD"} :
        Line(t) \in Units /\ Line(t).unit = "line" /\ Line(t).text = t
  BY DEF Units, Line
<1>3. \A h \in Headers : [unit |-> "header", osdcmd |-> h] \in Units
  BY DEF Units
<1>4. /\ [unit |-> "palette"] \in Units
      /\ \A w \in Windows : [unit |-> "bitmap", wnd |-> w] \in Units
  BY DEF Units
<1>5. QED
  BY <1>1, <1>2, <1>3, <1>4

LEMMA HeaderFacts ==
  \A h \in Headers :
    /\ h.palette \in BOOLEAN /\ h.data \in BOOLEAN
    /\ h.cmd \in {"Set_RLE", "SetPalette", "Close", "Size"}
    /\ h.cmd \in {"Close", "Size"} => ~h.palette
    /\ h.cmd = "SetPalette" => h.palette
    /\ h.data = (h.cmd = "Set_RLE")
    /\ h.cmd = "Set_RLE" => h.arg \in Windows
    /\ h.cmd = "Size" => h.arg \in Sizes
<1> TAKE h \in Headers
<1>1. ASSUME NEW w \in Windows, NEW p \in BOOLEAN,
             h = [cmd |-> "Set_RLE", arg |-> w, palette |-> p, data |-> TRUE]
      PROVE  /\ h.cmd = "Set_RLE" /\ h.palette \in BOOLEAN /\ h.data = TRUE
             /\ h.arg \in Windows
  BY <1>1
<1>2. ASSUME h = [cmd |-> "SetPalette", arg |-> "any", palette |-> TRUE, data |-> FALSE]
      PROVE  h.cmd = "SetPalette" /\ h.palette = TRUE /\ h.data = FALSE
  BY <1>2
<1>3. ASSUME NEW w \in Windows,
             h = [cmd |-> "Close", arg |-> w, palette |-> FALSE, data |-> FALSE]
      PROVE  h.cmd = "Close" /\ h.palette = FALSE /\ h.data = FALSE
  BY <1>3
<1>4. ASSUME NEW z \in Sizes,
             h = [cmd |-> "Size", arg |-> z, palette |-> FALSE, data |-> FALSE]
      PROVE  h.cmd = "Size" /\ h.palette = FALSE /\ h.data = FALSE /\ h.arg \in Sizes
  BY <1>4
<1>5. \/ \E w \in Windows, p \in BOOLEAN :
           h = [cmd |-> "Set_RLE", arg |-> w, palette |-> p, data |-> TRUE]
      \/ h = [cmd |-> "SetPalette", arg |-> "any", palette |-> TRUE, data |-> FALSE]
      \/ \E w \in Windows :
           h = [cmd |-> "Close", arg |-> w, palette |-> FALSE, data |-> FALSE]
      \/ \E z \in Sizes :
           h = [cmd |-> "Size", arg |-> z, palette |-> FALSE, data |-> FALSE]
  BY DEF Headers, Header
<1>6. /\ h.palette \in BOOLEAN /\ h.data \in BOOLEAN
      /\ \/ h.cmd = "Set_RLE" /\ h.data = TRUE /\ h.arg \in Windows
         \/ h.cmd = "SetPalette" /\ h.palette = TRUE /\ h.data = FALSE
         \/ h.cmd = "Close" /\ h.palette = FALSE /\ h.data = FALSE
         \/ h.cmd = "Size" /\ h.palette = FALSE /\ h.data = FALSE /\ h.arg \in Sizes
  <2>1. CASE \E w \in Windows, p \in BOOLEAN :
               h = [cmd |-> "Set_RLE", arg |-> w, palette |-> p, data |-> TRUE]
    BY <1>1, <2>1
  <2>2. CASE h = [cmd |-> "SetPalette", arg |-> "any", palette |-> TRUE, data |-> FALSE]
    BY <1>2, <2>2
  <2>3. CASE \E w \in Windows :
               h = [cmd |-> "Close", arg |-> w, palette |-> FALSE, data |-> FALSE]
    BY <1>3, <2>3
  <2>4. CASE \E z \in Sizes :
               h = [cmd |-> "Size", arg |-> z, palette |-> FALSE, data |-> FALSE]
    BY <1>4, <2>4
  <2>5. QED
    BY <1>5, <2>1, <2>2, <2>3, <2>4
<1>7. QED
  BY <1>6

\* A whole message of the server: lines and OSD commands in frames.
Message(m) ==
  /\ m \in Seq(Units) /\ Len(m) > 0 /\ m[1].unit = "line"
  /\ \A i \in 1..(Len(m) - 1) : Follows(m[i], m[i + 1])
  /\ \A i \in 1..(Len(m) - 2) : FollowsPalette(m[i], m[i + 2])
  /\ Follows(m[Len(m)], Line("blank"))
  /\ Len(m) > 1 => FollowsPalette(m[Len(m) - 1], Line("blank"))

LEMMA LineMessages ==
  ASSUME NEW t \in {"blank", "other", "CLIENT-ID", "FLUSH"}
  PROVE  Message(<<Line(t)>>)
<1>1. /\ <<Line(t)>> \in Seq(Units) /\ Len(<<Line(t)>>) = 1
      /\ <<Line(t)>>[1] = Line(t)
  BY UnitFacts
<1>2. Line(t).unit = "line" /\ Line(t).text # "OSDCMD"
      /\ Line("blank").unit = "line"
  BY DEF Line
<1>3. QED
  BY <1>1, <1>2 DEF Message, Follows

LEMMA JoinThree ==
  ASSUME NEW a \in Units, NEW b \in Units, NEW c \in Units
  PROVE  <<a, b>> \o <<c>> = <<a, b, c>>
<1>1. <<a, b>> \in Seq(Units) /\ <<c>> \in Seq(Units) /\ <<a, b, c>> \in Seq(Units)
  OBVIOUS
<1>2. /\ <<a, b>> \o <<c>> \in Seq(Units) /\ Len(<<a, b>> \o <<c>>) = 3
      /\ \A i \in 1..3 : (<<a, b>> \o <<c>>)[i] = <<a, b, c>>[i]
  BY <1>1, ConcatProperties
<1>3. QED
  BY <1>1, <1>2, SeqEqual

LEMMA JoinFour ==
  ASSUME NEW a \in Units, NEW b \in Units, NEW c \in Units, NEW d \in Units
  PROVE  <<a, b, c>> \o <<d>> = <<a, b, c, d>>
<1>1. <<a, b, c>> \in Seq(Units) /\ <<d>> \in Seq(Units) /\ <<a, b, c, d>> \in Seq(Units)
  OBVIOUS
<1>2. /\ <<a, b, c>> \o <<d>> \in Seq(Units) /\ Len(<<a, b, c>> \o <<d>>) = 4
      /\ \A i \in 1..4 : (<<a, b, c>> \o <<d>>)[i] = <<a, b, c, d>>[i]
  BY <1>1, ConcatProperties
<1>3. QED
  BY <1>1, <1>2, SeqEqual

LEMMA OsdMessages ==
  ASSUME NEW h \in Headers
  PROVE  Message(OsdCommand(h))
<1> DEFINE cmd == Line("OSDCMD")
           hd  == [unit |-> "header", osdcmd |-> h]
           pal == [unit |-> "palette"]
           bmp == [unit |-> "bitmap", wnd |-> h.arg]
<1>1. /\ cmd \in Units /\ hd \in Units /\ pal \in Units
      /\ h.data => bmp \in Units
      /\ cmd.unit = "line" /\ cmd.text = "OSDCMD"
      /\ hd.unit = "header" /\ hd.osdcmd = h
      /\ pal.unit = "palette" /\ bmp.unit = "bitmap" /\ bmp.wnd = h.arg
      /\ Line("blank").unit = "line"
  BY UnitFacts, HeaderFacts
<1> HIDE DEF cmd, hd, pal, bmp
<1>2. CASE h.data /\ h.palette
  <2>1. OsdCommand(h) = <<cmd, hd, pal, bmp>>
    <3>1. OsdCommand(h) = <<cmd, hd>> \o <<pal>> \o <<bmp>>
      BY <1>2 DEF OsdCommand, cmd, hd, pal, bmp
    <3>2. <<cmd, hd>> \o <<pal>> = <<cmd, hd, pal>>
      BY <1>1, JoinThree
    <3>3. <<cmd, hd, pal>> \o <<bmp>> = <<cmd, hd, pal, bmp>>
      BY <1>1, <1>2, JoinFour
    <3>4. QED
      BY <3>1, <3>2, <3>3
  <2>2. <<cmd, hd, pal, bmp>> \in Seq(Units)
    BY <1>1, <1>2
  <2>3. QED
    BY <1>1, <1>2, <2>1, <2>2
       DEF Message, Follows, FollowsPalette, AfterUnitHeader, AfterPalette
<1>3. CASE h.data /\ ~h.palette
  <2>1. OsdCommand(h) = <<cmd, hd, bmp>>
    <3>1. OsdCommand(h) = <<cmd, hd>> \o <<>> \o <<bmp>>
      BY <1>3 DEF OsdCommand, cmd, hd, bmp
    <3>2. <<cmd, hd>> \in Seq(Units)
      BY <1>1
    <3>3. <<cmd, hd>> \o <<>> = <<cmd, hd>>
      BY <3>2, ConcatEmptySeq
    <3>4. <<cmd, hd>> \o <<bmp>> = <<cmd, hd, bmp>>
      BY <1>1, <1>3, JoinThree
    <3>5. QED
      BY <3>1, <3>3, <3>4
  <2>2. <<cmd, hd, bmp>> \in Seq(Units)
    BY <1>1, <1>3
  <2>3. QED
    BY <1>1, <1>3, <2>1, <2>2
       DEF Message, Follows, FollowsPalette, AfterUnitHeader, AfterPalette
<1>4. CASE ~h.data /\ h.palette
  <2>1. OsdCommand(h) = <<cmd, hd, pal>>
    <3>1. OsdCommand(h) = <<cmd, hd>> \o <<pal>> \o <<>>
      BY <1>4 DEF OsdCommand, cmd, hd, pal
    <3>2. QED
      BY <1>1, <3>1, JoinThree, ConcatEmptySeq
  <2>2. <<cmd, hd, pal>> \in Seq(Units)
    BY <1>1
  <2>3. QED
    BY <1>1, <1>4, <2>1, <2>2
       DEF Message, Follows, FollowsPalette, AfterUnitHeader, AfterPalette
<1>5. CASE ~h.data /\ ~h.palette
  <2>1. OsdCommand(h) = <<cmd, hd>>
    BY <1>5 DEF OsdCommand, cmd, hd
  <2>2. <<cmd, hd>> \in Seq(Units)
    BY <1>1
  <2>3. QED
    BY <1>1, <1>5, <2>1, <2>2
       DEF Message, Follows, FollowsPalette, AfterUnitHeader, AfterPalette
<1>6. QED
  BY <1>2, <1>3, <1>4, <1>5, HeaderFacts

-----------------------------------------------------------------------------
(* What the steps do to the stream *)

\* The part of TypeOK that the stream is about.
LEMMA StreamTypes ==
  ASSUME TypeOK
  PROVE  /\ inbox \in Seq(Units) /\ todo \in Seq(Units)
         /\ Len(inbox) \in Nat /\ Len(todo) \in Nat
         /\ Sent = Len(inbox) + Len(todo) /\ Sent \in Nat /\ Ahead \in Nat
         /\ Len(inbox) <= Ahead /\ Len(inbox) <= Sent
         /\ \A i \in 1..Len(inbox) : inbox[i] \in Units
         /\ \A i \in 1..Len(todo) : todo[i] \in Units
  BY DEF TypeOK, Sent, Ahead

LEMMA TakeUnit ==
  ASSUME TypeOK, Receive
  PROVE  /\ Head(inbox) \in Units /\ inbox' \in Seq(Units)
         /\ Len(inbox) > 0 /\ Len(inbox') = Len(inbox) - 1
         /\ \A i \in 1..Len(inbox') : inbox'[i] = inbox[i + 1]
         /\ Unit(1) = Head(inbox) /\ inbox[1] = Head(inbox)
         /\ Sent' = Sent - 1 /\ Ahead' = Ahead - 1 /\ Ahead > 0
         /\ \A i \in Nat \ {0} : Unit(i)' = Unit(i + 1)
         /\ UNCHANGED <<server, todo, drawn>>
<1>1. /\ inbox \in Seq(Units) /\ todo \in Seq(Units) /\ inbox # <<>>
      /\ inbox' = Tail(inbox) /\ UNCHANGED <<server, todo, drawn>>
  BY DEF TypeOK, Receive
<1>2. /\ Len(inbox) \in Nat \ {0} /\ Len(todo) \in Nat
      /\ Head(inbox) = inbox[1] /\ Head(inbox) \in Units
      /\ inbox' \in Seq(Units) /\ Len(inbox') = Len(inbox) - 1
      /\ \A i \in 1..Len(inbox') : inbox'[i] = inbox[i + 1]
  BY <1>1
<1>3. Sent' = Sent - 1 /\ Ahead' = Ahead - 1 /\ Ahead > 0 /\ Ahead <= Sent + 1
  BY <1>1, <1>2 DEF Sent, Ahead, Alive
<1>4. \A i \in Nat \ {0} : Unit(i)' = Unit(i + 1)
  BY <1>1, <1>2, <1>3 DEF Unit, Sent
<1>5. QED
  BY <1>1, <1>2, <1>3, <1>4 DEF Unit

LEMMA SendUnit ==
  ASSUME TypeOK, ServerSendsUnit
  PROVE  /\ Head(todo) \in Units /\ inbox' \in Seq(Units) /\ todo' \in Seq(Units)
         /\ Len(inbox') = Len(inbox) + 1 /\ inbox'[Len(inbox) + 1] = Head(todo)
         /\ \A i \in 1..Len(inbox) : inbox'[i] = inbox[i]
         /\ Sent' = Sent /\ Ahead' = Ahead
         /\ \A i \in Nat \ {0} : Unit(i)' = Unit(i)
         /\ UNCHANGED server
<1>1. /\ inbox \in Seq(Units) /\ todo \in Seq(Units) /\ todo # <<>>
      /\ inbox' = Append(inbox, Head(todo)) /\ todo' = Tail(todo)
      /\ UNCHANGED server
  BY DEF TypeOK, ServerSendsUnit
<1>2. /\ Len(inbox) \in Nat /\ Len(todo) \in Nat \ {0}
      /\ Head(todo) = todo[1] /\ Head(todo) \in Units
      /\ todo' \in Seq(Units) /\ Len(todo') = Len(todo) - 1
      /\ \A i \in 1..Len(todo') : todo'[i] = todo[i + 1]
  BY <1>1
<1>3. /\ inbox' \in Seq(Units) /\ Len(inbox') = Len(inbox) + 1
      /\ \A i \in 1..Len(inbox) : inbox'[i] = inbox[i]
      /\ inbox'[Len(inbox) + 1] = Head(todo)
  BY <1>1, <1>2
<1>4. Sent' = Sent /\ Ahead' = Ahead /\ Ahead = Sent + 1
  BY <1>1, <1>2, <1>3 DEF Sent, Ahead, Alive, ServerSendsUnit
<1>5. ASSUME NEW i \in Nat \ {0}
      PROVE  Unit(i)' = Unit(i)
  <2>1. CASE i <= Len(inbox)
    BY <1>2, <1>3, <2>1 DEF Unit
  <2>2. CASE i = Len(inbox) + 1
    BY <1>2, <1>3, <1>4, <2>2 DEF Unit, Sent
  <2>3. CASE i > Len(inbox) + 1 /\ i <= Sent
    <3>1. /\ i - (Len(inbox) + 1) \in 1..Len(todo')
          /\ (i - (Len(inbox) + 1)) + 1 = i - Len(inbox)
      BY <1>2, <2>3 DEF Sent
    <3>2. todo'[i - (Len(inbox) + 1)] = todo[i - Len(inbox)]
      BY <1>2, <3>1
    <3>3. QED
      BY <1>2, <1>3, <1>4, <2>3, <3>2 DEF Unit
  <2>4. CASE i > Len(inbox) + 1 /\ ~(i <= Sent)
    BY <1>2, <1>3, <1>4, <2>4 DEF Unit
  <2>5. QED
    BY <1>2, <2>1, <2>2, <2>3, <2>4
<1>6. QED
  BY <1>1, <1>2, <1>3, <1>4, <1>5

LEMMA CloseStream ==
  ASSUME TypeOK, ServerCloses
  PROVE  /\ inbox' = inbox /\ todo' = <<>> /\ server' = "gone"
         /\ Sent' = Len(inbox) /\ Ahead' = Len(inbox) /\ Ahead' < Ahead
         /\ \A i \in 1..Len(inbox) : Unit(i)' = Unit(i)
<1>1. /\ inbox \in Seq(Units) /\ todo \in Seq(Units)
      /\ inbox' = inbox /\ todo' = <<>> /\ server' = "gone" /\ Alive
  BY DEF TypeOK, ServerCloses, Alive
<1>2. Len(inbox) \in Nat /\ Len(todo) \in Nat /\ Len(todo') = 0
  BY <1>1
<1>3. Sent' = Len(inbox) /\ Ahead' = Len(inbox) /\ Ahead' < Ahead
  BY <1>1, <1>2 DEF Sent, Ahead, Alive
<1>4. QED
  BY <1>1, <1>2, <1>3 DEF Unit

\* The server begins a message.
LEMMA SayStream ==
  ASSUME TypeOK, ServerStarts
  PROVE  \E m \in Seq(Units) :
           /\ Message(m) /\ todo = <<>> /\ todo' = m /\ UNCHANGED <<inbox, drawn>>
           /\ Alive /\ Alive' /\ Sent = Len(inbox) /\ Sent' = Len(inbox) + Len(m)
           /\ Ahead = Len(inbox) + 1 /\ Ahead' = Len(inbox) + Len(m) + 1
           /\ Unit(Len(inbox) + 1) = Line("blank")
           /\ \A i \in 1..Ahead' :
                Unit(i)' = IF i <= Len(inbox) THEN Unit(i)
                           ELSE IF i <= Len(inbox) + Len(m) THEN m[i - Len(inbox)]
                           ELSE Line("blank")
           /\ \/ server = "greeting" /\ server' = server
                 /\ m \in {<<Line("blank")>>, <<Line("other")>>}
              \/ server = "greeting" /\ server' = "serving"
                 /\ m = <<Line("CLIENT-ID")>>
              \/ server = "serving" /\ server' = server
<1>1. PICK m :
        /\ Message(m) /\ ServerSays(m)
        /\ \/ server = "greeting" /\ server' = server
              /\ m \in {<<Line("blank")>>, <<Line("other")>>}
           \/ server = "greeting" /\ server' = "serving"
              /\ m = <<Line("CLIENT-ID")>>
           \/ server = "serving" /\ server' = server
  BY LineMessages, OsdMessages DEF ServerStarts
<1>2. /\ m \in Seq(Units) /\ Len(m) \in Nat \ {0} /\ todo = <<>> /\ todo' = m
      /\ UNCHANGED <<inbox, drawn>> /\ inbox \in Seq(Units) /\ Len(inbox) \in Nat
      /\ Alive /\ Alive'
  BY <1>1 DEF Message, ServerSays, TypeOK, Alive
<1>3. /\ Sent = Len(inbox) /\ Sent' = Len(inbox) + Len(m)
      /\ Ahead = Len(inbox) + 1 /\ Ahead' = Len(inbox) + Len(m) + 1
  BY <1>2 DEF Sent, Ahead
<1>4. /\ Unit(Len(inbox) + 1) = Line("blank")
      /\ \A i \in 1..Ahead' :
           Unit(i)' = IF i <= Len(inbox) THEN Unit(i)
                      ELSE IF i <= Len(inbox) + Len(m) THEN m[i - Len(inbox)]
                      ELSE Line("blank")
  BY <1>2, <1>3 DEF Unit
<1>5. QED
  BY <1>1, <1>2, <1>3, <1>4

-----------------------------------------------------------------------------
(* The steps of the client, grouped by what they do to the stream          *)

\* They leave it alone and end where a line is expected or no more is read.
Quiet == Start \/ ConnectFails \/ AwaitClientId \/ ConfigRaisesSigpipe
           \/ Configure \/ ApplyOsd \/ MainLoop \/ PressKey \/ PlaybackEvent \/ UNCHANGED vars

Reads == ReadLine \/ ReadHeader \/ ReadPalette \/ ReadBitmap

LEMMA Steps ==
  [Next]_vars => \/ Quiet \/ Reads \/ ReadFails \/ Connect \/ Deinit
                 \/ ServerStarts \/ ServerSendsUnit \/ ServerCloses
  BY DEF Next, Client, Control, Environment, Quiet, Reads

LEMMA QuietNet ==
  ASSUME Quiet
  PROVE  /\ UNCHANGED <<server, todo, inbox, drawn>>
         /\ pc' \in {"palette", "bitmap"} => UNCHANGED header
  BY DEF Quiet, Start, ConnectFails, AwaitClientId, ConfigRaisesSigpipe, Configure,
         ApplyOsd, AfterControl, MainLoop, GetEvent, GetEventTimesOut, Select, SelectFails, HomeKey,
         ZoomKey, PowerOffKey, ForwardKey, TakeKey, PressKey, PlaybackEvent,
         vars, net

LEMMA QuietPc ==
  ASSUME Quiet
  PROVE  \/ pc' = pc
         \/ pc \in LinePcs /\ pc' \in LinePcs \cup {"deinit", "exit99", "killed"}
         \/ pc' \in {"connect", "deinit"}
  BY DEF Quiet, Start, ConnectFails, AwaitClientId, ConfigRaisesSigpipe, Configure,
         ApplyOsd, MainLoop, GetEvent, GetEventTimesOut, Select, SelectFails, HomeKey,
         ZoomKey, PowerOffKey, ForwardKey, TakeKey, PressKey, PlaybackEvent,
         vars, AfterControl, LinePcs, LoopPcs

\* A read takes a unit of the kind that pc names.
LEMMA ReadsTake ==
  ASSUME IInv, Reads
  PROVE  /\ Receive /\ pc \in {"line", "header", "palette", "bitmap"}
         /\ Unit(1) = Head(inbox) /\ Unit(1).unit = pc /\ Unit(1) \in Units
<1>1. Receive /\ pc \in {"line", "header", "palette", "bitmap"}
  BY DEF Reads, ReadLine, ReadHeader, ReadPalette, ReadBitmap
<1>2. Unit(1) = Head(inbox) /\ Ahead > 0 /\ Head(inbox) \in Units
  BY <1>1, TakeUnit DEF IInv
<1>3. QED
  BY <1>1, <1>2 DEF IInv, FramingInv, LinePcs

-----------------------------------------------------------------------------
(* Framing *)

LEMMA ReadsFraming == IInv /\ Reads => FramingInv'
<1> SUFFICES ASSUME IInv, Reads PROVE FramingInv'
  OBVIOUS
<1>1. /\ Unit(1) = Head(inbox) /\ Unit(1).unit = pc /\ Unit(1) \in Units
      /\ Ahead' = Ahead - 1 /\ Ahead > 0 /\ Ahead \in Nat
      /\ \A i \in 1..Ahead' : Unit(i)' = Unit(i + 1)
  BY ReadsTake, TakeUnit, StreamTypes DEF IInv
<1>2. /\ \A i \in 1..(Ahead - 1) : Follows(Unit(i), Unit(i + 1))
      /\ \A i \in 1..(Ahead - 2) : FollowsPalette(Unit(i), Unit(i + 2))
  BY DEF IInv, FramingInv
<1>3. \A i \in 1..(Ahead' - 1) : Follows(Unit(i), Unit(i + 1))'
  <2> SUFFICES ASSUME NEW i \in 1..(Ahead' - 1)
               PROVE  Follows(Unit(i)', Unit(i + 1)')
    BY DEF Follows, AfterUnitHeader, AfterPalette
  <2>1. Unit(i)' = Unit(i + 1) /\ Unit(i + 1)' = Unit(i + 2)
    BY <1>1
  <2>2. Follows(Unit(i + 1), Unit(i + 2))
    BY <1>1, <1>2
  <2>3. QED
    BY <2>1, <2>2
<1>4. \A i \in 1..(Ahead' - 2) : FollowsPalette(Unit(i), Unit(i + 2))'
  <2> SUFFICES ASSUME NEW i \in 1..(Ahead' - 2)
               PROVE  FollowsPalette(Unit(i)', Unit(i + 2)')
    BY DEF FollowsPalette, AfterPalette
  <2>1. Unit(i)' = Unit(i + 1) /\ Unit(i + 2)' = Unit(i + 3)
    BY <1>1
  <2>2. FollowsPalette(Unit(i + 1), Unit(i + 3))
    BY <1>1, <1>2
  <2>3. QED
    BY <2>1, <2>2
<1>5. Ahead' > 0 => Unit(1)' = Unit(2) /\ Follows(Unit(1), Unit(2))
  BY <1>1, <1>2
<1>6. Ahead' > 1 => Unit(2)' = Unit(3) /\ FollowsPalette(Unit(1), Unit(3))
  BY <1>1, <1>2
<1>7. CASE ReadLine
  <2>1. pc = "line" /\ pc' = AfterLine(Unit(1).text)
    BY <1>1, <1>7 DEF ReadLine
  <2>2. Unit(1).text = "OSDCMD" => pc' = "header"
    BY <2>1 DEF AfterLine
  <2>3. Unit(1).text # "OSDCMD" => pc' \in LinePcs
    BY <2>1 DEF AfterLine, AfterControl, LinePcs, LoopPcs
  <2>4. Ahead' > 0 => Unit(1)'.unit = IF Unit(1).text = "OSDCMD" THEN "header"
                                      ELSE "line"
    BY <1>1, <1>5, <2>1 DEF Follows
  <2>5. QED
    BY <1>3, <1>4, <2>2, <2>3, <2>4 DEF FramingInv, LinePcs, LoopPcs
<1>8. CASE ReadHeader
  <2>1. /\ pc = "header" /\ header' = Unit(1).osdcmd
        /\ pc' = AfterHeader(Unit(1).osdcmd) /\ Unit(1).osdcmd \in Headers
    BY <1>1, <1>8, UnitFacts DEF ReadHeader
  <2> DEFINE h == Unit(1).osdcmd
  <2>2. /\ h.palette => pc' = "palette"
        /\ ~h.palette => pc' = IF h.data THEN "bitmap" ELSE "apply"
    BY <2>1, HeaderFacts DEF AfterHeader
  <2>3. Ahead' > 0 => /\ Unit(1)'.unit = AfterUnitHeader(h)
                      /\ Unit(1)'.unit = "bitmap" => Unit(1)'.wnd = header'.arg
    BY <1>1, <1>5, <2>1 DEF Follows
  <2>4. ~h.palette => AfterUnitHeader(h) = IF h.data THEN "bitmap" ELSE "line"
    BY <2>1, HeaderFacts DEF AfterUnitHeader, AfterPalette
  <2>5. h.palette => AfterUnitHeader(h) = "palette"
    BY DEF AfterUnitHeader
  <2>6. Ahead' > 1 /\ h.palette =>
          /\ Unit(2)'.unit = AfterPalette(header')
          /\ Unit(2)'.unit = "bitmap" => Unit(2)'.wnd = header'.arg
    BY <1>1, <1>6, <2>1 DEF FollowsPalette
  <2> HIDE DEF h
  <2>7. QED
    BY <1>3, <1>4, <2>2, <2>3, <2>4, <2>5, <2>6
       DEF FramingInv, LinePcs, LoopPcs
<1>9. CASE ReadPalette
  <2>1. pc = "palette" /\ pc' = IF header.data THEN "bitmap" ELSE "apply"
    BY <1>9 DEF ReadPalette
  <2>2. Ahead' > 0 => /\ Unit(1)'.unit = AfterPalette(header)
                      /\ Unit(1)'.unit = "bitmap" => Unit(1)'.wnd = header.arg
    BY <1>1, <1>5, <2>1 DEF IInv, FramingInv
  <2>3. header' = header
    BY <1>9 DEF ReadPalette
  <2>4. QED
    BY <1>3, <1>4, <2>1, <2>2, <2>3 DEF FramingInv, LinePcs, LoopPcs, AfterPalette
<1>10. CASE ReadBitmap
  <2>1. pc = "bitmap" /\ pc' = "apply"
    BY <1>10 DEF ReadBitmap
  <2>2. Ahead' > 0 => Unit(1)'.unit = "line"
    BY <1>1, <1>5, <2>1 DEF Follows
  <2>3. QED
    BY <1>3, <1>4, <2>1, <2>2 DEF FramingInv, LinePcs, LoopPcs
<1>11. QED
  BY <1>7, <1>8, <1>9, <1>10 DEF Reads

\* The stream as it was, and the client where it may be for the same stream.
LEMMA SameFraming ==
  ASSUME IInv, UNCHANGED <<server, todo, inbox>>,
         pc' \in {"palette", "bitmap"} => UNCHANGED header,
         \/ pc' = pc
         \/ pc \in LinePcs /\ pc' \in LinePcs \cup {"deinit", "exit99", "killed"}
         \/ pc' \in {"idle", "connect", "deinit"}
         \/ Ahead = 0
  PROVE  FramingInv'
<1>1. Ahead' = Ahead /\ \A i \in Int : Unit(i)' = Unit(i)
  BY DEF Ahead, Sent, Alive, Unit
<1>2. Ahead \in Nat
  BY StreamTypes DEF IInv
<1>3. \A i \in 1..(Ahead' - 1) : Follows(Unit(i)', Unit(i + 1)')
  BY <1>1, <1>2 DEF IInv, FramingInv
<1>4. \A i \in 1..(Ahead' - 2) : FollowsPalette(Unit(i)', Unit(i + 2)')
  BY <1>1, <1>2 DEF IInv, FramingInv
<1>5. /\ Ahead' > 0 /\ pc' \in LinePcs => Unit(1)'.unit = "line"
      /\ Ahead' > 0 /\ pc' \in {"header", "palette", "bitmap"} => Unit(1)'.unit = pc'
      /\ Ahead' > 0 /\ pc' = "bitmap" => Unit(1)'.wnd = header'.arg
      /\ Ahead' > 1 /\ pc' = "palette" =>
           /\ Unit(2)'.unit = AfterPalette(header')
           /\ Unit(2)'.unit = "bitmap" => Unit(2)'.wnd = header'.arg
  BY <1>1, <1>2 DEF IInv, FramingInv, LinePcs, LoopPcs
<1>6. QED
  BY <1>3, <1>4, <1>5
     DEF FramingInv, Follows, FollowsPalette, AfterUnitHeader, AfterPalette, LinePcs

\* A server that goes leaves a beginning of the stream behind.
LEMMA CloseFraming == IInv /\ ServerCloses => FramingInv'
<1> SUFFICES ASSUME IInv, ServerCloses PROVE FramingInv'
  OBVIOUS
<1>1. /\ Ahead' = Len(inbox) /\ Ahead' < Ahead /\ Ahead \in Nat /\ Ahead' \in Nat
      /\ \A i \in 1..Ahead' : Unit(i)' = Unit(i)
      /\ pc' = pc /\ header' = header
  BY CloseStream, StreamTypes DEF IInv, ServerCloses
<1>2. \A i \in 1..(Ahead' - 1) : Follows(Unit(i)', Unit(i + 1)')
  <2>1. \A i \in 1..(Ahead - 1) : Follows(Unit(i), Unit(i + 1))
    BY Zenon DEF IInv, FramingInv
  <2> TAKE i \in 1..(Ahead' - 1)
  <2>2. i \in 1..(Ahead - 1) /\ i \in 1..Ahead' /\ i + 1 \in 1..Ahead'
    BY <1>1
  <2>3. Unit(i)' = Unit(i) /\ Unit(i + 1)' = Unit(i + 1)
    BY <1>1, <2>2, Zenon
  <2>4. Follows(Unit(i), Unit(i + 1))
    BY <2>1, <2>2
  <2>5. QED
    BY <2>3, <2>4, Zenon
<1>3. \A i \in 1..(Ahead' - 2) : FollowsPalette(Unit(i)', Unit(i + 2)')
  <2>1. \A i \in 1..(Ahead - 2) : FollowsPalette(Unit(i), Unit(i + 2))
    BY Zenon DEF IInv, FramingInv
  <2> TAKE i \in 1..(Ahead' - 2)
  <2>2. i \in 1..(Ahead - 2) /\ i \in 1..Ahead' /\ i + 2 \in 1..Ahead'
    BY <1>1
  <2>3. Unit(i)' = Unit(i) /\ Unit(i + 2)' = Unit(i + 2)
    BY <1>1, <2>2, Zenon
  <2>4. FollowsPalette(Unit(i), Unit(i + 2))
    BY <2>1, <2>2
  <2>5. QED
    BY <2>3, <2>4, Zenon
<1>4. /\ Ahead' > 0 /\ pc' \in LinePcs => Unit(1)'.unit = "line"
      /\ Ahead' > 0 /\ pc' \in {"header", "palette", "bitmap"} => Unit(1)'.unit = pc'
      /\ Ahead' > 0 /\ pc' = "bitmap" => Unit(1)'.wnd = header'.arg
      /\ Ahead' > 1 /\ pc' = "palette" =>
           /\ Unit(2)'.unit = AfterPalette(header')
           /\ Unit(2)'.unit = "bitmap" => Unit(2)'.wnd = header'.arg
  BY <1>1 DEF IInv, FramingInv
<1>5. QED
  BY <1>2, <1>3, <1>4
     DEF FramingInv, Follows, FollowsPalette, AfterUnitHeader, AfterPalette, LinePcs

\* A unit that is sent was in the stream before.
LEMMA SendFraming == IInv /\ ServerSendsUnit => FramingInv'
<1> SUFFICES ASSUME IInv, ServerSendsUnit PROVE FramingInv'
  OBVIOUS
<1>1. /\ Ahead' = Ahead /\ Ahead \in Nat /\ \A i \in 1..Ahead : Unit(i)' = Unit(i)
      /\ pc' = pc /\ header' = header
  <2>1. Ahead' = Ahead /\ Ahead \in Nat /\ \A i \in Nat \ {0} : Unit(i)' = Unit(i)
    BY SendUnit, StreamTypes DEF IInv
  <2>2. \A i \in 1..Ahead : Unit(i)' = Unit(i)
    BY <2>1
  <2>3. QED
    BY <2>1, <2>2 DEF ServerSendsUnit
<1>2. \A i \in 1..(Ahead' - 1) : Follows(Unit(i)', Unit(i + 1)')
  <2>1. \A i \in 1..(Ahead - 1) : Follows(Unit(i), Unit(i + 1))
    BY Zenon DEF IInv, FramingInv
  <2> TAKE i \in 1..(Ahead' - 1)
  <2>2. i \in 1..(Ahead - 1) /\ i \in 1..Ahead' /\ i + 1 \in 1..Ahead'
    BY <1>1
  <2>3. Unit(i)' = Unit(i) /\ Unit(i + 1)' = Unit(i + 1)
    BY <1>1, <2>2, Zenon
  <2>4. Follows(Unit(i), Unit(i + 1))
    BY <2>1, <2>2
  <2>5. QED
    BY <2>3, <2>4, Zenon
<1>3. \A i \in 1..(Ahead' - 2) : FollowsPalette(Unit(i)', Unit(i + 2)')
  <2>1. \A i \in 1..(Ahead - 2) : FollowsPalette(Unit(i), Unit(i + 2))
    BY Zenon DEF IInv, FramingInv
  <2> TAKE i \in 1..(Ahead' - 2)
  <2>2. i \in 1..(Ahead - 2) /\ i \in 1..Ahead' /\ i + 2 \in 1..Ahead'
    BY <1>1
  <2>3. Unit(i)' = Unit(i) /\ Unit(i + 2)' = Unit(i + 2)
    BY <1>1, <2>2, Zenon
  <2>4. FollowsPalette(Unit(i), Unit(i + 2))
    BY <2>1, <2>2
  <2>5. QED
    BY <2>3, <2>4, Zenon
<1>4. /\ Ahead' > 0 /\ pc' \in LinePcs => Unit(1)'.unit = "line"
      /\ Ahead' > 0 /\ pc' \in {"header", "palette", "bitmap"} => Unit(1)'.unit = pc'
      /\ Ahead' > 0 /\ pc' = "bitmap" => Unit(1)'.wnd = header'.arg
      /\ Ahead' > 1 /\ pc' = "palette" =>
           /\ Unit(2)'.unit = AfterPalette(header')
           /\ Unit(2)'.unit = "bitmap" => Unit(2)'.wnd = header'.arg
  BY <1>1 DEF IInv, FramingInv
<1>5. QED
  BY <1>2, <1>3, <1>4
     DEF FramingInv, Follows, FollowsPalette, AfterUnitHeader, AfterPalette, LinePcs

\* What follows the stream before a message follows it after the message,
\* because both begin with a line.
LEMMA LineForLine ==
  ASSUME NEW u, NEW v, NEW w, v.unit = "line", w.unit = "line"
  PROVE  /\ Follows(u, v) => Follows(u, w)
         /\ FollowsPalette(u, v) => FollowsPalette(u, w)
  BY DEF Follows, FollowsPalette

\* A message that begins where the client expects a line.
LEMMA SayFraming == IInv /\ ServerStarts => FramingInv'
<1> SUFFICES ASSUME IInv, ServerStarts PROVE FramingInv'
  OBVIOUS
<1>1. PICK m \in Seq(Units) :
        /\ Message(m)
        /\ Ahead = Len(inbox) + 1 /\ Ahead' = Len(inbox) + Len(m) + 1
        /\ Unit(Len(inbox) + 1) = Line("blank")
        /\ \A i \in 1..Ahead' :
             Unit(i)' = IF i <= Len(inbox) THEN Unit(i)
                        ELSE IF i <= Len(inbox) + Len(m) THEN m[i - Len(inbox)]
                        ELSE Line("blank")
  BY SayStream DEF IInv
<1> DEFINE n == Len(inbox)
           k == Len(m)
<1>2. /\ n \in Nat /\ k \in Nat /\ k > 0 /\ pc' = pc /\ header' = header
      /\ Line("blank").unit = "line" /\ m[1].unit = "line"
  BY <1>1, StreamTypes, UnitFacts DEF IInv, Message, ServerStarts
<1>3. /\ \A i \in 1..n : Follows(Unit(i), Unit(i + 1))
      /\ \A i \in 1..(n - 1) : FollowsPalette(Unit(i), Unit(i + 2))
  BY <1>1, <1>2 DEF IInv, FramingInv
<1>4. \A i \in 1..Ahead' :
        /\ i <= n => Unit(i)' = Unit(i)
        /\ n < i /\ i <= n + k => Unit(i)' = m[i - n]
        /\ i = n + k + 1 => Unit(i)' = Line("blank")
  BY <1>1, <1>2
<1>5. Ahead' = n + k + 1 /\ Unit(n + 1) = Line("blank") /\ Ahead = n + 1
  BY <1>1
<1>6. /\ \A j \in 1..(k - 1) : Follows(m[j], m[j + 1])
      /\ \A j \in 1..(k - 2) : FollowsPalette(m[j], m[j + 2])
      /\ Follows(m[k], Line("blank"))
      /\ k > 1 => FollowsPalette(m[k - 1], Line("blank"))
  BY <1>1 DEF Message
<1> HIDE DEF n, k
<1>7. ASSUME NEW i \in 1..(Ahead' - 1) PROVE Follows(Unit(i)', Unit(i + 1)')
  <2>0. i \in 1..Ahead' /\ i + 1 \in 1..Ahead'
    BY <1>2, <1>5
  <2>1. CASE i < n
    <3>1. Unit(i)' = Unit(i) /\ Unit(i + 1)' = Unit(i + 1)
      BY <1>2, <1>4, <2>0, <2>1
    <3>2. QED
      BY <1>2, <1>3, <2>1, <3>1
  <2>2. CASE i = n
    <3>1. Unit(i)' = Unit(i) /\ Unit(i + 1)' = m[1]
      BY <1>2, <1>4, <2>0, <2>2
    <3>2. Follows(Unit(i), Line("blank"))
      BY <1>2, <1>3, <1>5, <2>2
    <3>3. QED
      BY <1>2, <3>1, <3>2, LineForLine
  <2>3. CASE i > n /\ i < n + k
    <3>1. Unit(i)' = m[i - n] /\ Unit(i + 1)' = m[(i - n) + 1]
      <4>1. (i + 1) - n = (i - n) + 1
        BY <1>2
      <4>2. QED
        BY <1>2, <1>4, <2>0, <2>3, <4>1
    <3>2. i - n \in 1..(k - 1)
      BY <1>2, <2>3
    <3>3. QED
      BY <1>6, <3>1, <3>2
  <2>4. CASE i = n + k
    <3>1. Unit(i)' = m[k] /\ Unit(i + 1)' = Line("blank")
      <4>1. i - n = k /\ i + 1 = n + k + 1 /\ n < i
        BY <1>2, <2>4
      <4>2. QED
        BY <1>2, <1>4, <2>0, <2>4, <4>1
    <3>2. QED
      BY <1>6, <3>1
  <2>5. QED
    BY <1>2, <1>5, <2>1, <2>2, <2>3, <2>4
<1>8. ASSUME NEW i \in 1..(Ahead' - 2)
      PROVE  FollowsPalette(Unit(i)', Unit(i + 2)')
  <2>0. i \in 1..Ahead' /\ i + 2 \in 1..Ahead'
    BY <1>2, <1>5
  <2>1. CASE i < n - 1
    <3>1. Unit(i)' = Unit(i) /\ Unit(i + 2)' = Unit(i + 2)
      BY <1>2, <1>4, <2>0, <2>1
    <3>2. QED
      BY <1>2, <1>3, <2>1, <3>1
  <2>2. CASE i = n - 1
    <3>1. Unit(i)' = Unit(i) /\ Unit(i + 2)' = m[1]
      <4>1. (i + 2) - n = 1 /\ i <= n
        BY <1>2, <2>2
      <4>2. QED
        BY <1>2, <1>4, <2>0, <4>1
    <3>2. FollowsPalette(Unit(i), Line("blank"))
      <4>1. i + 2 = n + 1 /\ i \in 1..(n - 1)
        BY <1>2, <2>2
      <4>2. QED
        BY <1>3, <1>5, <4>1
    <3>3. QED
      BY <1>2, <3>1, <3>2, LineForLine
  <2>3. CASE i = n
    <3>1. Unit(i)' = Unit(i)
      BY <1>2, <1>4, <2>0, <2>3
    <3>2. Follows(Unit(i), Line("blank"))
      BY <1>2, <1>3, <1>5, <2>3
    <3>3. QED
      BY <1>2, <3>1, <3>2 DEF Follows, FollowsPalette, AfterUnitHeader
  <2>4. CASE i > n /\ i < n + k - 1
    <3>1. Unit(i)' = m[i - n] /\ Unit(i + 2)' = m[(i - n) + 2]
      <4>1. (i + 2) - n = (i - n) + 2
        BY <1>2
      <4>2. QED
        BY <1>2, <1>4, <2>0, <2>4, <4>1
    <3>2. i - n \in 1..(k - 2)
      BY <1>2, <2>4
    <3>3. QED
      BY <1>6, <3>1, <3>2
  <2>5. CASE i > n /\ i = n + k - 1
    <3>1. Unit(i)' = m[k - 1] /\ Unit(i + 2)' = Line("blank") /\ k > 1
      <4>1. i - n = k - 1 /\ i + 2 = n + k + 1 /\ k > 1 /\ i <= n + k
        BY <1>2, <2>5
      <4>2. QED
        BY <1>2, <1>4, <2>0, <2>5, <4>1
    <3>2. QED
      BY <1>6, <3>1
  <2>6. QED
    BY <1>2, <1>5, <2>1, <2>2, <2>3, <2>4, <2>5
<1>9. /\ pc' \in LinePcs => Unit(1)'.unit = "line"
      /\ pc' \in {"header", "palette", "bitmap"} => Unit(1)'.unit = pc'
      /\ pc' = "bitmap" => Unit(1)'.wnd = header'.arg
  <2>0. 1 \in 1..Ahead'
    BY <1>2, <1>5
  <2>1. CASE n = 0
    <3>1. Unit(1)' = m[1]
      BY <1>2, <1>4, <2>0, <2>1
    <3>2. Unit(1) = Line("blank") /\ Ahead > 0
      BY <1>5, <2>1
    <3>3. QED
      BY <1>2, <3>1, <3>2 DEF IInv, FramingInv
  <2>2. CASE n > 0
    <3>1. Unit(1)' = Unit(1) /\ Ahead > 0
      BY <1>2, <1>4, <1>5, <2>0, <2>2
    <3>2. QED
      BY <1>2, <3>1 DEF IInv, FramingInv
  <2>3. QED
    BY <1>2, <2>1, <2>2
<1>10. pc' = "palette" /\ Ahead' > 1 =>
         /\ Unit(2)'.unit = AfterPalette(header)
         /\ Unit(2)'.unit = "bitmap" => Unit(2)'.wnd = header.arg
  <2> SUFFICES ASSUME pc = "palette", Ahead' > 1
               PROVE  /\ Unit(2)'.unit = AfterPalette(header)
                      /\ Unit(2)'.unit = "bitmap" => Unit(2)'.wnd = header.arg
    BY <1>2
  <2>0. 2 \in 1..Ahead'
    BY <1>2, <1>5
  <2>1. n > 0
    <3>1. n = 0 => Unit(1) = Line("blank") /\ Ahead > 0
      BY <1>5
    <3>2. QED
      BY <1>2, <3>1 DEF IInv, FramingInv
  <2>2. CASE n = 1
    <3>1. Unit(2)' = m[1] /\ Unit(2) = Line("blank") /\ Ahead > 1
      <4>1. 2 - n = 1 /\ n + 1 = 2
        BY <2>2
      <4>2. QED
        BY <1>2, <1>4, <1>5, <2>0, <2>2, <4>1
    <3>2. QED
      BY <1>2, <3>1 DEF IInv, FramingInv
  <2>3. CASE n > 1
    <3>1. Unit(2)' = Unit(2) /\ Ahead > 1
      BY <1>2, <1>4, <1>5, <2>0, <2>3
    <3>2. QED
      BY <3>1 DEF IInv, FramingInv
  <2>4. QED
    BY <1>2, <2>1, <2>2, <2>3
<1>11. QED
  BY <1>2, <1>7, <1>8, <1>9, <1>10
     DEF FramingInv, Follows, FollowsPalette, AfterUnitHeader, AfterPalette, LinePcs

\* A new connection, and none.
LEMMA ConnectFraming == Connect => FramingInv'
<1> SUFFICES ASSUME Connect PROVE FramingInv'
  OBVIOUS
<1>1. /\ pc' = "handshake" /\ server' = "greeting" /\ todo' = <<>> /\ inbox' = <<>>
      /\ Len(inbox') = 0 /\ Len(todo') = 0
  BY DEF Connect
<1>2. Sent' = 0 /\ Ahead' = 1
  BY <1>1 DEF Sent, Ahead, Alive
<1>3. Unit(1)' = Line("blank")
  BY <1>1, <1>2 DEF Unit
<1>4. Unit(1)'.unit = "line"
  BY <1>3, UnitFacts
<1>5. QED
  BY <1>1, <1>2, <1>4 DEF FramingInv

LEMMA DeinitFraming == IInv /\ Deinit => FramingInv'
<1> SUFFICES ASSUME IInv, Deinit PROVE FramingInv'
  OBVIOUS
<1>1. CASE conn = "open"
  <2>1. /\ server' = "away" /\ inbox' = <<>> /\ Len(inbox') = 0
    BY <1>1 DEF Deinit
  <2>2. Ahead' = 0
    BY <2>1 DEF Ahead, Alive
  <2>3. QED
    BY <2>2 DEF FramingInv
<1>2. CASE conn # "open"
  BY <1>2, SameFraming DEF Deinit
<1>3. QED
  BY <1>1, <1>2

LEMMA FailsFraming == IInv /\ ReadFails => FramingInv'
<1> SUFFICES ASSUME IInv, ReadFails PROVE FramingInv'
  OBVIOUS
<1>1. /\ inbox = <<>> /\ Len(inbox) = 0 /\ server = "gone"
      /\ UNCHANGED <<server, todo, inbox>> /\ pc' \notin {"palette", "bitmap"}
  BY DEF ReadFails, AtEnd, net, AfterControl
<1>2. Ahead = 0
  BY <1>1 DEF Ahead, Alive
<1>3. QED
  BY <1>1, <1>2, SameFraming

LEMMA FramingStep == IInv /\ [Next]_vars => FramingInv'
<1>1. IInv /\ Quiet => FramingInv'
  <2> SUFFICES ASSUME IInv, Quiet PROVE FramingInv'
    OBVIOUS
  <2>1. UNCHANGED <<server, todo, inbox>>
        /\ (pc' \in {"palette", "bitmap"} => UNCHANGED header)
    BY QuietNet
  <2>2. QED
    BY <2>1, QuietPc, SameFraming
<1>2. QED
  BY <1>1, Steps, ReadsFraming, FailsFraming, ConnectFraming, DeinitFraming,
     SayFraming, SendFraming, CloseFraming

-----------------------------------------------------------------------------
(* The keyboard and the session *)

LEMMA KeysStep == IInv /\ [Next]_vars => KeysInv'
<1> SUFFICES ASSUME IInv, [Next]_vars PROVE KeysInv'
  OBVIOUS
<1>1. CASE PressKey
  <2>1. keys' # <<>>
    BY <1>1 DEF PressKey, IInv, TypeOK
  <2>2. QED
    BY <2>1 DEF KeysInv
<1>2. CASE Select
  BY <1>2 DEF Select, KeysInv, ControlPcs
<1>3. CASE GetEvent \/ GetEventTimesOut \/ SelectFails \/ HomeKey \/ ZoomKey
             \/ PowerOffKey \/ ForwardKey \/ Start \/ ConnectFails
             \/ ConfigRaisesSigpipe \/ Configure \/ Connect \/ Deinit
  <2>1. pc' \notin ControlPcs \cup {"keys"}
    BY <1>3 DEF GetEvent, GetEventTimesOut, SelectFails, HomeKey, ZoomKey,
           PowerOffKey, ForwardKey, TakeKey, Start, ConnectFails,
           ConfigRaisesSigpipe, Configure, Connect, Deinit, ControlPcs
  <2>2. QED
    BY <2>1 DEF KeysInv
<1>4. CASE AwaitClientId \/ ApplyOsd \/ ReadFails
  BY <1>4 DEF AwaitClientId, ApplyOsd, ReadFails, AfterControl, session, IInv,
         KeysInv, SessionInv, ControlPcs, LoopPcs
<1>5. CASE Reads
  <2>1. UNCHANGED <<keys, irReady, pb>> /\ pc \in ControlPcs
    BY <1>5 DEF Reads, ReadLine, ReadHeader, ReadPalette, ReadBitmap, session,
           ControlPcs
  <2>2. pc' = "keys" => pb /\ irReady
    BY <1>5 DEF Reads, ReadLine, ReadHeader, ReadPalette, ReadBitmap, AfterLine,
           AfterHeader, AfterControl
  <2>3. QED
    BY <2>1, <2>2 DEF IInv, KeysInv
<1>6. CASE ServerStarts \/ ServerSendsUnit \/ ServerCloses \/ PlaybackEvent
             \/ UNCHANGED vars
  <2>1. UNCHANGED <<pc, keys, irReady, pb>>
    BY <1>6 DEF ServerStarts, ServerSendsUnit, ServerCloses, PlaybackEvent, session,
           vars
  <2>2. QED
    BY <2>1 DEF IInv, KeysInv
<1>7. QED
  BY <1>1, <1>2, <1>3, <1>4, <1>5, <1>6, Steps DEF Quiet, MainLoop

-----------------------------------------------------------------------------
(* The handshake *)

\* The client's place, its id and the stream, as they were for this purpose.
LEMMA SameGreeting ==
  ASSUME IInv, UNCHANGED <<server, todo, inbox>>,
         pc' \in {"handshake", "line"} /\ ~pb' =>
           /\ pc \in {"handshake", "line"} /\ ~pb /\ clientId' = clientId
           /\ pc' = "line" => ~clientId
  PROVE  GreetingInv'
<1>1. Sent' = Sent /\ \A i \in Int : Unit(i)' = Unit(i)
  BY DEF Sent, Unit
<1>2. Sent \in Nat
  BY StreamTypes DEF IInv
<1>3. AwaitsId' => AwaitsId
  BY DEF AwaitsId
<1>4. ASSUME AwaitsId', NEW i \in 1..Sent'
      PROVE  Greeting(Unit(i)') \/ \E j \in 1..(i - 1) : Unit(j)' = Line("CLIENT-ID")
  <2>1. Greeting(Unit(i)) \/ \E j \in 1..(i - 1) : Unit(j) = Line("CLIENT-ID")
    BY <1>1, <1>3, <1>4 DEF IInv, GreetingInv
  <2>2. QED
    BY <1>1, <2>1
<1>5. AwaitsId' /\ server' = "serving" => \E j \in 1..Sent' : Unit(j)' = Line("CLIENT-ID")
  BY <1>1, <1>3 DEF IInv, GreetingInv
<1>6. QED
  BY <1>1, <1>4, <1>5 DEF GreetingInv, Greeting

LEMMA QuietGreeting ==
  ASSUME IInv, Quiet \/ ReadFails
  PROVE  GreetingInv'
<1>1. UNCHANGED <<server, todo, inbox>>
  BY QuietNet DEF ReadFails, AtEnd, net
<1>2. CASE Start \/ ConnectFails \/ ConfigRaisesSigpipe \/ Configure \/ AwaitClientId \/ ApplyOsd
  BY <1>1, <1>2, SameGreeting
     DEF Start, ConnectFails, ConfigRaisesSigpipe, Configure, AwaitClientId, ApplyOsd, AfterControl,
         session, IInv, SessionInv, LoopPcs, ControlPcs
<1>3. CASE MainLoop
  <2>1. pc \in LoopPcs /\ pb' = pb
    BY <1>3 DEF MainLoop, GetEvent, GetEventTimesOut, Select, SelectFails, HomeKey,
           ZoomKey, PowerOffKey, ForwardKey, TakeKey, session, LoopPcs
  <2>2. pb
    BY <2>1 DEF IInv, SessionInv, LoopPcs, ControlPcs
  <2>3. QED
    BY <1>1, <2>1, <2>2, SameGreeting
<1>4. CASE PressKey \/ PlaybackEvent \/ UNCHANGED vars
  <2>1. UNCHANGED <<pc, pb, clientId>>
    BY <1>4 DEF PressKey, PlaybackEvent, vars, session
  <2>2. pc = "line" /\ ~pb => ~clientId
    BY DEF IInv, GreetingInv
  <2>3. QED
    BY <1>1, <2>1, <2>2, SameGreeting
<1>5. CASE ReadFails
  <2>1. UNCHANGED <<pb, clientId>> /\ pc \in ControlPcs \ {"apply"} /\ pc' = AfterControl
    BY <1>5 DEF ReadFails, session
  <2>2. pc' = "line" => FALSE
    BY <2>1 DEF AfterControl
  <2>3. ~pb => pc = "line"
    BY <2>1 DEF IInv, SessionInv, LoopPcs, ControlPcs
  <2>4. QED
    BY <1>1, <2>1, <2>2, <2>3, SameGreeting
<1>6. QED
  BY <1>2, <1>3, <1>4, <1>5 DEF Quiet

\* In the handshake a line is read that is neither an OSD command nor a flush.
LEMMA GreetingLine ==
  ASSUME IInv, ReadLine, ~pb
  PROVE  /\ ~clientId /\ AwaitsId /\ Greeting(Unit(1)) /\ Unit(1) = Head(inbox)
         /\ pc' = IF Unit(1) = Line("blank") THEN "line" ELSE "handshake"
         /\ clientId' = (Unit(1) = Line("CLIENT-ID"))
<1>1. /\ Unit(1) = Head(inbox) /\ Sent > 0 /\ Sent \in Nat
  <2>1. Receive
    BY DEF ReadLine
  <2>2. Unit(1) = Head(inbox) /\ Len(inbox) > 0
    BY <2>1, TakeUnit DEF IInv
  <2>3. QED
    BY <2>2, StreamTypes DEF IInv
<1>2. ~clientId /\ AwaitsId
  BY DEF ReadLine, IInv, GreetingInv, AwaitsId
<1>3. Greeting(Unit(1))
  <2>1. 1 \in 1..Sent /\ 1..(1 - 1) = {}
    BY <1>1
  <2>2. QED
    BY <1>2, <2>1 DEF IInv, GreetingInv
<1>4. pc' = AfterLine(Unit(1).text) /\ clientId' = (clientId \/ Unit(1).text = "CLIENT-ID")
  BY <1>1 DEF ReadLine
<1>5. CASE Unit(1) = Line("blank")
  <2>1. Unit(1).text = "blank" /\ Line("blank") # Line("CLIENT-ID")
    BY <1>5 DEF Line
  <2>2. QED
    BY <1>1, <1>2, <1>3, <1>4, <1>5, <2>1 DEF AfterLine
<1>6. CASE Unit(1) = Line("other")
  <2>1. Unit(1).text = "other" /\ Line("other") # Line("CLIENT-ID")
        /\ Line("other") # Line("blank")
    BY <1>6 DEF Line
  <2>2. QED
    BY <1>1, <1>2, <1>3, <1>4, <1>6, <2>1 DEF AfterLine, AfterControl
<1>7. CASE Unit(1) = Line("CLIENT-ID")
  <2>1. Unit(1).text = "CLIENT-ID" /\ Line("CLIENT-ID") # Line("blank")
    BY <1>7 DEF Line
  <2>2. QED
    BY <1>1, <1>2, <1>3, <1>4, <1>7, <2>1 DEF AfterLine, AfterControl
<1>8. QED
  BY <1>3, <1>5, <1>6, <1>7 DEF Greeting

LEMMA ReadsGreeting == IInv /\ Reads => GreetingInv'
<1> SUFFICES ASSUME IInv, Reads PROVE GreetingInv'
  OBVIOUS
<1>1. pb' = pb
  BY DEF Reads, ReadLine, ReadHeader, ReadPalette, ReadBitmap, session
<1>2. CASE pb
  BY <1>1, <1>2 DEF GreetingInv, AwaitsId
<1>3. CASE ~pb
  <2>1. ReadLine
    BY <1>3 DEF Reads, ReadHeader, ReadPalette, ReadBitmap, IInv, SessionInv, LoopPcs,
           ControlPcs
  <2>2. /\ AwaitsId /\ clientId' = (Unit(1) = Line("CLIENT-ID"))
        /\ pc' = IF Unit(1) = Line("blank") THEN "line" ELSE "handshake"
    BY <1>3, <2>1, GreetingLine
  <2>3. Line("blank") # Line("CLIENT-ID")
    BY DEF Line
  <2>4. /\ Sent' = Sent - 1 /\ Sent \in Nat /\ UNCHANGED server
        /\ \A i \in Nat \ {0} : Unit(i)' = Unit(i + 1)
    BY ReadsTake, TakeUnit, StreamTypes DEF IInv
  <2>5. ASSUME AwaitsId', NEW i \in 1..Sent'
        PROVE  Greeting(Unit(i)') \/ \E j \in 1..(i - 1) : Unit(j)' = Line("CLIENT-ID")
    <3>1. /\ Unit(i)' = Unit(i + 1) /\ i + 1 \in 1..Sent
      BY <2>4
    <3>2. CASE Greeting(Unit(i + 1))
      BY <3>1, <3>2
    <3>3. CASE ~Greeting(Unit(i + 1))
      <4>1. PICK j \in 1..((i + 1) - 1) : Unit(j) = Line("CLIENT-ID")
        BY <2>2, <3>1, <3>3 DEF IInv, GreetingInv
      <4>2. j # 1
        BY <2>2, <2>5, <4>1 DEF AwaitsId
      <4>3. j - 1 \in 1..(i - 1) /\ j - 1 \in Nat \ {0} /\ (j - 1) + 1 = j
        BY <2>4, <4>1, <4>2
      <4>4. Unit(j - 1)' = Line("CLIENT-ID")
        BY <2>4, <4>1, <4>3
      <4>5. QED
        BY <4>3, <4>4
    <3>4. QED
      BY <3>2, <3>3
  <2>6. ASSUME AwaitsId', server' = "serving"
        PROVE  \E j \in 1..Sent' : Unit(j)' = Line("CLIENT-ID")
    <3>1. PICK j \in 1..Sent : Unit(j) = Line("CLIENT-ID")
      BY <2>2, <2>4, <2>6 DEF IInv, GreetingInv
    <3>2. j # 1
      BY <2>2, <2>6, <3>1 DEF AwaitsId
    <3>3. j - 1 \in 1..Sent' /\ j - 1 \in Nat \ {0} /\ (j - 1) + 1 = j
      BY <2>4, <3>1, <3>2
    <3>4. QED
      BY <2>4, <3>1, <3>3
  <2>7. pc' = "line" => ~clientId'
    BY <2>2, <2>3
  <2>8. QED
    BY <2>5, <2>6, <2>7 DEF GreetingInv, Greeting
<1>4. QED
  BY <1>2, <1>3

LEMMA SayGreeting == IInv /\ ServerStarts => GreetingInv'
<1> SUFFICES ASSUME IInv, ServerStarts PROVE GreetingInv'
  OBVIOUS
<1>1. PICK m \in Seq(Units) :
        /\ Message(m) /\ Sent = Len(inbox) /\ Sent' = Len(inbox) + Len(m)
        /\ Ahead' = Len(inbox) + Len(m) + 1
        /\ \A i \in 1..Ahead' :
             Unit(i)' = IF i <= Len(inbox) THEN Unit(i)
                        ELSE IF i <= Len(inbox) + Len(m) THEN m[i - Len(inbox)]
                        ELSE Line("blank")
        /\ \/ server = "greeting" /\ server' = server
              /\ m \in {<<Line("blank")>>, <<Line("other")>>}
           \/ server = "greeting" /\ server' = "serving"
              /\ m = <<Line("CLIENT-ID")>>
           \/ server = "serving" /\ server' = server
  BY SayStream DEF IInv
<1> DEFINE n == Len(inbox)
<1>2. /\ n \in Nat /\ Len(m) \in Nat /\ UNCHANGED <<pc, pb, clientId>>
  BY <1>1, StreamTypes DEF IInv, ServerStarts, session
<1>3. /\ \A i \in 1..n : Unit(i)' = Unit(i)
      /\ \A i \in (n + 1)..Sent' : Unit(i)' = m[i - n]
  BY <1>1, <1>2
<1>4. n = Len(inbox)
  OBVIOUS
<1> HIDE DEF n
<1>5. AwaitsId' => AwaitsId
  BY <1>2 DEF AwaitsId
<1>6. server = "greeting" => Len(m) = 1 /\ Greeting(m[1])
  BY <1>1 DEF Greeting
<1>7. ASSUME AwaitsId', NEW i \in 1..Sent'
      PROVE  Greeting(Unit(i)') \/ \E j \in 1..(i - 1) : Unit(j)' = Line("CLIENT-ID")
  <2>1. CASE i <= n
    <3>1. Greeting(Unit(i)) \/ \E j \in 1..(i - 1) : Unit(j) = Line("CLIENT-ID")
      BY <1>1, <1>2, <1>4, <1>5, <1>7, <2>1 DEF IInv, GreetingInv
    <3>2. \A j \in 1..i : Unit(j)' = Unit(j)
      BY <1>2, <1>3, <2>1
    <3>3. QED
      BY <3>1, <3>2
  <2>2. CASE i > n /\ server = "greeting"
    <3>1. i - n = 1
      <4>1. Len(m) = 1 /\ Sent' = n + Len(m)
        BY <1>1, <1>4, <1>6, <2>2
      <4>2. QED
        BY <1>2, <1>4, <2>2, <4>1
    <3>2. Unit(i)' = m[i - n]
      BY <1>1, <1>2, <1>3, <1>4, <2>2
    <3>3. QED
      BY <1>6, <2>2, <3>1, <3>2
  <2>3. CASE i > n /\ server = "serving"
    <3>1. PICK j \in 1..n : Unit(j) = Line("CLIENT-ID")
      BY <1>1, <1>4, <1>5, <1>7, <2>3 DEF IInv, GreetingInv
    <3>2. j \in 1..(i - 1) /\ Unit(j)' = Unit(j)
      BY <1>2, <1>3, <2>3
    <3>3. QED
      BY <3>1, <3>2
  <2>4. QED
    BY <1>1, <1>2, <2>1, <2>2, <2>3
<1>8. ASSUME AwaitsId', server' = "serving"
      PROVE  \E j \in 1..Sent' : Unit(j)' = Line("CLIENT-ID")
  <2>1. CASE server = "serving"
    <3>1. PICK j \in 1..n : Unit(j) = Line("CLIENT-ID")
      BY <1>1, <1>4, <1>5, <1>8, <2>1 DEF IInv, GreetingInv
    <3>2. QED
      BY <1>1, <1>2, <1>3, <1>4, <3>1
  <2>2. CASE server # "serving"
    <3>1. m = <<Line("CLIENT-ID")>>
      BY <1>1, <1>8, <2>2
    <3>2. Len(m) = 1 /\ m[1] = Line("CLIENT-ID")
      BY <3>1
    <3>3. PICK j \in 1..Sent' : j \in (n + 1)..Sent' /\ j - n = 1
      <4>1. Sent' = n + 1
        BY <1>1, <1>4, <3>2
      <4>2. QED
        BY <1>2, <1>4, <4>1
    <3>4. Unit(j)' = m[j - n]
      BY <1>3, <3>3
    <3>5. QED
      BY <3>2, <3>3, <3>4
  <2>3. QED
    BY <2>1, <2>2
<1>9. pc' = "line" /\ ~pb' => ~clientId'
  BY <1>2 DEF IInv, GreetingInv
<1>10. QED
  BY <1>7, <1>8, <1>9 DEF GreetingInv, Greeting

LEMMA SendGreeting == IInv /\ ServerSendsUnit => GreetingInv'
<1> SUFFICES ASSUME IInv, ServerSendsUnit PROVE GreetingInv'
  OBVIOUS
<1>1. /\ Sent' = Sent /\ Sent \in Nat /\ UNCHANGED server
      /\ \A i \in Nat \ {0} : Unit(i)' = Unit(i)
  BY SendUnit, StreamTypes DEF IInv
<1>2. UNCHANGED <<pc, pb, clientId>>
  BY DEF ServerSendsUnit, session
<1>3. AwaitsId' => AwaitsId
  BY <1>2 DEF AwaitsId
<1>4. ASSUME AwaitsId', NEW i \in 1..Sent'
      PROVE  Greeting(Unit(i)') \/ \E j \in 1..(i - 1) : Unit(j)' = Line("CLIENT-ID")
  <2>1. Greeting(Unit(i)) \/ \E j \in 1..(i - 1) : Unit(j) = Line("CLIENT-ID")
    BY <1>1, <1>3, <1>4 DEF IInv, GreetingInv
  <2>2. QED
    BY <1>1, <2>1
<1>5. AwaitsId' /\ server' = "serving" => \E j \in 1..Sent' : Unit(j)' = Line("CLIENT-ID")
  BY <1>1, <1>3 DEF IInv, GreetingInv
<1>6. pc' = "line" /\ ~pb' => ~clientId'
  BY <1>2 DEF IInv, GreetingInv
<1>7. QED
  BY <1>4, <1>5, <1>6 DEF GreetingInv, Greeting

LEMMA CloseGreeting == IInv /\ ServerCloses => GreetingInv'
<1> SUFFICES ASSUME IInv, ServerCloses PROVE GreetingInv'
  OBVIOUS
<1>1. /\ Sent' = Len(inbox) /\ Len(inbox) \in Nat /\ Len(inbox) <= Sent /\ Sent \in Nat
      /\ server' = "gone" /\ \A i \in 1..Len(inbox) : Unit(i)' = Unit(i)
  BY CloseStream, StreamTypes DEF IInv
<1>2. UNCHANGED <<pc, pb, clientId>>
  BY DEF ServerCloses, session
<1>3. AwaitsId' => AwaitsId
  BY <1>2 DEF AwaitsId
<1>4. ASSUME AwaitsId', NEW i \in 1..Sent'
      PROVE  Greeting(Unit(i)') \/ \E j \in 1..(i - 1) : Unit(j)' = Line("CLIENT-ID")
  <2>1. Greeting(Unit(i)) \/ \E j \in 1..(i - 1) : Unit(j) = Line("CLIENT-ID")
    BY <1>1, <1>3, <1>4 DEF IInv, GreetingInv
  <2>2. \A j \in 1..i : Unit(j)' = Unit(j)
    BY <1>1
  <2>3. QED
    BY <2>1, <2>2
<1>5. pc' = "line" /\ ~pb' => ~clientId'
  BY <1>2 DEF IInv, GreetingInv
<1>6. QED
  BY <1>1, <1>4, <1>5 DEF GreetingInv, Greeting

LEMMA GreetingStep == IInv /\ [Next]_vars => GreetingInv'
<1>1. Connect => GreetingInv'
  <2> SUFFICES ASSUME Connect PROVE GreetingInv'
    OBVIOUS
  <2>1. /\ pc' = "handshake" /\ server' = "greeting"
        /\ Len(inbox') = 0 /\ Len(todo') = 0
    BY DEF Connect
  <2>2. Sent' = 0 /\ 1..0 = {}
    BY <2>1 DEF Sent
  <2>3. QED
    BY <2>1, <2>2 DEF GreetingInv
<1>2. Deinit => GreetingInv'
  <2> SUFFICES ASSUME Deinit PROVE GreetingInv'
    OBVIOUS
  <2>1. pc' = "idle"
    BY DEF Deinit
  <2>2. QED
    BY <2>1 DEF GreetingInv, AwaitsId
<1>3. QED
  BY <1>1, <1>2, Steps, QuietGreeting, ReadsGreeting, SayGreeting, SendGreeting,
     CloseGreeting

-----------------------------------------------------------------------------
(* The session *)

LEMMA SessionStep == IInv /\ [Next]_vars => SessionInv'
<1> SUFFICES ASSUME IInv, [Next]_vars PROVE SessionInv'
  OBVIOUS
<1> USE DEF IInv, SessionInv
<1>1. CASE Start \/ ConnectFails \/ Connect \/ AwaitClientId \/ ConfigRaisesSigpipe
  <2>1. UNCHANGED <<osd, pb, playing, zoom, cropped, events>> /\ ~pb
    BY <1>1 DEF Start, ConnectFails, Connect, AwaitClientId, ConfigRaisesSigpipe, session, screen
  <2>2. /\ pc' \in {"connect", "deinit", "handshake", "line", "killed"}
        /\ pc' = "connect" => conn' = "none"
    BY <1>1 DEF Start, ConnectFails, Connect, AwaitClientId, ConfigRaisesSigpipe
  <2>3. libHeld' = TRUE
    BY <1>1 DEF Start, ConnectFails, Connect, AwaitClientId, ConfigRaisesSigpipe, session
  <2>4. libHeld' = (pc' # "idle")
    BY <2>2, <2>3
  <2>5. QED
    BY <2>1, <2>2, <2>4 DEF LoopPcs, ControlPcs
<1>2. CASE Configure
  <2>1. /\ pc = "handshake" /\ pc' = "event" /\ osd' = TRUE /\ pb' = TRUE
        /\ playing' = TRUE /\ zoom' = FALSE /\ cropped' = cropped
        /\ libHeld' = libHeld
    BY <1>2 DEF Configure
  <2>2. cropped = FALSE
    BY <2>1 DEF TypeOK
  <2>3. QED
    BY <2>1, <2>2 DEF LoopPcs, ControlPcs
<1>3. CASE MainLoop
  <2>1. /\ pc \in LoopPcs /\ UNCHANGED <<osd, pb, playing, libHeld, conn>>
        /\ pc' \in LoopPcs \cup {"line", "deinit", "exit99", "killed"}
        /\ cropped' = zoom'
    BY <1>3 DEF MainLoop, GetEvent, GetEventTimesOut, Select, SelectFails, HomeKey,
           ZoomKey, PowerOffKey, ForwardKey, TakeKey, session, screen, LoopPcs
  <2>2. pb
    BY <2>1 DEF LoopPcs, ControlPcs
  <2>3. QED
    BY <2>1, <2>2 DEF LoopPcs, ControlPcs
<1>4. CASE ReadLine /\ ~pb
  <2>1. /\ pc = "line" /\ pc' \in {"line", "handshake"}
        /\ UNCHANGED <<osd, pb, playing, libHeld, conn, zoom, cropped, events>>
    BY <1>4, GreetingLine DEF ReadLine, screen
  <2>2. QED
    BY <1>4, <2>1 DEF LoopPcs, ControlPcs
<1>5. CASE (Reads \/ ApplyOsd \/ ReadFails) /\ pb
  <2>1. /\ pc \in ControlPcs
        /\ pc' \in LoopPcs \cup ControlPcs \cup {"killed"}
        /\ UNCHANGED <<osd, pb, playing, libHeld, conn, zoom, cropped>>
    BY <1>5 DEF Reads, ReadLine, ReadHeader, ReadPalette, ReadBitmap, ApplyOsd,
           ReadFails, AfterLine, AfterHeader, AfterControl, session, screen,
           LoopPcs, ControlPcs
  <2>2. QED
    BY <1>5, <2>1 DEF LoopPcs, ControlPcs
<1>6. CASE ReadFails /\ ~pb
  <2>1. /\ pc = "line" /\ pc' = "handshake"
        /\ UNCHANGED <<osd, pb, playing, libHeld, conn, zoom, cropped, events>>
    BY <1>6 DEF ReadFails, AfterControl, session, screen, LoopPcs, ControlPcs
  <2>2. QED
    BY <1>6, <2>1 DEF LoopPcs, ControlPcs
<1>7. CASE Deinit
  <2>1. /\ pc' = "idle" /\ conn' = "none" /\ osd' = FALSE /\ libHeld' = FALSE
        /\ zoom' = FALSE /\ cropped' = FALSE
    BY <1>7 DEF Deinit, ResetZoom
  <2>2. pb' = FALSE /\ playing' = FALSE /\ events' = <<>>
    BY <1>7 DEF Deinit, StopPlayback, TypeOK
  <2>3. QED
    BY <2>1, <2>2 DEF LoopPcs, ControlPcs
<1>8. CASE ServerStarts \/ ServerSendsUnit \/ ServerCloses \/ PressKey \/ UNCHANGED vars
  <2>1. UNCHANGED <<pc, osd, pb, playing, libHeld, conn, zoom, cropped, events>>
    BY <1>8 DEF ServerStarts, ServerSendsUnit, ServerCloses, PressKey, vars,
           session, screen
  <2>2. QED
    BY <2>1 DEF LoopPcs, ControlPcs
<1>9. CASE PlaybackEvent
  <2>1. UNCHANGED <<pc, osd, pb, playing, libHeld, conn, zoom, cropped>> /\ pb
    BY <1>9 DEF PlaybackEvent, session, screen
  <2>2. QED
    BY <2>1 DEF LoopPcs, ControlPcs
<1>10. ~pb /\ (Reads \/ ApplyOsd) => ReadLine
  BY DEF Reads, ReadHeader, ReadPalette, ReadBitmap, ApplyOsd, LoopPcs, ControlPcs
<1>11. QED
  BY <1>1, <1>2, <1>3, <1>4, <1>5, <1>6, <1>7, <1>8, <1>9, <1>10, Steps DEF Quiet

-----------------------------------------------------------------------------
(* The overlay *)

LEMMA OverlayTypes ==
  ASSUME TypeOK
  PROVE  /\ shown \subseteq Windows /\ wanted \subseteq Windows /\ wiped \subseteq Windows
         /\ osdSize \in Sizes /\ said \in Sizes \cup {"unsaid"} /\ "unsaid" \notin Sizes
         /\ pb \in BOOLEAN /\ Len(inbox) \in Nat
  BY DEF TypeOK, Sizes

\* Where nothing is received the pictures and sizes that follow are the same.
LEMMA SameOverlay ==
  ASSUME IInv, UNCHANGED <<inbox, drawn>>,
         Connected' => Connected /\ Picture' = Picture /\ Size' = Size,
         pc' \in {"palette", "bitmap"} => UNCHANGED <<pc, header>>
  PROVE  OverlayInv'
<1>1. /\ pc' = "bitmap" => header'.cmd = "Set_RLE"
      /\ pc' = "palette" => header' \in Headers /\ header'.palette
  BY DEF IInv, OverlayInv
<1>2. ASSUME Connected'
      PROVE  /\ \E f \in [0..Len(inbox') -> SUBSET Windows] : Leads(f)'
             /\ \E g \in [0..Len(inbox') -> Sizes] : LeadsSize(g)'
  <2>1. PICK f \in [0..Len(inbox) -> SUBSET Windows] : Leads(f)
    BY <1>2 DEF IInv, OverlayInv
  <2>2. PICK g \in [0..Len(inbox) -> Sizes] : LeadsSize(g)
    BY <1>2 DEF IInv, OverlayInv
  <2>3. UNCHANGED <<wanted, wiped, said, inbox>> /\ Picture' = Picture /\ Size' = Size
    BY <1>2 DEF drawn
  <2>4. Leads(f)' /\ LeadsSize(g)'
    BY <2>1, <2>2, <2>3 DEF Leads, LeadsSize, After, Closes, SizeAfter, Sizing
  <2>5. QED
    BY <2>1, <2>2, <2>3, <2>4
<1>3. QED
  BY <1>1, <1>2 DEF OverlayInv

LEMMA QuietOverlay ==
  ASSUME IInv, Quiet \/ ReadFails \/ ServerStarts \/ ServerCloses
  PROVE  OverlayInv'
<1>1. UNCHANGED <<inbox, drawn>>
  BY QuietNet DEF ReadFails, AtEnd, net, ServerStarts, ServerSays, ServerCloses
<1> USE DEF Connected, LoopPcs, ControlPcs
<1>2. CASE Start \/ ConnectFails \/ ConfigRaisesSigpipe
  BY <1>1, <1>2, SameOverlay DEF Start, ConnectFails, ConfigRaisesSigpipe
<1>3. CASE AwaitClientId
  BY <1>1, <1>3, SameOverlay DEF AwaitClientId, session, screen, Picture, Size
<1>4. CASE Configure
  <2>1. ~pb
    BY <1>4 DEF Configure, IInv, SessionInv
  <2>2. Connected /\ pc' = "event" /\ pc = "handshake"
    BY <1>4 DEF Configure
  <2>3. Picture' = Picture /\ Size' = Size
    BY <1>4, <2>1, <2>2 DEF Configure, Picture, Size
  <2>4. QED
    BY <1>1, <2>2, <2>3, SameOverlay
<1>5. CASE ApplyOsd
  <2>1. pb /\ pb' = pb /\ pc = "apply"
    BY <1>5 DEF ApplyOsd, session, IInv, SessionInv
  <2>2. CASE Crashes(header)
    <3>1. pc' = "killed"
      BY <1>5, <2>2 DEF ApplyOsd
    <3>2. QED
      BY <1>1, <3>1, SameOverlay
  <2>3. CASE ~Crashes(header)
    <3>1. /\ pc' = AfterControl /\ shown' = Overlay(header)
          /\ osdSize' = IF header.cmd = "Size" THEN header.arg ELSE osdSize
      BY <1>5, <2>3 DEF ApplyOsd
    <3>2. pc' \in {"keys", "event"}
      BY <2>1, <3>1 DEF AfterControl
    <3>3. Picture = shown' /\ Picture' = shown'
      BY <2>1, <3>1, <3>2 DEF Picture
    <3>4. Size = osdSize' /\ Size' = osdSize'
      BY <2>1, <3>1, <3>2 DEF Size
    <3>5. QED
      BY <1>1, <2>1, <3>2, <3>3, <3>4, SameOverlay
  <2>4. QED
    BY <2>2, <2>3
<1>6. CASE MainLoop \/ ReadFails
  <2>1. /\ UNCHANGED <<shown, pb, osdSize>> /\ Connected
        /\ pc # "apply" /\ pc' \notin {"apply", "palette", "bitmap"}
    BY <1>6 DEF MainLoop, GetEvent, GetEventTimesOut, Select, SelectFails, HomeKey,
           ZoomKey, PowerOffKey, ForwardKey, TakeKey, ReadFails, AfterControl,
           session, screen
  <2>2. QED
    BY <1>1, <2>1, SameOverlay DEF Picture, Size
<1>7. CASE PressKey \/ PlaybackEvent \/ ServerStarts \/ ServerCloses \/ UNCHANGED vars
  <2>1. UNCHANGED <<pc, shown, pb, osdSize, header>>
    BY <1>7 DEF PressKey, PlaybackEvent, ServerStarts, ServerCloses, vars, session,
           screen
  <2>2. Picture' = Picture /\ Size' = Size
    BY <2>1 DEF Picture, Size, Overlay
  <2>3. QED
    BY <1>1, <2>1, <2>2, SameOverlay
<1>8. QED
  BY <1>2, <1>3, <1>4, <1>5, <1>6, <1>7 DEF Quiet

\* A unit that is read does to the picture what it says.
LEMMA UnitActs ==
  ASSUME IInv, Reads
  PROVE  /\ pc' = "bitmap" => header'.cmd = "Set_RLE"
         /\ pc' = "palette" => header' \in Headers /\ header'.palette
         /\ Picture' = After(Unit(1), Picture) /\ Size' = SizeAfter(Unit(1), Size)
<1> DEFINE u == Unit(1)
<1>1. u = Head(inbox) /\ u.unit = pc /\ u \in Units
  BY ReadsTake
<1>2. /\ UNCHANGED <<shown, pb, osdSize>> /\ pc # "apply"
  BY DEF Reads, ReadLine, ReadHeader, ReadPalette, ReadBitmap, session, screen
<1>3. pc # "line" => pb
  BY <1>1, ReadsTake DEF IInv, SessionInv, LoopPcs, ControlPcs
<1> HIDE DEF u
<1>4. CASE ReadLine
  <2>1. pc = "line" /\ pc' = AfterLine(Head(inbox).text)
    BY <1>4 DEF ReadLine
  <2>2. pc' \notin {"palette", "bitmap", "apply"}
    BY <2>1 DEF AfterLine, AfterControl
  <2>3. After(u, Picture) = Picture /\ SizeAfter(u, Size) = Size
    BY <1>1, <2>1 DEF After, SizeAfter, Closes, Sizing
  <2>4. Picture' = Picture /\ Size' = Size
    BY <1>2, <2>2 DEF Picture, Size
  <2>5. QED
    BY <2>2, <2>3, <2>4 DEF u
<1>5. CASE ReadHeader
  <2>1. /\ pc = "header" /\ header' = u.osdcmd /\ u.osdcmd \in Headers
        /\ pc' = AfterHeader(u.osdcmd) /\ pb /\ u.unit = "header"
    <3>1. pc = "header" /\ header' = u.osdcmd /\ pc' = AfterHeader(u.osdcmd)
      BY <1>1, <1>5 DEF ReadHeader
    <3>2. QED
      BY <1>1, <1>3, <3>1, UnitFacts
  <2>2. Picture = shown /\ Size = osdSize
    BY <2>1 DEF Picture, Size
  <2>3. CASE u.osdcmd.cmd \in {"Set_RLE", "SetPalette"}
    <3>1. pc' \in {"palette", "bitmap"} /\ (pc' = "palette" => u.osdcmd.palette)
          /\ (pc' = "bitmap" => u.osdcmd.cmd = "Set_RLE")
      BY <2>1, <2>3, HeaderFacts DEF AfterHeader
    <3>2. After(u, Picture) = Picture /\ SizeAfter(u, Size) = Size
      BY <2>1, <2>3 DEF After, SizeAfter, Closes, Sizing
    <3>3. Picture' = Picture /\ Size' = Size
      BY <1>2, <2>1, <3>1 DEF Picture, Size
    <3>4. QED
      BY <2>1, <3>1, <3>2, <3>3 DEF u
  <2>4. CASE u.osdcmd.cmd \in {"Close", "Size"}
    <3>1. pc' = "apply" /\ header' = u.osdcmd
      BY <2>1, <2>4, HeaderFacts DEF AfterHeader
    <3>2. CASE u.osdcmd.cmd = "Close"
      <4>1. After(u, Picture) = {} /\ SizeAfter(u, Size) = Size
        BY <2>1, <3>2 DEF After, SizeAfter, Closes, Sizing
      <4>2. Picture' = {} /\ Size' = Size
        BY <1>2, <2>2, <3>1, <3>2 DEF Picture, Size, Overlay
      <4>3. QED
        BY <3>1, <4>1, <4>2 DEF u
    <3>3. CASE u.osdcmd.cmd = "Size"
      <4>1. After(u, Picture) = shown /\ SizeAfter(u, Size) = u.osdcmd.arg
        BY <2>1, <2>2, <3>3 DEF After, SizeAfter, Closes, Sizing
      <4>2. Picture' = shown /\ Size' = u.osdcmd.arg
        BY <1>2, <2>2, <3>1, <3>3 DEF Picture, Size, Overlay
      <4>3. QED
        BY <3>1, <4>1, <4>2 DEF u
    <3>4. QED
      BY <2>4, <3>2, <3>3
  <2>5. QED
    BY <2>1, <2>3, <2>4, HeaderFacts
<1>6. CASE ReadPalette
  <2>1. /\ pc = "palette" /\ pc' = IF header.data THEN "bitmap" ELSE "apply"
        /\ header' = header /\ header \in Headers /\ header.palette /\ pb
    BY <1>3, <1>6 DEF ReadPalette, IInv, OverlayInv
  <2>2. After(u, Picture) = Picture /\ SizeAfter(u, Size) = Size
    BY <1>1, <2>1 DEF After, SizeAfter, Closes, Sizing
  <2>3. header.cmd \in {"Set_RLE", "SetPalette"} /\ (header.data => header.cmd = "Set_RLE")
        /\ (~header.data => header.cmd = "SetPalette")
    BY <2>1, HeaderFacts
  <2>4. Picture' = Picture /\ Size' = Size
    BY <1>2, <2>1, <2>3 DEF Picture, Size, Overlay
  <2>5. QED
    BY <2>1, <2>2, <2>3, <2>4 DEF u
<1>7. CASE ReadBitmap
  <2>1. /\ pc = "bitmap" /\ pc' = "apply" /\ header' = header
        /\ header.cmd = "Set_RLE" /\ pb
    BY <1>3, <1>7 DEF ReadBitmap, IInv, OverlayInv
  <2>2. u.unit = "bitmap" /\ u.wnd = header.arg
    <3>1. Ahead > 0
      BY ReadsTake, TakeUnit DEF IInv
    <3>2. QED
      BY <1>1, <2>1, <3>1 DEF IInv, FramingInv, u
  <2>3. /\ After(u, Picture) = shown \cup {header.arg}
        /\ SizeAfter(u, Size) = osdSize
    BY <2>1, <2>2 DEF After, SizeAfter, Sizing, Picture, Size
  <2>4. Picture' = shown \cup {header.arg} /\ Size' = osdSize
    BY <1>2, <2>1 DEF Picture, Size, Overlay
  <2>5. QED
    BY <2>1, <2>3, <2>4 DEF u
<1>8. QED
  BY <1>4, <1>5, <1>6, <1>7 DEF Reads

LEMMA ReadsOverlay == IInv /\ Reads => OverlayInv'
<1> SUFFICES ASSUME IInv, Reads PROVE OverlayInv'
  OBVIOUS
<1> DEFINE u == Unit(1)
           n == Len(inbox)
<1>1. /\ u = inbox[1] /\ n \in Nat /\ n > 0 /\ Len(inbox') = n - 1
      /\ \A i \in 1..(n - 1) : inbox'[i] = inbox[i + 1]
      /\ UNCHANGED <<wanted, wiped, said>>
  BY ReadsTake, TakeUnit, StreamTypes DEF IInv, drawn
<1>2. Picture' = After(u, Picture) /\ Size' = SizeAfter(u, Size)
  BY UnitActs
<1>3. Connected
  BY DEF Reads, ReadLine, ReadHeader, ReadPalette, ReadBitmap, Connected, ControlPcs
<1> HIDE DEF u
<1>4. PICK f \in [0..n -> SUBSET Windows] : Leads(f)
  BY <1>3 DEF IInv, OverlayInv
<1>5. PICK g \in [0..n -> Sizes] : LeadsSize(g)
  BY <1>3 DEF IInv, OverlayInv
<1>6. \E ff \in [0..Len(inbox') -> SUBSET Windows] : Leads(ff)'
  <2>1. f[0] = Picture /\ f[n] = wanted \ wiped
        /\ \A i \in 1..n : f[i] = After(inbox[i], f[i - 1])
    BY <1>4 DEF Leads
  <2>2. PICK ff \in [0..(n - 1) -> SUBSET Windows] : \A i \in 0..(n - 1) : ff[i] = f[i + 1]
    <3> DEFINE F == [i \in 0..(n - 1) |-> f[i + 1]]
    <3>1. F \in [0..(n - 1) -> SUBSET Windows] /\ \A i \in 0..(n - 1) : F[i] = f[i + 1]
      BY <1>1
    <3> HIDE DEF F
    <3>2. QED
      BY <3>1
  <2>3. ff[0] = Picture'
    <3>1. f[1] = After(inbox[1], f[0])
      <4>1. 1 \in 1..n /\ 1 - 1 = 0
        BY <1>1
      <4>2. QED
        BY <2>1, <4>1
    <3>2. ff[0] = f[1]
      BY <1>1, <2>2
    <3>3. QED
      BY <1>1, <1>2, <2>1, <3>1, <3>2
  <2>4. ff[n - 1] = wanted' \ wiped'
    BY <1>1, <2>1, <2>2
  <2>5. \A i \in 1..(n - 1) : ff[i] = After(inbox'[i], ff[i - 1])
    <3> TAKE i \in 1..(n - 1)
    <3>1. i + 1 \in 1..n /\ (i + 1) - 1 = i /\ i - 1 \in 0..(n - 1) /\ (i - 1) + 1 = i
          /\ i \in 0..(n - 1)
      BY <1>1
    <3>2. f[i + 1] = After(inbox[i + 1], f[i])
      BY <2>1, <3>1
    <3>3. ff[i] = f[i + 1] /\ ff[i - 1] = f[i]
      BY <2>2, <3>1
    <3>4. QED
      BY <1>1, <3>2, <3>3
  <2>6. /\ ff \in [0..Len(inbox') -> SUBSET Windows]
        /\ ff[0] = Picture' /\ ff[Len(inbox')] = wanted' \ wiped'
        /\ \A i \in 1..Len(inbox') : ff[i] = After(inbox'[i], ff[i - 1])
    BY <1>1, <2>2, <2>3, <2>4, <2>5, Zenon
  <2>7. QED
    BY <2>6, Zenon DEF Leads, After, Closes
<1>7. \E gg \in [0..Len(inbox') -> Sizes] : LeadsSize(gg)'
  <2>1. g[0] = Size /\ (said # "unsaid" => g[n] = said)
        /\ \A i \in 1..n : g[i] = SizeAfter(inbox[i], g[i - 1])
    BY <1>5 DEF LeadsSize
  <2>2. PICK gg \in [0..(n - 1) -> Sizes] : \A i \in 0..(n - 1) : gg[i] = g[i + 1]
    <3> DEFINE G == [i \in 0..(n - 1) |-> g[i + 1]]
    <3>1. G \in [0..(n - 1) -> Sizes] /\ \A i \in 0..(n - 1) : G[i] = g[i + 1]
      BY <1>1
    <3> HIDE DEF G
    <3>2. QED
      BY <3>1
  <2>3. gg[0] = Size'
    <3>1. g[1] = SizeAfter(inbox[1], g[0])
      <4>1. 1 \in 1..n /\ 1 - 1 = 0
        BY <1>1
      <4>2. QED
        BY <2>1, <4>1
    <3>2. gg[0] = g[1]
      BY <1>1, <2>2
    <3>3. QED
      BY <1>1, <1>2, <2>1, <3>1, <3>2
  <2>4. said' # "unsaid" => gg[n - 1] = said'
    <3>1. n - 1 \in 0..(n - 1) /\ (n - 1) + 1 = n
      BY <1>1
    <3>2. gg[n - 1] = g[n]
      BY <2>2, <3>1
    <3>3. said' = said /\ (said # "unsaid" => g[n] = said)
      BY <1>1, <2>1, Zenon
    <3>4. QED
      BY <3>2, <3>3, Zenon
  <2>5. \A i \in 1..(n - 1) : gg[i] = SizeAfter(inbox'[i], gg[i - 1])
    <3> TAKE i \in 1..(n - 1)
    <3>1. i + 1 \in 1..n /\ (i + 1) - 1 = i /\ i - 1 \in 0..(n - 1) /\ (i - 1) + 1 = i
          /\ i \in 0..(n - 1)
      BY <1>1
    <3>2. g[i + 1] = SizeAfter(inbox[i + 1], g[i])
      BY <2>1, <3>1
    <3>3. gg[i] = g[i + 1] /\ gg[i - 1] = g[i]
      BY <2>2, <3>1
    <3>4. QED
      BY <1>1, <3>2, <3>3
  <2>6. /\ gg \in [0..Len(inbox') -> Sizes]
        /\ gg[0] = Size' /\ (said' # "unsaid" => gg[Len(inbox')] = said')
        /\ \A i \in 1..Len(inbox') : gg[i] = SizeAfter(inbox'[i], gg[i - 1])
    BY <1>1, <2>2, <2>3, <2>4, <2>5, Zenon
  <2>7. QED
    BY <2>6, Zenon DEF LeadsSize, SizeAfter, Sizing
<1> HIDE DEF n
<1>8. QED
  BY <1>6, <1>7, UnitActs DEF OverlayInv

\* The server counts a unit that it sends as its last.
LEMMA TellsWhatFollows ==
  ASSUME TypeOK, NEW u \in Units, Tells(u)
  PROVE  /\ wanted' \ wiped' = After(u, wanted \ wiped)
         /\ wanted \ wiped \in SUBSET Windows
         /\ After(u, wanted \ wiped) \in SUBSET Windows
         /\ \A z \in Sizes : /\ SizeAfter(u, z) \in Sizes
                             /\ (said # "unsaid" => z = said)
                                  => (said' # "unsaid" => SizeAfter(u, z) = said')
<1>1. /\ wanted \subseteq Windows /\ wiped \subseteq Windows
      /\ u.unit = "bitmap" => u.wnd \in Windows
      /\ Sizing(u) => u.osdcmd.arg \in Sizes
      /\ Sizing(u) => ~Closes(u) /\ u.unit # "bitmap"
  BY OverlayTypes, UnitFacts, HeaderFacts DEF Sizing, Closes
<1>2. CASE u.unit = "bitmap"
  BY <1>1, <1>2 DEF Tells, After, SizeAfter, Sizing
<1>3. CASE u.unit # "bitmap" /\ Closes(u)
  BY <1>1, <1>3 DEF Tells, After, SizeAfter, Sizing, Closes
<1>4. CASE Sizing(u)
  BY <1>1, <1>4 DEF Tells, After, SizeAfter, Sizing, Closes
<1>5. CASE u.unit # "bitmap" /\ ~Closes(u) /\ ~Sizing(u)
  <2>1. UNCHANGED <<wanted, wiped, said>>
    BY <1>5 DEF Tells, Closes, Sizing, drawn
  <2>2. QED
    BY <1>1, <1>5, <2>1 DEF After, SizeAfter
<1>6. QED
  BY <1>2, <1>3, <1>4, <1>5

LEMMA SendOverlay == IInv /\ ServerSendsUnit => OverlayInv'
<1> SUFFICES ASSUME IInv, ServerSendsUnit PROVE OverlayInv'
  OBVIOUS
<1> DEFINE n == Len(inbox)
           u == Head(todo)
<1>1. /\ n \in Nat /\ Len(inbox') = n + 1 /\ inbox'[n + 1] = u /\ u \in Units
      /\ \A i \in 1..n : inbox'[i] = inbox[i]
  BY SendUnit, StreamTypes DEF IInv
<1>2. UNCHANGED <<pc, header, shown, pb, osdSize>> /\ Tells(u)
  BY DEF ServerSendsUnit, session, screen
<1>3. Picture' = Picture /\ Size' = Size /\ Connected' = Connected
  BY <1>2 DEF Picture, Size, Connected, Overlay
<1> HIDE DEF u
<1>4. /\ wanted' \ wiped' = After(u, wanted \ wiped)
      /\ After(u, wanted \ wiped) \in SUBSET Windows
      /\ \A z \in Sizes : /\ SizeAfter(u, z) \in Sizes
                          /\ (said # "unsaid" => z = said)
                               => (said' # "unsaid" => SizeAfter(u, z) = said')
  BY <1>1, <1>2, TellsWhatFollows DEF IInv
<1>5. ASSUME Connected'
      PROVE  \E ff \in [0..Len(inbox') -> SUBSET Windows] : Leads(ff)'
  <2>1. PICK f \in [0..n -> SUBSET Windows] : Leads(f)
    BY <1>3, <1>5 DEF IInv, OverlayInv
  <2>2. f[0] = Picture /\ f[n] = wanted \ wiped
        /\ \A i \in 1..n : f[i] = After(inbox[i], f[i - 1])
    BY <2>1 DEF Leads
  <2>3. PICK ff \in [0..(n + 1) -> SUBSET Windows] :
          \A i \in 0..(n + 1) : ff[i] = IF i <= n THEN f[i] ELSE wanted' \ wiped'
    <3> DEFINE F == [i \in 0..(n + 1) |-> IF i <= n THEN f[i] ELSE wanted' \ wiped']
    <3>1. /\ F \in [0..(n + 1) -> SUBSET Windows]
          /\ \A i \in 0..(n + 1) : F[i] = IF i <= n THEN f[i] ELSE wanted' \ wiped'
      BY <1>4, <2>1
    <3> HIDE DEF F
    <3>2. QED
      BY <3>1
  <2>4. ff[0] = Picture' /\ ff[n + 1] = wanted' \ wiped'
    BY <1>1, <1>3, <2>2, <2>3
  <2>5. \A i \in 1..(n + 1) : ff[i] = After(inbox'[i], ff[i - 1])
    <3> TAKE i \in 1..(n + 1)
    <3>1. CASE i <= n
      <4>1. ff[i] = f[i] /\ ff[i - 1] = f[i - 1] /\ i \in 1..n
        BY <1>1, <2>3, <3>1
      <4>2. QED
        BY <1>1, <2>2, <4>1
    <3>2. CASE i = n + 1
      <4>1. ff[i] = wanted' \ wiped' /\ ff[i - 1] = f[n]
        BY <1>1, <2>3, <3>2
      <4>2. QED
        BY <1>1, <1>4, <2>2, <3>2, <4>1
    <3>3. QED
      BY <1>1, <3>1, <3>2
  <2>6. /\ ff[0] = Picture' /\ ff[Len(inbox')] = wanted' \ wiped'
        /\ \A i \in 1..Len(inbox') : ff[i] = After(inbox'[i], ff[i - 1])
    BY <1>1, <2>4, <2>5, Zenon
  <2>7. Leads(ff)'
    BY <2>6, Zenon DEF Leads, After, Closes
  <2>8. QED
    BY <1>1, <2>3, <2>7
<1>6. ASSUME Connected'
      PROVE  \E gg \in [0..Len(inbox') -> Sizes] : LeadsSize(gg)'
  <2>1. PICK g \in [0..n -> Sizes] : LeadsSize(g)
    BY <1>3, <1>6 DEF IInv, OverlayInv
  <2> DEFINE last == SizeAfter(u, g[n])
  <2>2. g[0] = Size /\ (said # "unsaid" => g[n] = said)
        /\ \A i \in 1..n : g[i] = SizeAfter(inbox[i], g[i - 1])
    BY <2>1 DEF LeadsSize
  <2>3. last \in Sizes /\ (said' # "unsaid" => last = said')
    <3>1. g[n] \in Sizes
      BY <1>1, <2>1
    <3>2. QED
      BY <1>4, <2>2, <3>1
  <2> HIDE DEF last
  <2>4. PICK gg \in [0..(n + 1) -> Sizes] :
          \A i \in 0..(n + 1) : gg[i] = IF i <= n THEN g[i] ELSE last
    <3> DEFINE G == [i \in 0..(n + 1) |-> IF i <= n THEN g[i] ELSE last]
    <3>1. /\ G \in [0..(n + 1) -> Sizes]
          /\ \A i \in 0..(n + 1) : G[i] = IF i <= n THEN g[i] ELSE last
      BY <2>1, <2>3
    <3> HIDE DEF G
    <3>2. QED
      BY <3>1
  <2>5. gg[0] = Size' /\ (said' # "unsaid" => gg[n + 1] = said')
    BY <1>1, <1>3, <2>2, <2>3, <2>4
  <2>6. \A i \in 1..(n + 1) : gg[i] = SizeAfter(inbox'[i], gg[i - 1])
    <3> TAKE i \in 1..(n + 1)
    <3>1. CASE i <= n
      <4>1. gg[i] = g[i] /\ gg[i - 1] = g[i - 1] /\ i \in 1..n
        BY <1>1, <2>4, <3>1
      <4>2. QED
        BY <1>1, <2>2, <4>1
    <3>2. CASE i = n + 1
      <4>1. gg[i] = last /\ gg[i - 1] = g[n]
        BY <1>1, <2>4, <3>2
      <4>2. QED
        BY <1>1, <3>2, <4>1 DEF last
    <3>3. QED
      BY <1>1, <3>1, <3>2
  <2>7. /\ gg[0] = Size' /\ (said' # "unsaid" => gg[Len(inbox')] = said')
        /\ \A i \in 1..Len(inbox') : gg[i] = SizeAfter(inbox'[i], gg[i - 1])
    BY <1>1, <2>5, <2>6, Zenon
  <2>8. LeadsSize(gg)'
    BY <2>7, Zenon DEF LeadsSize, SizeAfter, Sizing
  <2>9. QED
    BY <1>1, <2>4, <2>8
<1>7. /\ pc' = "bitmap" => header'.cmd = "Set_RLE"
      /\ pc' = "palette" => header' \in Headers /\ header'.palette
  BY <1>2 DEF IInv, OverlayInv
<1>8. QED
  BY <1>5, <1>6, <1>7 DEF OverlayInv

LEMMA OverlayStep == IInv /\ [Next]_vars => OverlayInv'
<1> SUFFICES ASSUME IInv, [Next]_vars PROVE OverlayInv'
  OBVIOUS
<1>1. CASE Connect
  <2>1. /\ pc' = "handshake" /\ Len(inbox') = 0 /\ wanted' = {} /\ wiped' = {}
        /\ said' = "unsaid" /\ pb' = pb /\ osdSize' = osdSize
    BY <1>1 DEF Connect, NothingDrawn, screen
  <2>2. ~pb /\ osdSize \in Sizes
    BY <1>1, OverlayTypes DEF Connect, IInv, SessionInv
  <2>3. Picture' = {} /\ Size' = osdSize
    BY <2>1, <2>2 DEF Picture, Size
  <2> DEFINE f == [i \in 0..0 |-> {}]
             g == [i \in 0..0 |-> osdSize]
  <2>4. f \in [0..Len(inbox') -> SUBSET Windows] /\ Leads(f)'
    <3>1. f \in [0..0 -> SUBSET Windows] /\ f[0] = {}
      OBVIOUS
    <3> HIDE DEF f
    <3>2. QED
      BY <2>1, <2>3, <3>1 DEF Leads
  <2>5. g \in [0..Len(inbox') -> Sizes] /\ LeadsSize(g)'
    <3>1. g \in [0..0 -> Sizes] /\ g[0] = osdSize
      BY <2>2
    <3> HIDE DEF g
    <3>2. QED
      BY <2>1, <2>3, <3>1 DEF LeadsSize
  <2> HIDE DEF f, g
  <2>6. QED
    BY <2>1, <2>4, <2>5 DEF OverlayInv
<1>2. CASE Deinit
  BY <1>2 DEF Deinit, OverlayInv, Connected, LoopPcs, ControlPcs
<1>3. QED
  BY <1>1, <1>2, Steps, QuietOverlay, ReadsOverlay, SendOverlay

-----------------------------------------------------------------------------
(* Types *)

LEMMA FlagTypes ==
  TypeOK <=> /\ pc \in Pcs /\ conn \in {"none", "open", "stale"}
             /\ clientId \in BOOLEAN /\ osd \in BOOLEAN /\ pb \in BOOLEAN
             /\ playing \in BOOLEAN /\ zoom \in BOOLEAN /\ cropped \in BOOLEAN
             /\ libHeld \in BOOLEAN /\ irReady \in BOOLEAN
             /\ osdSize \in Sizes /\ said \in Sizes \cup {"unsaid"}
             /\ shown \subseteq Windows /\ wanted \subseteq Windows
             /\ wiped \subseteq Windows
             /\ header \in Headers \cup {NoHeader}
             /\ server \in {"away", "greeting", "serving", "gone"}
             /\ todo \in Seq(Units) /\ inbox \in Seq(Units)
             /\ keys \in Seq(Keys) /\ events \in Seq(Events)
<1>1. {clientId, osd, pb, playing, zoom, cropped, libHeld, irReady}
          \subseteq BOOLEAN
        <=> /\ clientId \in BOOLEAN /\ osd \in BOOLEAN /\ pb \in BOOLEAN
            /\ playing \in BOOLEAN /\ zoom \in BOOLEAN /\ cropped \in BOOLEAN
            /\ libHeld \in BOOLEAN /\ irReady \in BOOLEAN
  OBVIOUS
<1>2. QED
  BY <1>1 DEF TypeOK, Pcs

LEMMA NextFlagTypes ==
  TypeOK' <=> /\ pc' \in Pcs /\ conn' \in {"none", "open", "stale"}
             /\ clientId' \in BOOLEAN /\ osd' \in BOOLEAN /\ pb' \in BOOLEAN
             /\ playing' \in BOOLEAN /\ zoom' \in BOOLEAN /\ cropped' \in BOOLEAN
             /\ libHeld' \in BOOLEAN /\ irReady' \in BOOLEAN
             /\ osdSize' \in Sizes /\ said' \in Sizes \cup {"unsaid"}
             /\ shown' \subseteq Windows /\ wanted' \subseteq Windows
             /\ wiped' \subseteq Windows
             /\ header' \in Headers \cup {NoHeader}
             /\ server' \in {"away", "greeting", "serving", "gone"}
             /\ todo' \in Seq(Units) /\ inbox' \in Seq(Units)
             /\ keys' \in Seq(Keys) /\ events' \in Seq(Events)
<1>1. {clientId', osd', pb', playing', zoom', cropped', libHeld', irReady'}
          \subseteq BOOLEAN
        <=> /\ clientId' \in BOOLEAN /\ osd' \in BOOLEAN /\ pb' \in BOOLEAN
            /\ playing' \in BOOLEAN /\ zoom' \in BOOLEAN /\ cropped' \in BOOLEAN
            /\ libHeld' \in BOOLEAN /\ irReady' \in BOOLEAN
  OBVIOUS
<1>2. QED
  BY <1>1 DEF TypeOK, Pcs

\* What each step leaves of the control state.
LEMMA PcStep == IInv /\ [Next]_vars => pc' \in Pcs
<1> SUFFICES ASSUME IInv, [Next]_vars PROVE pc' \in Pcs
  OBVIOUS
<1> USE DEF Pcs, LoopPcs, ControlPcs
<1>1. pc \in Pcs
  BY FlagTypes DEF IInv
<1>2. CASE Start \/ ConnectFails \/ AwaitClientId \/ ConfigRaisesSigpipe \/ Configure \/ Connect \/ Deinit
  BY <1>2 DEF Start, ConnectFails, AwaitClientId, ConfigRaisesSigpipe, Configure, Connect, Deinit
<1>3. CASE MainLoop
  BY <1>3 DEF MainLoop, GetEvent, GetEventTimesOut, Select, SelectFails, HomeKey,
         ZoomKey, PowerOffKey, ForwardKey, TakeKey
<1>4. CASE Reads \/ ReadFails \/ ApplyOsd
  BY <1>4 DEF Reads, ReadLine, ReadHeader, ReadPalette, ReadBitmap, ReadFails,
         ApplyOsd, AfterLine, AfterHeader, AfterControl
<1>5. CASE ServerStarts \/ ServerSendsUnit \/ ServerCloses \/ PressKey
             \/ PlaybackEvent \/ UNCHANGED vars
  BY <1>1, <1>5 DEF ServerStarts, ServerSendsUnit, ServerCloses, PressKey,
         PlaybackEvent, vars
<1>6. QED
  BY <1>2, <1>3, <1>4, <1>5, Steps DEF Quiet

LEMMA TellsTypes ==
  ASSUME NEW u \in Units, Tells(u), wanted \subseteq Windows, wiped \subseteq Windows,
         said \in Sizes \cup {"unsaid"}
  PROVE  /\ wanted' \subseteq Windows /\ wiped' \subseteq Windows
         /\ said' \in Sizes \cup {"unsaid"}
<1>1. /\ u.unit = "bitmap" => u.wnd \in Windows
      /\ u.unit = "header" /\ u.osdcmd.cmd = "Size" => u.osdcmd.arg \in Sizes
  BY UnitFacts, HeaderFacts
<1>2. QED
  BY <1>1 DEF Tells, drawn

LEMMA TypeStep == IInv /\ [Next]_vars => TypeOK'
<1> SUFFICES ASSUME IInv, [Next]_vars PROVE TypeOK'
  OBVIOUS
<1>1. /\ pc' \in Pcs
      /\ conn \in {"none", "open", "stale"} /\ clientId \in BOOLEAN
      /\ osd \in BOOLEAN /\ pb \in BOOLEAN /\ playing \in BOOLEAN
      /\ zoom \in BOOLEAN /\ cropped \in BOOLEAN /\ libHeld \in BOOLEAN
      /\ irReady \in BOOLEAN
      /\ osdSize \in Sizes /\ said \in Sizes \cup {"unsaid"}
      /\ shown \subseteq Windows /\ wanted \subseteq Windows /\ wiped \subseteq Windows
      /\ header \in Headers \cup {NoHeader}
      /\ server \in {"away", "greeting", "serving", "gone"}
      /\ todo \in Seq(Units) /\ inbox \in Seq(Units)
      /\ keys \in Seq(Keys) /\ events \in Seq(Events)
  BY PcStep, FlagTypes DEF IInv
<1>2. CASE Start \/ ConnectFails \/ AwaitClientId \/ ConfigRaisesSigpipe \/ Configure
  BY <1>1, <1>2, NextFlagTypes DEF Start, ConnectFails, AwaitClientId, ConfigRaisesSigpipe, Configure,
         session, screen, net, drawn
<1>3. CASE Connect
  <2>1. todo' \in Seq(Units) /\ inbox' \in Seq(Units)
    BY <1>3 DEF Connect
  <2>2. QED
    BY <1>1, <1>3, <2>1, NextFlagTypes DEF Connect, NothingDrawn, screen
<1>4. CASE Deinit
  <2>1. todo' \in Seq(Units) /\ inbox' \in Seq(Units) /\ events' \in Seq(Events)
        /\ server' \in {"away", "greeting", "serving", "gone"}
    <3>1. /\ todo' = <<>> \/ todo' = todo
          /\ inbox' = <<>> \/ inbox' = inbox
          /\ events' = <<>> \/ events' = events
          /\ server' = "away" \/ server' = server
      BY <1>4 DEF Deinit, StopPlayback
    <3>2. <<>> \in Seq(Units) /\ <<>> \in Seq(Events)
      OBVIOUS
    <3>3. QED
      BY <1>1, <3>1, <3>2
  <2>2. pb' \in BOOLEAN /\ playing' \in BOOLEAN
    BY <1>1, <1>4 DEF Deinit, StopPlayback
  <2>3. QED
    BY <1>1, <1>4, <2>1, <2>2, NextFlagTypes DEF Deinit, NothingDrawn, ResetZoom
<1>5. CASE GetEvent \/ GetEventTimesOut \/ Select \/ SelectFails
  <2>1. events' \in Seq(Events)
    <3>1. events' = events \/ (events # <<>> /\ events' = Tail(events))
      BY <1>5 DEF GetEvent, GetEventTimesOut, Select, SelectFails
    <3>2. events \in Seq(Events)
      BY <1>1
    <3>3. events # <<>> => Tail(events) \in Seq(Events)
      BY <3>2
    <3>4. QED
      BY <3>1, <3>2, <3>3
  <2>2. irReady' \in BOOLEAN
    BY <1>1, <1>5 DEF GetEvent, GetEventTimesOut, Select, SelectFails
  <2>3. QED
    BY <1>1, <1>5, <2>1, <2>2, NextFlagTypes
       DEF GetEvent, GetEventTimesOut, Select, SelectFails, session, screen, net, drawn
<1>6. CASE HomeKey \/ ZoomKey \/ PowerOffKey \/ ForwardKey
  <2>1. UNCHANGED <<session, osdSize, shown, irReady, header, net, events>>
    BY <1>6 DEF HomeKey, ZoomKey, PowerOffKey, ForwardKey, TakeKey
  <2>2. keys' = Tail(keys) /\ keys # <<>>
    BY <1>6 DEF HomeKey, ZoomKey, PowerOffKey, ForwardKey, TakeKey
  <2>3. keys' \in Seq(Keys)
    BY <1>1, <2>2
  <2>4. zoom' \in BOOLEAN /\ cropped' \in BOOLEAN
    BY <1>1, <1>6 DEF HomeKey, ZoomKey, PowerOffKey, ForwardKey
  <2>5. QED
    BY <1>1, <2>1, <2>3, <2>4, NextFlagTypes DEF session, net, drawn
<1>7. CASE Reads
  <2>1. inbox' \in Seq(Units) /\ UNCHANGED <<server, todo, drawn>>
    BY <1>7, ReadsTake, TakeUnit DEF IInv
  <2>2. header' \in Headers \cup {NoHeader}
    <3>1. CASE ReadHeader
      <4>1. Head(inbox).unit = "header" /\ Head(inbox) \in Units
        BY <1>7, <3>1, ReadsTake DEF ReadHeader
      <4>2. Head(inbox).osdcmd \in Headers
        BY <4>1, UnitFacts
      <4>3. QED
        BY <3>1, <4>2 DEF ReadHeader
    <3>2. CASE ~ReadHeader
      BY <1>1, <1>7, <3>2 DEF Reads, ReadLine, ReadPalette, ReadBitmap
    <3>3. QED
      BY <3>1, <3>2
  <2>3. clientId' \in BOOLEAN
    BY <1>1, <1>7 DEF Reads, ReadLine, ReadHeader, ReadPalette, ReadBitmap, session
  <2>4. UNCHANGED <<conn, osd, pb, playing, libHeld, screen, irReady, keys, events>>
    BY <1>7 DEF Reads, ReadLine, ReadHeader, ReadPalette, ReadBitmap, session
  <2>5. QED
    BY <1>1, <2>1, <2>2, <2>3, <2>4, NextFlagTypes DEF screen, drawn
<1>8. CASE ReadFails
  BY <1>1, <1>8, NextFlagTypes DEF ReadFails, AtEnd, session, screen, net, drawn
<1>9. CASE ApplyOsd
  <2>1. /\ header.cmd = "Set_RLE" => header.arg \in Windows
        /\ header.cmd = "Size" => header.arg \in Sizes
    <3>1. CASE header \in Headers
      BY <3>1, HeaderFacts
    <3>2. CASE header = NoHeader
      BY <3>2 DEF NoHeader, Header
    <3>3. QED
      BY <1>1, <3>1, <3>2
  <2>2. shown' \subseteq Windows
    BY <1>1, <1>9, <2>1 DEF ApplyOsd, Overlay
  <2>3. osdSize' \in Sizes
    BY <1>1, <1>9, <2>1 DEF ApplyOsd
  <2>4. QED
    BY <1>1, <1>9, <2>2, <2>3, NextFlagTypes DEF ApplyOsd, session, net, drawn
<1>10. CASE ServerStarts
  <2>1. todo' \in Seq(Units) /\ UNCHANGED <<inbox, drawn>>
    BY <1>10, SayStream DEF IInv
  <2>2. server' \in {"away", "greeting", "serving", "gone"}
    BY <1>10 DEF ServerStarts
  <2>3. UNCHANGED <<session, screen, irReady, header, keys, events>>
    BY <1>10 DEF ServerStarts
  <2>4. QED
    BY <1>1, <2>1, <2>2, <2>3, NextFlagTypes DEF session, screen, drawn
<1>11. CASE ServerSendsUnit
  <2>1. todo' \in Seq(Units) /\ inbox' \in Seq(Units) /\ UNCHANGED server
    BY <1>11, SendUnit DEF IInv
  <2>2. /\ wanted' \subseteq Windows /\ wiped' \subseteq Windows
        /\ said' \in Sizes \cup {"unsaid"}
    <3>1. Head(todo) \in Units /\ Tells(Head(todo))
      BY <1>11, SendUnit DEF IInv, ServerSendsUnit
    <3>2. QED
      BY <1>1, <3>1, TellsTypes
  <2>3. UNCHANGED <<session, screen, irReady, header, keys, events>>
    BY <1>11 DEF ServerSendsUnit
  <2>4. QED
    BY <1>1, <2>1, <2>2, <2>3, NextFlagTypes DEF session, screen, drawn
<1>12. CASE ServerCloses
  <2>1. todo' \in Seq(Units) /\ inbox' \in Seq(Units) /\ server' = "gone"
    BY <1>1, <1>12 DEF ServerCloses
  <2>2. UNCHANGED <<session, screen, irReady, header, drawn, keys, events>>
    BY <1>12 DEF ServerCloses
  <2>3. QED
    BY <1>1, <2>1, <2>2, NextFlagTypes DEF session, screen, drawn
<1>13. CASE PressKey
  <2>1. keys' \in Seq(Keys)
    BY <1>1, <1>13 DEF PressKey
  <2>2. QED
    BY <1>1, <1>13, <2>1, NextFlagTypes DEF PressKey, session, screen, net, drawn
<1>14. CASE PlaybackEvent
  <2>1. events' \in Seq(Events)
    BY <1>1, <1>14 DEF PlaybackEvent
  <2>2. QED
    BY <1>1, <1>14, <2>1, NextFlagTypes DEF PlaybackEvent, session, screen, net, drawn
<1>15. CASE UNCHANGED vars
  BY <1>1, <1>15, NextFlagTypes DEF vars, session, screen, net, drawn
<1>16. QED
  BY <1>2, <1>3, <1>4, <1>5, <1>6, <1>7, <1>8, <1>9, <1>10, <1>11, <1>12, <1>13,
     <1>14, <1>15, Steps DEF Quiet, MainLoop

-----------------------------------------------------------------------------
(* The theorems *)

LEMMA Initially == Init => IInv
<1> SUFFICES ASSUME Init PROVE IInv
  OBVIOUS
<1>1. TypeOK
  <2>1. todo \in Seq(Units) /\ inbox \in Seq(Units)
        /\ keys \in Seq(Keys) /\ events \in Seq(Events)
    BY DEF Init
  <2>2. /\ pc \in Pcs /\ conn \in {"none", "open", "stale"} /\ clientId \in BOOLEAN
        /\ osd \in BOOLEAN /\ pb \in BOOLEAN /\ playing \in BOOLEAN /\ zoom \in BOOLEAN
        /\ cropped \in BOOLEAN /\ libHeld \in BOOLEAN /\ irReady \in BOOLEAN
        /\ osdSize \in Sizes /\ said \in Sizes \cup {"unsaid"}
        /\ shown \subseteq Windows /\ wanted \subseteq Windows /\ wiped \subseteq Windows
        /\ header \in Headers \cup {NoHeader}
        /\ server \in {"away", "greeting", "serving", "gone"}
    BY DEF Init, Pcs, Sizes
  <2>3. QED
    BY <2>1, <2>2, FlagTypes DEF Pcs
<1>2. Len(inbox) = 0 /\ Ahead = 0
  BY DEF Init, Ahead, Alive
<1>3. SessionInv /\ KeysInv
  BY DEF Init, SessionInv, KeysInv, LoopPcs, ControlPcs
<1>4. FramingInv
  BY <1>2 DEF FramingInv
<1>5. GreetingInv /\ OverlayInv
  BY DEF Init, GreetingInv, AwaitsId, OverlayInv, Connected, LoopPcs, ControlPcs
<1>6. QED
  BY <1>1, <1>3, <1>4, <1>5 DEF IInv

\* The inductive invariant holds in every reachable state: types, what exists
\* in which part of a session, the key that select saw, the framing of the
\* stream, the lines before the client id and the overlay that is due.
THEOREM Inductive == Spec => []IInv
<1>1. IInv /\ [Next]_vars => IInv'
  BY TypeStep, SessionStep, KeysStep, FramingStep, GreetingStep, OverlayStep DEF IInv
<1>2. QED
  BY Initially, <1>1, PTL DEF Spec

\* The client never takes binary data for a line or a line for data, whatever
\* messages the server sends, however much of them has arrived and wherever
\* the connection ends (process_control, handle_control_osdcmd).
THEOREM StreamCorrect == Spec => []StreamStaysInStep
<1>1. IInv => StreamStaysInStep
  <2> SUFFICES ASSUME IInv, inbox # <<>>
               PROVE  /\ pc \in LoopPcs \cup {"handshake", "line", "apply"}
                           => Head(inbox).unit = "line"
                      /\ pc \in {"header", "palette", "bitmap"} => Head(inbox).unit = pc
    BY DEF StreamStaysInStep
  <2>1. Len(inbox) > 0 /\ Head(inbox) = inbox[1]
    BY DEF IInv, TypeOK
  <2>2. Unit(1) = Head(inbox) /\ Ahead > 0
    BY <2>1, StreamTypes DEF Unit, IInv
  <2>3. QED
    BY <2>2 DEF IInv, FramingInv, LinePcs
<1>2. QED
  BY <1>1, Inductive, PTL

\* The handshake loop runs the full process_control before g_hOSD and g_pb
\* exist, and yet no OSD command and no flush is handled in it.
THEOREM InitBeforeUse == Spec => []NothingUsedBeforeInit
<1>1. IInv => NothingUsedBeforeInit
  <2> SUFFICES ASSUME IInv PROVE NothingUsedBeforeInit
    OBVIOUS
  <2>1. pc \in ControlPcs \ {"line"} => osd /\ libHeld
    BY DEF IInv, SessionInv, ControlPcs
  <2>2. ASSUME pc = "line", inbox # <<>>, Head(inbox) = Line("FLUSH"), ~pb
        PROVE  FALSE
    <3>1. AwaitsId
      BY <2>2 DEF IInv, GreetingInv, AwaitsId
    <3>2. /\ Head(inbox) = inbox[1] /\ Len(inbox) > 0
      BY <2>2 DEF IInv, TypeOK
    <3>3. Unit(1) = Line("FLUSH") /\ 1 \in 1..Sent /\ 1..(1 - 1) = {}
      BY <2>2, <3>2, StreamTypes DEF Unit, IInv
    <3>4. Greeting(Unit(1))
      BY <3>1, <3>3 DEF IInv, GreetingInv
    <3>5. QED
      BY <3>3, <3>4 DEF Greeting, Line
  <2>3. pb \in BOOLEAN
    BY FlagTypes DEF IInv
  <2>4. QED
    BY <2>1, <2>2, <2>3 DEF NothingUsedBeforeInit
<1>2. QED
  BY <1>1, Inductive, PTL

\* When everything that was received is handled, the screen shows the windows
\* that the server has drawn and not closed, but for those that the Close of
\* another one has wiped off, and the OSD has the size that the server has set
\* in this session: for any number of windows and commands (hud_osd_command).
THEOREM OverlayCorrect == Spec => []OverlayFollowsServer
<1>1. IInv => OverlayFollowsServer
  <2> SUFFICES ASSUME IInv, pc \in LoopPcs, inbox = <<>>
               PROVE  shown = wanted \ wiped /\ (said # "unsaid" => osdSize = said)
    BY DEF OverlayFollowsServer
  <2>1. Connected /\ pc # "apply" /\ Len(inbox) = 0
    BY DEF Connected, LoopPcs
  <2>2. PICK f \in [0..Len(inbox) -> SUBSET Windows] : Leads(f)
    BY <2>1 DEF IInv, OverlayInv
  <2>3. PICK g \in [0..Len(inbox) -> Sizes] : LeadsSize(g)
    BY <2>1 DEF IInv, OverlayInv
  <2>4. Picture = wanted \ wiped /\ (said # "unsaid" => Size = said)
    BY <2>1, <2>2, <2>3 DEF Leads, LeadsSize
  <2>5. pb
    BY DEF IInv, SessionInv, LoopPcs, ControlPcs
  <2>6. QED
    BY <2>1, <2>4, <2>5 DEF Picture, Size
<1>2. QED
  BY <1>1, Inductive, PTL

\* ir_getkey is never called without a key, although a command of any length
\* is read from the network between the select that saw the key and the call.
THEOREM KeyboardCorrect == Spec => []KeyboardNeverBlocks
<1>1. IInv => KeyboardNeverBlocks
  BY DEF IInv, KeysInv, KeyboardNeverBlocks
<1>2. QED
  BY <1>1, Inductive, PTL

\* However a session ended, deinit has stopped and given back what init set up
\* (not the OSD size, which it does not touch).
THEOREM SessionCorrect == Spec => []SessionReleasesAll
<1>1. IInv => SessionReleasesAll
  <2> SUFFICES ASSUME IInv PROVE SessionReleasesAll
    OBVIOUS
  <2>1. cropped = zoom
    BY DEF IInv, SessionInv
  <2>2. ASSUME pc = "idle"
        PROVE  /\ conn = "none" /\ ~osd /\ ~pb /\ ~libHeld
               /\ ~playing /\ events = <<>> /\ ~zoom
    BY <2>2 DEF IInv, SessionInv
  <2>3. QED
    BY <2>1, <2>2 DEF SessionReleasesAll
<1>2. QED
  BY <1>1, Inductive, PTL
=============================================================================
