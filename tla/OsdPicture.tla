----------------------------- MODULE OsdPicture -----------------------------
(***************************************************************************)
(* The path of one OSD picture through the VDR front end (libfe.cpp):      *)
(* uncompress_osd_net decodes the run-length format of the network,        *)
(* hud_fill_img_memory paints the runs into the OSD surface, and the       *)
(* OSD_Set_RLE case of hud_osd_command stretches the dirty area onto the   *)
(* screen.                                                                 *)
(*                                                                         *)
(* The sizes of the code are parameters: a byte has 2 * Half values        *)
(* (Half = 128), the surface is HudWidth x HudHeight (1920 x 1080), the    *)
(* OSD coordinates are scaled as if the OSD were DefWidth x DefHeight      *)
(* (720 x 576).                                                            *)
(***************************************************************************)
EXTENDS Integers, Sequences, SequencesExt

CONSTANTS
  Half,                  \* the value of the top bit of a byte
  HudWidth, HudHeight,   \* HUD_MAX_WIDTH, HUD_MAX_HEIGHT
  DefWidth, DefHeight,   \* the 720 and 576 of OSD_SCALE_X and OSD_SCALE_Y
  ScreenWidth, ScreenHeight,  \* getScreenRect()
  Pictures,              \* run sequences a server may send
  Windows                \* commands: window, dirty area in it, OSD size

Run == [len : 0..(2 * Half * Half - 1), color : 0..(2 * Half - 1)]

\* A window inside the OSD, with a dirty area inside the window.
IsWindow(w) ==
  /\ {w.x, w.y, w.w, w.h, w.x1, w.x2, w.y1, w.y2, w.osdWidth, w.osdHeight}
       \subseteq Nat
  /\ w.x + w.w <= w.osdWidth /\ w.y + w.h <= w.osdHeight
  /\ w.x1 <= w.x2 /\ w.x2 < w.w
  /\ w.y1 <= w.y2 /\ w.y2 < w.h

ASSUME SizesAssumption ==
  {Half, HudWidth, HudHeight, DefWidth, DefHeight, ScreenWidth, ScreenHeight}
    \subseteq Nat \ {0}
ASSUME PicturesAssumption == Pictures \subseteq Seq(Run)
ASSUME WindowsAssumption ==
  \A w \in Windows :
    IsWindow(w) /\ w.osdWidth <= HudWidth /\ w.osdHeight <= HudHeight

VARIABLES
  runs,    \* the picture as the server has it
  cmd,     \* the command's geometry
  raw,     \* the bytes that arrived
  pc,      \* "decode", "fill", "stretch" or "done"
  ptr,     \* raw, as an index of the next byte
  i,       \* loop index over the elements
  data,    \* the decoded elements
  j,       \* loop index inside a run
  idx,     \* index of the next pixel in the surface
  pixelcounter,
  surface, \* pixels written so far: surface index -> palette index
  blit     \* the source and destination rectangle of DG_Stretch

vars == <<runs, cmd, raw, pc, ptr, i, data, j, idx, pixelcounter, surface,
          blit>>

-----------------------------------------------------------------------------
(* The network format, as the comment in uncompress_osd_net gives it.      *)
Byte2(n)     == <<Half + n \div (2 * Half), n % (2 * Half)>>
EncodeRun(r) == (IF r.len < Half THEN <<r.len>> ELSE Byte2(r.len)) \o <<r.color>>
Encode(rs)   == FlattenSeq([k \in DOMAIN rs |-> EncodeRun(rs[k])])

\* A picture as the pixels of its runs, one after the other.
Unroll(rs) ==
  FlattenSeq([k \in DOMAIN rs |-> [m \in 1..rs[k].len |-> rs[k].color]])
Total(rs)  == Len(Unroll(rs))

Init ==
  /\ runs \in Pictures
  /\ cmd \in {w \in Windows : w.w * w.h = Total(runs)}
  /\ raw = Encode(runs)
  /\ pc = "decode" /\ ptr = 1 /\ i = 1 /\ data = <<>>
  /\ j = 0 /\ idx = 0 /\ pixelcounter = 0 /\ surface = <<>> /\ blit = <<>>

\* The two bytes of a long length: 15 bits, the high ones first.
LongLength7Bits(hi, lo) == (hi - Half) * Half + lo
LongLength(hi, lo)      == (hi - Half) * (2 * Half) + lo

\* One round of the loop of uncompress_osd_net: a set top bit announces a
\* second length byte.
DecodeElement ==
  /\ pc = "decode" /\ i <= Len(runs)
  /\ LET long == raw[ptr] >= Half
         len  == IF long THEN LongLength(raw[ptr], raw[ptr + 1])
                         ELSE raw[ptr]
         next == IF long THEN ptr + 2 ELSE ptr + 1
     IN  /\ data' = Append(data, [len |-> len, color |-> raw[next]])
         /\ ptr' = next + 1
  /\ i' = i + 1
  /\ UNCHANGED <<runs, cmd, raw, pc, j, idx, pixelcounter, surface, blit>>

StartFill ==
  /\ pc = "decode" /\ i > Len(runs)
  /\ pc' = "fill"
  /\ i' = 1 /\ j' = 0 /\ pixelcounter' = 0
  /\ idx' = cmd.y * HudWidth + cmd.x
  /\ UNCHANGED <<runs, cmd, raw, ptr, data, surface, blit>>

\* Is the row of the window full?
FullLate  == pixelcounter > cmd.w
RowFull   == pixelcounter >= cmd.w

\* The inner loop of hud_fill_img_memory: wrap to the next row of the
\* surface when the row of the window is full, then paint one pixel.
FillPixel ==
  /\ pc = "fill" /\ i <= Len(data) /\ j < data[i].len
  /\ LET at == IF RowFull THEN idx + HudWidth - pixelcounter ELSE idx
     IN  /\ surface' = [k \in DOMAIN surface \cup {at} |->
                          IF k = at THEN data[i].color ELSE surface[k]]
         /\ idx' = at + 1
         /\ pixelcounter' = (IF RowFull THEN 0 ELSE pixelcounter) + 1
  /\ j' = j + 1
  /\ UNCHANGED <<runs, cmd, raw, pc, ptr, i, data, blit>>

NextRun ==
  /\ pc = "fill" /\ i <= Len(data) /\ j >= data[i].len
  /\ i' = i + 1 /\ j' = 0
  /\ UNCHANGED <<runs, cmd, raw, pc, ptr, data, idx, pixelcounter, surface,
                 blit>>

EndFill ==
  /\ pc = "fill" /\ i > Len(data)
  /\ pc' = "stretch"
  /\ UNCHANGED <<runs, cmd, raw, ptr, i, data, j, idx, pixelcounter, surface,
                 blit>>

\* One coordinate of the rectangle: move two pixels out, stay in the OSD.
Low(a)         == IF a < 2 THEN 0 ELSE a - 2
SizeOnly(n, osd)    == n
SizeNoLimit(n, osd) == n + 2
Size(n, osd)   == IF n + 2 > osd THEN osd ELSE n + 2
ScaleX(a)      == (a * ScreenWidth) \div DefWidth
ScaleY(a)      == (a * ScreenHeight) \div DefHeight

Stretch ==
  /\ pc = "stretch"
  /\ pc' = "done"
  /\ LET x == Low(cmd.x + cmd.x1)
         y == Low(cmd.y + cmd.y1)
         w == Size(cmd.x2 - cmd.x1 + 1, cmd.osdWidth)
         h == Size(cmd.y2 - cmd.y1 + 1, cmd.osdHeight)
     IN blit' = [x |-> x, y |-> y, w |-> w, h |-> h,
                 xs |-> ScaleX(x), ys |-> ScaleY(y),
                 ws |-> ScaleX(w), hs |-> ScaleY(h)]
  /\ UNCHANGED <<runs, cmd, raw, ptr, i, data, j, idx, pixelcounter, surface>>

Next == \/ DecodeElement \/ StartFill \/ FillPixel \/ NextRun \/ EndFill
        \/ Stretch
Spec == Init /\ [][Next]_vars

-----------------------------------------------------------------------------
(* Properties *)

TypeOK ==
  /\ pc \in {"decode", "fill", "stretch", "done"}
  /\ ptr \in Nat /\ i \in Nat /\ j \in Nat /\ idx \in Nat
  /\ pixelcounter \in 0..HudWidth
  /\ data \in Seq(Run)

\* Decoding gives back the server's runs, short and long ones, and reads
\* exactly the bytes of the message: none too many, none left.
DecodeRestoresRuns ==
  pc # "decode" => data = runs /\ ptr = Len(raw) + 1

\* Where the reference puts pixel k of the picture (counted from 0).
Position(k) == (cmd.y + k \div cmd.w) * HudWidth + cmd.x + (k % cmd.w)

\* The surface indexes of the window.
WindowCells ==
  {(cmd.y + row) * HudWidth + cmd.x + col :
     row \in 0..(cmd.h - 1), col \in 0..(cmd.w - 1)}

\* Exactly the first n pixels of the picture are painted, each at its place.
ShowsFirst(n) ==
  /\ DOMAIN surface = {Position(k) : k \in 0..(n - 1)}
  /\ \A k \in 0..(n - 1) : surface[Position(k)] = Unroll(runs)[k + 1]

\* The pixels the loop has painted.
Painted == Total(SubSeq(data, 1, i - 1)) + j

\* At every moment exactly the first pixels of the picture are painted, each
\* at its place: none twice, none skipped, over any split of the picture into
\* runs.  At the end all of the window is painted and nothing outside it.
PaintsPictureInOrder ==
  /\ pc = "fill" => ShowsFirst(Painted)
  /\ pc \in {"stretch", "done"} => DOMAIN surface = WindowCells

\* The stretched rectangle covers the dirty area and stays in the OSD.
BlitCoversDirtyArea ==
  pc = "done" =>
    /\ blit.x <= cmd.x + cmd.x1 /\ cmd.x + cmd.x2 < blit.x + blit.w
    /\ blit.y <= cmd.y + cmd.y1 /\ cmd.y + cmd.y2 < blit.y + blit.h
    /\ blit.x + blit.w <= cmd.osdWidth /\ blit.y + blit.h <= cmd.osdHeight

InsideScreen ==
  blit.xs + blit.ws <= ScreenWidth /\ blit.ys + blit.hs <= ScreenHeight

\* With an OSD up to the default size the destination is inside the screen.
BlitStaysOnScreen ==
  pc = "done" /\ cmd.osdWidth <= DefWidth /\ cmd.osdHeight <= DefHeight
    => InsideScreen

\* "Set size of VDR OSD area (usually 720x576)": an OSD of another size is
\* scaled to the screen too.  OSD_SCALE_X and OSD_SCALE_Y divide by 720 and
\* 576 whatever OSD_Size has set, so the code does not do this.
EveryOsdFitsScreen == pc = "done" => InsideScreen
=============================================================================
