---------------------------- MODULE MCOsdPicture ----------------------------
(* Instances of OsdPicture for TLC. *)
EXTENDS OsdPicture

CONSTANTS
  Lens, Colors, MaxRuns,  \* the runs a picture is made of
  Xs, Ys, Ws, Hs,         \* window positions and sizes
  OsdWidths, OsdHeights   \* sizes OSD_Size may have set

MCPictures ==
  SeqOf([len : Lens, color : Colors], MaxRuns)

\* Every window of the given sizes that fits, with a dirty area from its first
\* or second column and row up to the first or the last of a window's.
MCWindows ==
  {w \in [x : Xs, y : Ys, w : Ws, h : Hs, x1 : {0, 1}, y1 : {0, 1},
          x2 : {0} \cup {n - 1 : n \in Ws}, y2 : {0} \cup {n - 1 : n \in Hs},
          osdWidth : OsdWidths, osdHeight : OsdHeights] :
     /\ w.x + w.w <= w.osdWidth /\ w.y + w.h <= w.osdHeight
     /\ w.x1 <= w.x2 /\ w.x2 < w.w /\ w.y1 <= w.y2 /\ w.y2 < w.h}
=============================================================================
