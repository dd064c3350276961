------------------------------- MODULE Wavefront -------------------------------
(***************************************************************************)
(* What the wave scheduler promises (docs/backend/affinity-wave/           *)
(* ARCHITECTURE.md, "40-layer by 4-lane wavefront"): a prompt is cut into  *)
(* token lanes, and lane c executes layer l once it has executed layer l-1 *)
(* and lane c-1 has executed layer l.  The grid is executed several times. *)
(***************************************************************************)
EXTENDS Naturals

CONSTANTS NLanes, NLayers, Passes

VARIABLE executed   \* the cells that were executed

Cells == [pass : 1 .. Passes, lane : 0 .. NLanes - 1, layer : 0 .. NLayers - 1]

\* What a cell has to wait for; a pass begins when the previous one is over.
Before(cell) ==
  {c \in Cells :
    \/ c.pass < cell.pass
    \/ c.pass = cell.pass /\ c.lane = cell.lane /\ c.layer < cell.layer
    \/ c.pass = cell.pass /\ c.lane < cell.lane /\ c.layer = cell.layer}

Execute(cell) ==
  /\ cell \notin executed
  /\ Before(cell) \subseteq executed
  /\ executed' = executed \cup {cell}

WaveInit == executed = {}
WaveNext == \E cell \in Cells : Execute(cell)

WaveSpec == WaveInit /\ [][WaveNext]_executed
=============================================================================
