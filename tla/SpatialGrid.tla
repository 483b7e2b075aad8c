---------------------------- MODULE SpatialGrid ----------------------------
(* The static 2D grid (spatial.go, StaticGrid2DSpatialController): which    *)
(* spatial channel a point is in, which server a channel belongs to, which   *)
(* channels a server creates and which ones it subscribes to on its border,  *)
(* and the channels of an area of interest.                                  *)
(*                                                                          *)
(* A grid g is a record of the configured numbers; a point is <<x, z>>,      *)
(* relative to the world offset; a spatial channel is its index (its id less *)
(* SpatialChannelIdStart). Grids are square: GridWidth = GridHeight.         *)
EXTENDS Integers

CONSTANT GridWidth  \* the side of a grid, in half steps of the smallest query

ASSUME GridWidthAssumption == GridWidth \in Nat /\ GridWidth > 0 /\ GridWidth % 2 = 0

\* The configured numbers. LoadConfig refuses the others (and a border of 0, which
\* InitSpatialController then uses all the same).
Grids == [gridCols : Nat \ {0}, gridRows : Nat \ {0},
          serverCols : Nat \ {0}, serverRows : Nat \ {0}, border : Nat]

\* The error of GetChannelId: the point is outside the world.
NoCell == -1

CellCount(g)   == g.gridCols * g.gridRows
CellsOf(g)     == 0..(CellCount(g) - 1)
ServerCount(g) == g.serverCols * g.serverRows
ServerIndexes(g) == 0..(ServerCount(g) - 1)

GetChannelId(g, p) ==
  IF p[1] \in 0..(g.gridCols * GridWidth - 1) /\ p[2] \in 0..(g.gridRows * GridWidth - 1)
  THEN (p[1] \div GridWidth) + (p[2] \div GridWidth) * g.gridCols
  ELSE NoCell

\* How many grids a server has along an axis: the division is rounded up.
GridsPerServer(grids, servers) ==
  (grids \div servers) + (IF grids % servers > 0 THEN 1 ELSE 0)

ServerGridCols(g) == GridsPerServer(g.gridCols, g.serverCols)
ServerGridRows(g) == GridsPerServer(g.gridRows, g.serverRows)

\* Mutant of RegionServer: the rows are divided like the columns.
RegionServerByCols(g, c) ==
  ((c % g.gridCols) \div ServerGridCols(g))
    + ((c \div g.gridCols) \div ServerGridCols(g)) * g.serverCols

\* The server index GetRegions announces for channel c.
RegionServer(g, c) ==
  ((c % g.gridCols) \div ServerGridCols(g))
    + ((c \div g.gridCols) \div ServerGridRows(g)) * g.serverCols

\* The column and the row of a server's first grid.
FirstCol(g, i) == (i % g.serverCols) * ServerGridCols(g)
FirstRow(g, i) == (i \div g.serverCols) * ServerGridRows(g)

\* The channel at the low corner of a column and a row, NoCell outside the world.
ChannelAt(g, col, row) == GetChannelId(g, <<col * GridWidth, row * GridWidth>>)

CellsAt(g, cols, rows) == {ChannelAt(g, col, row) : col \in cols, row \in rows}

OwnCols(g, i) == FirstCol(g, i) .. (FirstCol(g, i) + ServerGridCols(g) - 1)
OwnRows(g, i) == FirstRow(g, i) .. (FirstRow(g, i) + ServerGridRows(g) - 1)

\* The channels CreateChannels makes for server index i.
ChannelsOfServer(g, i) == CellsAt(g, OwnCols(g, i), OwnRows(g, i))

\* Mutant of BorderOf: the far side ends one grid too early.
BorderOfShort(g, i) ==
  LET cols == ServerGridCols(g)
      rows == ServerGridRows(g)
      c0   == FirstCol(g, i)
      r0   == FirstRow(g, i)
  IN (IF i % g.serverCols > 0
      THEN CellsAt(g, (c0 - g.border)..(c0 - 1), OwnRows(g, i)) ELSE {})
     \cup (IF i % g.serverCols < g.serverCols - 1
           THEN CellsAt(g, (c0 + cols)..(c0 + cols + g.border - 2), OwnRows(g, i)) ELSE {})
     \cup (IF i \div g.serverCols > 0
           THEN CellsAt(g, OwnCols(g, i), (r0 - g.border)..(r0 - 1)) ELSE {})
     \cup (IF i \div g.serverCols < g.serverRows - 1
           THEN CellsAt(g, OwnCols(g, i), (r0 + rows)..(r0 + rows + g.border - 1)) ELSE {})

\* The channels subToAdjacentChannels subscribes server i to: a strip of border
\* grids along each side that has a neighbour, without the corners.
BorderOf(g, i) ==
  LET cols == ServerGridCols(g)
      rows == ServerGridRows(g)
      c0   == FirstCol(g, i)
      r0   == FirstRow(g, i)
  IN (IF i % g.serverCols > 0
      THEN CellsAt(g, (c0 - g.border)..(c0 - 1), OwnRows(g, i)) ELSE {})
     \cup (IF i % g.serverCols < g.serverCols - 1
           THEN CellsAt(g, (c0 + cols)..(c0 + cols + g.border - 1), OwnRows(g, i)) ELSE {})
     \cup (IF i \div g.serverCols > 0
           THEN CellsAt(g, OwnCols(g, i), (r0 - g.border)..(r0 - 1)) ELSE {})
     \cup (IF i \div g.serverCols < g.serverRows - 1
           THEN CellsAt(g, OwnCols(g, i), (r0 + rows)..(r0 + rows + g.border - 1)) ELSE {})

\* The channels whose connections a message broadcast to the adjacent channels of c
\* is sent to, besides its own: those that touch it, also at a corner.
GetAdjacentChannels(g, c) ==
  LET x == c % g.gridCols
      y == c \div g.gridCols
  IN {col + row * g.gridCols : col \in (x - 1 .. x + 1) \cap (0 .. g.gridCols - 1),
                               row \in (y - 1 .. y + 1) \cap (0 .. g.gridRows - 1)} \ {c}

-----------------------------------------------------------------------------
(* QueryChannelIds: an area of interest is sampled from its low edge in      *)
(* steps of half its extent, or of half a grid when that is less. A query is *)
(* [kind |-> "spots", spots |-> points], [kind |-> "box", center |-> p,      *)
(* extent |-> <<ex, ez>>] or [kind |-> "sphere", center |-> p, radius |-> r]. *)

HalfGrid == GridWidth \div 2

Step(extent) == (IF extent < GridWidth THEN extent ELSE GridWidth) \div 2

\* The extents a step of half of which is a number of the model; coordinates of the
\* code are real numbers.
Extents == {e \in Nat : e >= GridWidth \/ e % 2 = 0}

\* Mutant of Samples: the high edge is not sampled.
SamplesBelow(center, extent) ==
  {center - extent + k * Step(extent) : k \in 0..((2 * extent) \div Step(extent) - 1)}

Samples(center, extent) ==
  {center - extent + k * Step(extent) : k \in 0..((2 * extent) \div Step(extent))}

Square(n) == n * n

Queries == [kind : {"spots"}, spots : SUBSET (Int \X Int)]
           \cup [kind : {"box"}, center : Int \X Int, extent : Extents \X Extents]
           \cup [kind : {"sphere"}, center : Int \X Int, radius : Extents]

SampledPoints(q) ==
  CASE q.kind = "spots" -> q.spots
    [] q.kind = "box" -> Samples(q.center[1], q.extent[1]) \X Samples(q.center[2], q.extent[2])
    [] q.kind = "sphere" ->
         {p \in Samples(q.center[1], q.radius) \X Samples(q.center[2], q.radius) :
            Square(p[1] - q.center[1]) + Square(p[2] - q.center[2]) <= Square(q.radius)}

\* The centre of a box or a sphere must be in the world, and it must have an extent.
QueryFails(g, q) ==
  \/ q.kind # "spots" /\ GetChannelId(g, q.center) = NoCell
  \/ q.kind = "box" /\ (q.extent[1] = 0 \/ q.extent[2] = 0)
  \/ q.kind = "sphere" /\ q.radius = 0

QueryChannelIds(g, q) ==
  ({GetChannelId(g, p) : p \in SampledPoints(q)} \ {NoCell})
    \cup (IF q.kind = "spots" THEN {} ELSE {GetChannelId(g, q.center)})

-----------------------------------------------------------------------------
(* Reference definitions, read by properties only: the grids an area meets.  *)

\* The grids of CellsOf(g) that meet [lo1, hi1] x [lo2, hi2].
Meeting(g, lo1, hi1, lo2, hi2) ==
  {c \in CellsOf(g) :
     LET x == (c % g.gridCols) * GridWidth
         z == (c \div g.gridCols) * GridWidth
     IN x <= hi1 /\ lo1 < x + GridWidth /\ z <= hi2 /\ lo2 < z + GridWidth}

Around(g, p, e1, e2, cut1, cut2) ==
  Meeting(g, p[1] - e1, p[1] + e1 - cut1, p[2] - e2, p[2] + e2 - cut2)

\* Every grid that may be returned: those that meet the area.
MayReach(g, q) ==
  CASE q.kind = "spots"  -> {GetChannelId(g, p) : p \in q.spots} \ {NoCell}
    [] q.kind = "box"    -> Around(g, q.center, q.extent[1], q.extent[2], 0, 0)
    [] q.kind = "sphere" -> Around(g, q.center, q.radius, q.radius, 0, 0)

\* Every grid that must be returned. The last sample of a box lies below its high
\* edge when the extent is a whole grid or more and no multiple of half a step: a
\* grid the box enters by less is missed. A sphere is only promised its centre.
CutOff(extent) == IF extent < GridWidth THEN 0 ELSE (2 * extent) % HalfGrid

MustReach(g, q) ==
  CASE q.kind = "spots"  -> {GetChannelId(g, p) : p \in q.spots} \ {NoCell}
    [] q.kind = "box"    -> Around(g, q.center, q.extent[1], q.extent[2],
                                   CutOff(q.extent[1]), CutOff(q.extent[2]))
    [] q.kind = "sphere" -> {GetChannelId(g, q.center)}
=============================================================================
