------------------------- MODULE SpatialGridProofs -------------------------
(* Theorems about the arithmetic of module SpatialGrid, for every grid.      *)
EXTENDS SpatialGrid, TLAPS

-----------------------------------------------------------------------------
(* Division.                                                                 *)

\* A quotient and a remainder of a division by b.
LEMMA Division ==
  ASSUME NEW a \in Nat, NEW b \in Nat \ {0}
  PROVE  /\ a \div b \in Nat
         /\ a % b \in 0 .. b - 1
         /\ a = b * (a \div b) + (a % b)
OBVIOUS

\* They are the only ones.
LEMMA Quotient ==
  ASSUME NEW a, NEW b \in Nat \ {0}, NEW q \in Int, NEW r \in 0 .. b - 1, a = b * q + r
  PROVE  a \div b = q /\ a % b = r
OBVIOUS

\* A multiple of b is below another one exactly when its factor is.
LEMMA Multiples ==
  ASSUME NEW b \in Nat \ {0}, NEW m \in Int, NEW n \in Int
  PROVE  /\ m < n <=> m * b < n * b
         /\ m <= n <=> m * b <= n * b
OBVIOUS

\* The numbers less than n times (k + 1) and not less than n times k.
LEMMA Strip ==
  ASSUME NEW n \in Nat \ {0}, NEW k \in Int, NEW x \in Nat
  PROVE  x \in k * n .. k * n + n - 1 <=> x \div n = k
<1>1. ASSUME x \in k * n .. k * n + n - 1 PROVE x \div n = k
  <2>1. x - n * k \in 0 .. n - 1 /\ x = n * k + (x - n * k)
    BY <1>1
  <2> QED
    BY <2>1, Quotient
<1>2. ASSUME x \div n = k PROVE x \in k * n .. k * n + n - 1
  <2>1. x = n * k + (x % n) /\ x % n \in 0 .. n - 1
    BY <1>2, Division
  <2> QED
    BY <2>1
<1> QED
  BY <1>1, <1>2

-----------------------------------------------------------------------------
(* Channels and servers.                                                     *)

\* The channel at a column and a row, if they are in the world.
LEMMA CornerCell ==
  ASSUME NEW g \in Grids, NEW col \in Int, NEW row \in Int
  PROVE  ChannelAt(g, col, row) =
           IF col \in 0 .. g.gridCols - 1 /\ row \in 0 .. g.gridRows - 1
           THEN col + row * g.gridCols ELSE NoCell
<1> DEFINE W == GridWidth
<1>1. /\ W \in Nat \ {0}
      /\ g.gridCols \in Nat \ {0} /\ g.gridRows \in Nat \ {0}
  BY GridWidthAssumption DEF Grids
<1> HIDE DEF W
<1>2. ASSUME NEW m \in Int, NEW n \in Nat \ {0}
      PROVE  m * W \in 0 .. n * W - 1 <=> m \in 0 .. n - 1
  <2> DEFINE a == m * W
             b == n * W
  <2>1. (m < n <=> a < b) /\ (0 <= m <=> 0 * W <= a)
    BY <1>1, Multiples
  <2>2. a \in Int /\ b \in Int /\ 0 * W = 0
    BY <1>1
  <2> HIDE DEF a, b
  <2>3. a \in 0 .. b - 1 <=> m \in 0 .. n - 1
    BY <2>1, <2>2
  <2> QED
    BY <2>3 DEF a, b
<1>3. ASSUME NEW m \in Int PROVE (m * W) \div W = m
  <2>1. (W * m + 0) \div W = m
    BY <1>1, Quotient
  <2>2. W * m + 0 = m * W
    BY <1>1
  <2> QED
    BY <2>1, <2>2
<1>4. /\ <<col * W, row * W>>[1] = col * W
      /\ <<col * W, row * W>>[2] = row * W
  OBVIOUS
<1>5. GetChannelId(g, <<col * W, row * W>>) =
        IF col * W \in 0 .. g.gridCols * W - 1 /\ row * W \in 0 .. g.gridRows * W - 1
        THEN ((col * W) \div W) + ((row * W) \div W) * g.gridCols ELSE NoCell
  BY <1>4 DEF GetChannelId, W
<1>6. /\ col * W \in 0 .. g.gridCols * W - 1 <=> col \in 0 .. g.gridCols - 1
      /\ row * W \in 0 .. g.gridRows * W - 1 <=> row \in 0 .. g.gridRows - 1
  BY <1>1, <1>2
<1>7. (col * W) \div W = col /\ (row * W) \div W = row
  BY <1>3
<1>8. GetChannelId(g, <<col * W, row * W>>) =
        IF col \in 0 .. g.gridCols - 1 /\ row \in 0 .. g.gridRows - 1
        THEN col + row * g.gridCols ELSE NoCell
  BY <1>5, <1>6, <1>7
<1> QED
  BY <1>8 DEF W, ChannelAt

\* The channels of some columns and rows.
LEMMA CellsMember ==
  ASSUME NEW g, NEW cols, NEW rows, NEW c
  PROVE  c \in CellsAt(g, cols, rows) <=>
           \E col \in cols : \E row \in rows : c = ChannelAt(g, col, row)
BY DEF CellsAt

\* A channel has a column and a row in the world.
LEMMA CellPlace ==
  ASSUME NEW g \in Grids, NEW c \in CellsOf(g)
  PROVE  /\ c \in Nat /\ c # NoCell
         /\ c % g.gridCols \in 0 .. g.gridCols - 1
         /\ c \div g.gridCols \in 0 .. g.gridRows - 1
         /\ c = (c % g.gridCols) + (c \div g.gridCols) * g.gridCols
<1> DEFINE w == g.gridCols
           h == g.gridRows
<1>1. w \in Nat \ {0} /\ h \in Nat \ {0}
  BY DEF Grids
<1>2. c \in 0 .. w * h - 1
  BY DEF CellsOf, CellCount
<1> HIDE DEF w, h
<1>3. c \in Nat /\ c < w * h
  BY <1>1, <1>2
<1>4. c \div w \in Nat /\ c % w \in 0 .. w - 1 /\ c = w * (c \div w) + (c % w)
  BY <1>1, <1>3, Division
<1>5. c \div w < h
  <2>1. (c \div w) * w < h * w
    BY <1>1, <1>3, <1>4
  <2> QED
    BY <1>1, <1>4, <2>1, Multiples
<1>6. c \div w \in 0 .. h - 1 /\ c = (c % w) + (c \div w) * w
  BY <1>1, <1>4, <1>5
<1> QED
  BY <1>3, <1>4, <1>6 DEF w, h, NoCell

\* Enough grids per server for all of them.
LEMMA ServersSuffice ==
  ASSUME NEW grids \in Nat \ {0}, NEW servers \in Nat \ {0}
  PROVE  /\ GridsPerServer(grids, servers) \in Nat \ {0}
         /\ grids <= GridsPerServer(grids, servers) * servers
<1>1. /\ grids \div servers \in Nat /\ grids % servers \in 0 .. servers - 1
      /\ grids = servers * (grids \div servers) + (grids % servers)
  BY Division
<1>2. CASE grids % servers > 0
  <2>1. GridsPerServer(grids, servers) = (grids \div servers) + 1
    BY <1>2 DEF GridsPerServer
  <2>2. ((grids \div servers) + 1) * servers = servers * (grids \div servers) + servers
    BY <1>1
  <2> QED
    BY <1>1, <2>1, <2>2
<1>3. CASE ~ (grids % servers > 0)
  <2>1. GridsPerServer(grids, servers) = grids \div servers
    BY <1>1, <1>3 DEF GridsPerServer
  <2>2. grids = servers * (grids \div servers)
    BY <1>1, <1>3
  <2>3. grids \div servers # 0
    BY <1>1, <2>2
  <2> QED
    BY <1>1, <2>1, <2>2, <2>3
<1> QED
  BY <1>2, <1>3

\* Whatever the numbers of grids and servers, divisible or not, GetRegions names
\* an existing server for every channel.
THEOREM EveryChannelHasAServer ==
  ASSUME NEW g \in Grids, NEW c \in CellsOf(g)
  PROVE  RegionServer(g, c) \in ServerIndexes(g)
<1> DEFINE m == g.serverCols
           n == g.serverRows
           a == (c % g.gridCols) \div ServerGridCols(g)
           b == (c \div g.gridCols) \div ServerGridRows(g)
<1>1. m \in Nat \ {0} /\ n \in Nat \ {0}
  BY DEF Grids
<1>2. /\ ServerGridCols(g) \in Nat \ {0} /\ g.gridCols <= ServerGridCols(g) * m
      /\ ServerGridRows(g) \in Nat \ {0} /\ g.gridRows <= ServerGridRows(g) * n
  BY ServersSuffice DEF Grids, ServerGridCols, ServerGridRows
<1>3. ASSUME NEW k \in Nat \ {0}, NEW size \in Nat \ {0}, NEW grids \in Nat,
             grids <= size * k, NEW x \in 0 .. grids - 1
      PROVE  x \div size \in 0 .. k - 1
  <2>1. x \div size \in Nat /\ x = size * (x \div size) + (x % size) /\ x % size \in 0 .. size - 1
    <3>1. x \in Nat
      OBVIOUS
    <3> QED
      BY <3>1, Division
  <2>2. (x \div size) * size < k * size
    BY <1>3, <2>1
  <2>3. x \div size < k
    BY <2>1, <2>2, Multiples
  <2> QED
    BY <2>1, <2>3
<1>4. a \in 0 .. m - 1 /\ b \in 0 .. n - 1
  BY <1>1, <1>2, <1>3, CellPlace DEF Grids
<1>5. RegionServer(g, c) = a + b * m
  BY DEF RegionServer
<1> HIDE DEF a, b, m, n
<1>6. a + b * m \in 0 .. m * n - 1
  <2>1. b * m <= (n - 1) * m
    BY <1>1, <1>4, Multiples
  <2>2. (n - 1) * m = m * n - m /\ b * m \in Nat /\ m * n \in Nat
    BY <1>1, <1>4
  <2> QED
    BY <1>1, <1>4, <2>1, <2>2
<1> QED
  BY <1>5, <1>6 DEF m, n, ServerIndexes, ServerCount

\* GetRegions and CreateChannels divide the grid in the same way: the channels
\* made for a server are those whose regions name it. With the theorem above, the
\* authority areas partition the grid although those at the edges may be smaller.
THEOREM RegionsAreChannels ==
  ASSUME NEW g \in Grids, NEW i \in ServerIndexes(g), NEW c \in CellsOf(g)
  PROVE  c \in ChannelsOfServer(g, i) <=> RegionServer(g, c) = i
<1> DEFINE m == g.serverCols
           w == g.gridCols
           x == c % g.gridCols
           y == c \div g.gridCols
           a == x \div ServerGridCols(g)
           b == y \div ServerGridRows(g)
<1>1. m \in Nat \ {0} /\ g.serverRows \in Nat \ {0} /\ w \in Nat \ {0} /\ g.gridRows \in Nat \ {0}
  BY DEF Grids
<1>2. /\ ServerGridCols(g) \in Nat \ {0} /\ ServerGridRows(g) \in Nat \ {0}
      /\ w <= ServerGridCols(g) * m
  BY ServersSuffice DEF Grids, ServerGridCols, ServerGridRows
<1>3. /\ c \in Nat /\ c # NoCell /\ c = x + y * w
      /\ x \in 0 .. w - 1 /\ y \in 0 .. g.gridRows - 1
  BY CellPlace
<1>4. i \in Nat /\ i % m \in 0 .. m - 1 /\ i \div m \in Nat /\ i = m * (i \div m) + (i % m)
  <2>1. i \in Nat
    BY <1>1 DEF ServerIndexes, ServerCount
  <2> QED
    BY <1>1, <2>1, Division
<1>5. /\ FirstCol(g, i) = (i % m) * ServerGridCols(g) /\ FirstCol(g, i) \in Nat
      /\ FirstRow(g, i) = (i \div m) * ServerGridRows(g) /\ FirstRow(g, i) \in Nat
  BY <1>2, <1>4 DEF FirstCol, FirstRow
<1>6. OwnCols(g, i) \subseteq Int /\ OwnRows(g, i) \subseteq Int
  BY <1>2, <1>5 DEF OwnCols, OwnRows
<1>7. c \in ChannelsOfServer(g, i) <=> x \in OwnCols(g, i) /\ y \in OwnRows(g, i)
  <2>1. ASSUME x \in OwnCols(g, i), y \in OwnRows(g, i) PROVE c \in ChannelsOfServer(g, i)
    <3>1. x \in Int /\ y \in Int
      BY <1>1, <1>3
    <3> HIDE DEF x, y
    <3>2. ChannelAt(g, x, y) = c
      BY <1>3, <3>1, CornerCell
    <3> QED
      BY <2>1, <3>2, CellsMember DEF ChannelsOfServer
  <2>2. ASSUME c \in ChannelsOfServer(g, i) PROVE x \in OwnCols(g, i) /\ y \in OwnRows(g, i)
    <3>1. PICK col \in OwnCols(g, i), row \in OwnRows(g, i) : c = ChannelAt(g, col, row)
      BY <2>2, CellsMember DEF ChannelsOfServer
    <3>2. /\ c = col + row * w /\ col \in 0 .. w - 1 /\ row \in 0 .. g.gridRows - 1
      BY <1>3, <1>6, <3>1, CornerCell
    <3>3. w * row + col = c /\ row \in Int
      BY <1>1, <3>2
    <3>4. y = row /\ x = col
      BY <1>1, <3>2, <3>3, Quotient
    <3> QED
      BY <3>4
  <2> QED
    BY <2>1, <2>2
<1>8. x \in OwnCols(g, i) <=> a = i % m
  BY <1>2, <1>3, <1>4, <1>5, Strip DEF OwnCols
<1>9. y \in OwnRows(g, i) <=> b = i \div m
  BY <1>2, <1>3, <1>4, <1>5, Strip DEF OwnRows
<1>10. a \in 0 .. m - 1 /\ b \in Nat
  <2>1. /\ a \in Nat /\ x = ServerGridCols(g) * a + (x % ServerGridCols(g))
        /\ x % ServerGridCols(g) \in 0 .. ServerGridCols(g) - 1 /\ b \in Nat
    <3>1. x \in Nat /\ y \in Nat
      BY <1>3
    <3> HIDE DEF x, y
    <3> QED
      BY <1>2, <3>1, Division
  <2> HIDE DEF a, b, x, y
  <2>2. a * ServerGridCols(g) < m * ServerGridCols(g)
    BY <1>1, <1>2, <1>3, <2>1
  <2>3. a < m
    BY <1>1, <1>2, <2>1, <2>2, Multiples
  <2> QED
    BY <1>1, <2>1, <2>3
<1>11. RegionServer(g, c) = m * b + a
  BY <1>1, <1>10 DEF RegionServer
<1> HIDE DEF m, w, x, y, a, b
<1>12. a = i % m /\ b = i \div m <=> m * b + a = i
  <2>1. ASSUME m * b + a = i PROVE a = i % m /\ b = i \div m
    <3>1. i = m * b + a /\ b \in Int
      BY <1>10, <2>1
    <3>2. i \div m = b /\ i % m = a
      BY <1>1, <1>10, <3>1, Quotient
    <3> QED
      BY <3>2
  <2> QED
    BY <1>4, <2>1
<1> QED
  BY <1>7, <1>8, <1>9, <1>11, <1>12

\* A column and a row of the world are those of the channel made of them.
LEMMA PlaceOfCell ==
  ASSUME NEW g \in Grids, NEW x \in 0 .. g.gridCols - 1, NEW y \in 0 .. g.gridRows - 1
  PROVE  /\ x + y * g.gridCols \in CellsOf(g)
         /\ (x + y * g.gridCols) % g.gridCols = x
         /\ (x + y * g.gridCols) \div g.gridCols = y
<1> DEFINE w == g.gridCols
           h == g.gridRows
           c == x + y * w
<1>1. w \in Nat \ {0} /\ h \in Nat \ {0}
  BY DEF Grids
<1>2. x \in 0 .. w - 1 /\ y \in 0 .. h - 1
  OBVIOUS
<1> HIDE DEF w, h
<1>3. c \in 0 .. w * h - 1
  <2>1. y * w <= (h - 1) * w
    BY <1>1, <1>2, Multiples
  <2>2. (h - 1) * w = w * h - w /\ y * w \in Nat /\ w * h \in Nat
    BY <1>1, <1>2
  <2> QED
    BY <1>1, <1>2, <2>1, <2>2
<1>4. c % w = x /\ c \div w = y
  <2>1. c = w * y + x
    BY <1>1, <1>2
  <2> QED
    BY <1>1, <1>2, <2>1, Quotient
<1> QED
  BY <1>3, <1>4 DEF w, h, c, CellsOf, CellCount

\* Membership by columns and rows.
LEMMA AdjacentPlace ==
  ASSUME NEW g \in Grids, NEW c \in CellsOf(g), NEW d
  PROVE  d \in GetAdjacentChannels(g, c) <=>
           /\ d \in CellsOf(g) \ {c}
           /\ d % g.gridCols \in (c % g.gridCols) - 1 .. (c % g.gridCols) + 1
           /\ d \div g.gridCols \in (c \div g.gridCols) - 1 .. (c \div g.gridCols) + 1
<1> DEFINE w == g.gridCols
           x == c % w
           y == c \div w
           cols == (x - 1 .. x + 1) \cap (0 .. w - 1)
           rows == (y - 1 .. y + 1) \cap (0 .. g.gridRows - 1)
<1>1. ASSUME d \in GetAdjacentChannels(g, c)
      PROVE  /\ d \in CellsOf(g) \ {c} /\ d % w \in x - 1 .. x + 1
             /\ d \div w \in y - 1 .. y + 1
  <2>1. PICK col \in cols, row \in rows : d = col + row * w
    BY <1>1 DEF GetAdjacentChannels
  <2>2. d \in CellsOf(g) /\ d % w = col /\ d \div w = row
    BY <2>1, PlaceOfCell
  <2> QED
    BY <1>1, <2>1, <2>2 DEF GetAdjacentChannels
<1>2. ASSUME d \in CellsOf(g) \ {c}, d % w \in x - 1 .. x + 1, d \div w \in y - 1 .. y + 1
      PROVE  d \in GetAdjacentChannels(g, c)
  <2>1. /\ d % w \in cols /\ d \div w \in rows
        /\ d = (d % w) + (d \div w) * w
    BY <1>2, CellPlace
  <2> QED
    BY <1>2, <2>1 DEF GetAdjacentChannels
<1> QED
  BY <1>1, <1>2

\* A message broadcast to the adjacent channels goes to existing channels only, and
\* the channels that hear of each other in this way do so mutually, also at the
\* edges of the world, where GetAdjacentChannels leaves rows and columns out.
THEOREM AdjacencyIsMutual ==
  ASSUME NEW g \in Grids, NEW c \in CellsOf(g), NEW d \in CellsOf(g)
  PROVE  /\ GetAdjacentChannels(g, c) \subseteq CellsOf(g) \ {c}
         /\ d \in GetAdjacentChannels(g, c) <=> c \in GetAdjacentChannels(g, d)
<1>1. /\ c % g.gridCols \in Int /\ c \div g.gridCols \in Int
      /\ d % g.gridCols \in Int /\ d \div g.gridCols \in Int
  BY CellPlace
<1> QED
  BY <1>1, AdjacentPlace
-----------------------------------------------------------------------------
(* Areas of interest.                                                        *)

\* A step of the sampling is not more than half a grid, and what the samples leave
\* out at the high edge is what CutOff says.
LEMMA StepFacts ==
  ASSUME NEW extent \in Extents \ {0}
  PROVE  /\ extent \in Nat
         /\ Step(extent) \in Nat \ {0} /\ Step(extent) <= GridWidth
         /\ (2 * extent) % Step(extent) = CutOff(extent)
<1>1. extent \in Nat \ {0} /\ (extent >= GridWidth \/ extent % 2 = 0)
  BY DEF Extents
<1>2. GridWidth \in Nat \ {0} /\ GridWidth = 2 * (GridWidth \div 2) /\ GridWidth \div 2 \in Nat \ {0}
  BY GridWidthAssumption
<1>3. CASE extent < GridWidth
  <2>1. Step(extent) = extent \div 2 /\ extent % 2 = 0
    BY <1>1, <1>2, <1>3 DEF Step
  <2>2. extent = 2 * (extent \div 2) /\ extent \div 2 \in Nat \ {0}
    BY <1>1, <2>1
  <2>3. 2 * extent = Step(extent) * 4 + 0 /\ Step(extent) \in Nat \ {0}
    BY <2>1, <2>2
  <2>4. (2 * extent) % Step(extent) = 0
    <3> DEFINE S == Step(extent)
               d == 2 * extent
    <3>1. d \in Nat /\ S \in Nat \ {0} /\ d = S * 4 + 0 /\ 0 \in 0 .. S - 1
      BY <1>1, <2>3
    <3> HIDE DEF S, d
    <3>2. d % S = 0
      BY <3>1, Quotient
    <3> QED
      BY <3>2 DEF S, d
  <2>5. CutOff(extent) = 0
    BY <1>3 DEF CutOff
  <2> QED
    BY <1>1, <1>2, <1>3, <2>1, <2>2, <2>3, <2>4, <2>5
<1>4. CASE ~ (extent < GridWidth)
  <2>1. Step(extent) = GridWidth \div 2
    BY <1>4 DEF Step
  <2>2. (2 * extent) % Step(extent) = CutOff(extent)
    BY <1>4, <2>1 DEF CutOff, HalfGrid
  <2>3. GridWidth \div 2 <= GridWidth
    BY <1>2
  <2> QED
    BY <1>1, <1>2, <2>1, <2>2, <2>3
<1> QED
  BY <1>3, <1>4

\* No sample is outside the extent.
LEMMA SampleInside ==
  ASSUME NEW center \in Int, NEW extent \in Extents \ {0}, NEW s \in Samples(center, extent)
  PROVE  s \in Int /\ center - extent <= s /\ s <= center + extent
<1> DEFINE S == Step(extent)
           d == 2 * extent
<1>1. extent \in Nat /\ S \in Nat \ {0} /\ d \in Nat /\ d = 2 * extent
  BY StepFacts
<1>2. PICK k \in 0 .. (d \div S) : s = center - extent + k * S
  BY DEF Samples
<1> HIDE DEF S, d
<1>3. d \div S \in Nat /\ d % S \in 0 .. S - 1 /\ d = S * (d \div S) + (d % S)
  BY <1>1, Division
<1>4. k \in Nat /\ k <= d \div S
  BY <1>2, <1>3
<1>5. k * S \in Nat /\ k * S <= (d \div S) * S /\ (d \div S) * S = S * (d \div S)
  <2>1. k * S <= (d \div S) * S
    BY <1>1, <1>3, <1>4, Multiples
  <2> QED
    BY <1>1, <1>3, <1>4, <2>1
<1>6. k * S <= d
  <2>1. (d \div S) * S + (d % S) = d /\ (d \div S) * S <= d
    BY <1>1, <1>3, <1>5
  <2> QED
    BY <1>1, <1>3, <1>5, <2>1
<1> QED
  BY <1>1, <1>2, <1>5, <1>6

\* Every strip a grid wide that the extent, less what is cut off, enters has a sample.
LEMMA StripSampled ==
  ASSUME NEW center \in Int, NEW extent \in Extents \ {0}, NEW x \in Int,
         x <= center + extent - CutOff(extent), center - extent < x + GridWidth
  PROVE  \E s \in Samples(center, extent) : s \in x .. x + GridWidth - 1
<1> DEFINE S == Step(extent)
           d == 2 * extent
           n == d \div S
           lo == center - extent
<1>1. /\ extent \in Nat /\ S \in Nat \ {0} /\ S <= GridWidth /\ d \in Nat /\ d = 2 * extent
      /\ d % S = CutOff(extent)
  BY StepFacts
<1>2. GridWidth \in Nat \ {0}
  BY GridWidthAssumption
<1>3. lo \in Int /\ lo = center - extent
  BY <1>1
<1>4. ASSUME NEW k \in 0 .. n PROVE lo + k * S \in Samples(center, extent)
  BY <1>4 DEF Samples
<1> HIDE DEF S
<1>5. n \in Nat /\ d % S \in 0 .. S - 1 /\ d = S * n + (d % S)
  BY <1>1, Division DEF n
<1> HIDE DEF d, n, lo
<1>6. x <= lo + n * S
  <2>1. S * n = n * S /\ n * S \in Nat
    BY <1>1, <1>5
  <2>2. x <= center + extent - (d % S)
    BY <1>1
  <2> QED
    BY <1>1, <1>3, <1>5, <2>1, <2>2
<1>7. CASE x <= lo
  <2>1. 0 \in 0 .. n /\ lo + 0 * S = lo
    BY <1>1, <1>3, <1>5
  <2>2. lo \in Samples(center, extent)
    BY <1>4, <2>1
  <2>3. lo \in x .. x + GridWidth - 1
    BY <1>2, <1>3, <1>7
  <2> QED
    BY <2>2, <2>3
<1>8. CASE ~ (x <= lo)
  <2> DEFINE y == x - lo
             q == y \div S
             r == y % S
             k == IF r = 0 THEN q ELSE q + 1
  <2>1. y \in Nat \ {0} /\ y <= n * S /\ x = lo + y
    BY <1>1, <1>3, <1>5, <1>6, <1>8
  <2> HIDE DEF y
  <2>2. q \in Nat /\ r \in 0 .. S - 1 /\ y = S * q + r
    BY <1>1, <2>1, Division
  <2> HIDE DEF q, r
  <2>3. k \in Nat
    BY <2>2
  <2>4. (k - 1) * S < y /\ y <= k * S /\ k * S < y + S
    <3>1. CASE r = 0
      BY <1>1, <2>2, <3>1
    <3>2. CASE r # 0
      BY <1>1, <2>2, <3>2
    <3> QED
      BY <3>1, <3>2
  <2> HIDE DEF k
  <2>5. k <= n
    <3>1. (k - 1) * S < n * S
      <4>1. (k - 1) * S \in Int /\ n * S \in Int
        BY <1>1, <1>5, <2>3
      <4> QED
        BY <2>1, <2>4, <4>1
    <3>2. k - 1 < n
      BY <1>1, <1>5, <2>3, <3>1, Multiples
    <3> QED
      BY <1>5, <2>3, <3>2
  <2>6. lo + k * S \in Samples(center, extent)
    BY <1>4, <1>5, <2>3, <2>5
  <2>7. lo + k * S \in x .. x + GridWidth - 1
    <3>1. k * S \in Nat
      BY <1>1, <2>3
    <3> QED
      BY <1>1, <1>2, <1>3, <2>1, <2>4, <3>1
  <2> QED
    BY <2>6, <2>7
<1> QED
  BY <1>7, <1>8

\* The channel of a point, by its column and row.
LEMMA PointPlace ==
  ASSUME NEW g \in Grids, NEW x \in Int, NEW z \in Int, NEW c
  PROVE  GetChannelId(g, <<x, z>>) = c /\ c # NoCell <=>
           /\ c \in CellsOf(g)
           /\ x \in (c % g.gridCols) * GridWidth .. (c % g.gridCols) * GridWidth + GridWidth - 1
           /\ z \in (c \div g.gridCols) * GridWidth .. (c \div g.gridCols) * GridWidth + GridWidth - 1
<1> DEFINE W == GridWidth
           w == g.gridCols
           h == g.gridRows
<1>1. W \in Nat \ {0} /\ w \in Nat \ {0} /\ h \in Nat \ {0}
  BY GridWidthAssumption DEF Grids
<1>2. GetChannelId(g, <<x, z>>) =
        IF x \in 0 .. w * W - 1 /\ z \in 0 .. h * W - 1
        THEN (x \div W) + (z \div W) * w ELSE NoCell
  BY DEF GetChannelId
<1>3. ASSUME NEW n \in Nat \ {0}, NEW a \in 0 .. n * W - 1 PROVE a \in Nat /\ a \div W \in 0 .. n - 1
  <2> HIDE DEF W
  <2>1. a \in Nat /\ a < n * W
    <3>1. n * W \in Nat
      BY <1>1
    <3> QED
      BY <3>1
  <2>2. a \div W \in Nat /\ a % W \in 0 .. W - 1 /\ a = W * (a \div W) + (a % W)
    BY <1>1, <2>1, Division
  <2>3. (a \div W) * W < n * W
    <3>1. (a \div W) * W = W * (a \div W) /\ (a \div W) * W \in Nat /\ n * W \in Nat
      BY <1>1, <2>2
    <3> QED
      BY <1>1, <2>1, <2>2, <3>1
  <2>4. a \div W < n
    BY <1>1, <2>2, <2>3, Multiples
  <2> QED
    BY <2>1, <2>2, <2>4
<1>4. ASSUME NEW n \in Nat \ {0}, NEW k \in 0 .. n - 1, NEW a \in k * W .. k * W + W - 1
      PROVE  a \in 0 .. n * W - 1 /\ a \div W = k
  <2> HIDE DEF W
  <2>1. k \in Nat /\ k * W \in Nat /\ n * W \in Nat /\ (k + 1) * W = k * W + W
    BY <1>1
  <2>2. (k + 1) * W <= n * W
    BY <1>1, <2>1, Multiples
  <2>3. a \in Nat /\ a < n * W
    BY <1>1, <2>1, <2>2
  <2>4. a \div W = k
    <3>1. W \in Nat \ {0} /\ k \in Int /\ a \in Nat /\ a \in k * W .. k * W + W - 1
      BY <1>1, <2>1, <2>3
    <3> QED
      BY <3>1, Strip
  <2> QED
    BY <2>1, <2>3, <2>4
<1>5. ASSUME GetChannelId(g, <<x, z>>) = c, c # NoCell
      PROVE  /\ c \in CellsOf(g)
             /\ x \in (c % w) * W .. (c % w) * W + W - 1
             /\ z \in (c \div w) * W .. (c \div w) * W + W - 1
  <2>1. /\ x \in 0 .. w * W - 1 /\ z \in 0 .. h * W - 1 /\ c = (x \div W) + (z \div W) * w
    BY <1>2, <1>5
  <2>2. x \in Nat /\ z \in Nat /\ x \div W \in 0 .. w - 1 /\ z \div W \in 0 .. h - 1
    BY <1>1, <1>3, <2>1
  <2>3. c \in CellsOf(g) /\ c % w = x \div W /\ c \div w = z \div W
    BY <2>1, <2>2, PlaceOfCell
  <2> HIDE DEF W, w, h
  <2>4. x \in (x \div W) * W .. (x \div W) * W + W - 1
    BY <1>1, <2>2, Strip
  <2>5. z \in (z \div W) * W .. (z \div W) * W + W - 1
    BY <1>1, <2>2, Strip
  <2> QED
    BY <2>3, <2>4, <2>5
<1>6. ASSUME c \in CellsOf(g), x \in (c % w) * W .. (c % w) * W + W - 1,
             z \in (c \div w) * W .. (c \div w) * W + W - 1
      PROVE  GetChannelId(g, <<x, z>>) = c /\ c # NoCell
  <2>1. /\ c # NoCell /\ c % w \in 0 .. w - 1 /\ c \div w \in 0 .. h - 1
        /\ c = (c % w) + (c \div w) * w
    BY <1>6, CellPlace
  <2>2. x \in 0 .. w * W - 1 /\ x \div W = c % w
    BY <1>1, <1>4, <1>6, <2>1
  <2>3. z \in 0 .. h * W - 1 /\ z \div W = c \div w
    BY <1>1, <1>4, <1>6, <2>1
  <2> QED
    BY <1>2, <2>1, <2>2, <2>3
<1> QED
  BY <1>5, <1>6

\* A channel that the area around a point meets.
LEMMA AroundMember ==
  ASSUME NEW g \in Grids, NEW a \in Int, NEW b \in Int, NEW e \in Int, NEW f \in Int,
         NEW cut \in Int, NEW drop \in Int, NEW c
  PROVE  c \in Around(g, <<a, b>>, e, f, cut, drop) <=>
           /\ c \in CellsOf(g)
           /\ (c % g.gridCols) * GridWidth <= a + e - cut
           /\ a - e < (c % g.gridCols) * GridWidth + GridWidth
           /\ (c \div g.gridCols) * GridWidth <= b + f - drop
           /\ b - f < (c \div g.gridCols) * GridWidth + GridWidth
BY DEF Around, Meeting

\* A query returns no channel its area does not meet, and every one that a box
\* reaches by more than its last step leaves out, or the centre of a sphere: however
\* the area lies on the grid, and also when it reaches beyond the world.
THEOREM QueryReaches ==
  ASSUME NEW g \in Grids, NEW q \in Queries, ~QueryFails(g, q)
  PROVE  /\ MustReach(g, q) \subseteq QueryChannelIds(g, q)
         /\ QueryChannelIds(g, q) \subseteq MayReach(g, q)
<1>1. CASE q \in [kind : {"spots"}, spots : SUBSET (Int \X Int)]
  BY <1>1 DEF QueryChannelIds, MustReach, MayReach, SampledPoints
<1>2. ASSUME NEW x \in Int, NEW z \in Int, NEW a \in Int, NEW b \in Int,
             NEW e \in Extents \ {0}, NEW f \in Extents \ {0},
             a - e <= x, x <= a + e, b - f <= z, z <= b + f,
             GetChannelId(g, <<x, z>>) # NoCell
      PROVE  GetChannelId(g, <<x, z>>) \in Around(g, <<a, b>>, e, f, 0, 0)
  <2> DEFINE c == GetChannelId(g, <<x, z>>)
             col == (c % g.gridCols) * GridWidth
             row == (c \div g.gridCols) * GridWidth
  <2>1. c \in CellsOf(g) /\ x \in col .. col + GridWidth - 1 /\ z \in row .. row + GridWidth - 1
    BY <1>2, PointPlace
  <2>2. GridWidth \in Nat /\ e \in Nat /\ f \in Nat
    BY GridWidthAssumption DEF Extents
  <2>3. col \in Int /\ row \in Int
    BY <2>1, <2>2, CellPlace
  <2>4. c \in Around(g, <<a, b>>, e, f, 0, 0) <=>
          c \in CellsOf(g) /\ col <= a + e - 0 /\ a - e < col + GridWidth
          /\ row <= b + f - 0 /\ b - f < row + GridWidth
    BY <2>2, AroundMember
  <2> HIDE DEF c, col, row
  <2>5. /\ col <= a + e - 0 /\ a - e < col + GridWidth
        /\ row <= b + f - 0 /\ b - f < row + GridWidth
    BY <1>2, <2>1, <2>2, <2>3
  <2>6. c \in Around(g, <<a, b>>, e, f, 0, 0)
    BY <2>1, <2>4, <2>5
  <2> QED
    BY <2>6 DEF c
<1>3. CASE q \in [kind : {"box"}, center : Int \X Int, extent : Extents \X Extents]
  <2> DEFINE a == q.center[1]
             b == q.center[2]
             e == q.extent[1]
             f == q.extent[2]
  <2>1. /\ q.kind = "box" /\ q.center = <<a, b>> /\ a \in Int /\ b \in Int
        /\ e \in Extents /\ f \in Extents
    BY <1>3
  <2>2. e # 0 /\ f # 0 /\ GetChannelId(g, <<a, b>>) # NoCell
    BY <2>1 DEF QueryFails
  <2>3. /\ MayReach(g, q) = Around(g, <<a, b>>, e, f, 0, 0)
        /\ MustReach(g, q) = Around(g, <<a, b>>, e, f, CutOff(e), CutOff(f))
        /\ SampledPoints(q) = Samples(a, e) \X Samples(b, f)
        /\ QueryChannelIds(g, q) =
             ({GetChannelId(g, p) : p \in SampledPoints(q)} \ {NoCell})
               \cup {GetChannelId(g, <<a, b>>)}
    BY <2>1 DEF MayReach, MustReach, SampledPoints, QueryChannelIds
  <2>4. e \in Nat /\ f \in Nat /\ CutOff(e) \in Int /\ CutOff(f) \in Int
    <3>1. ASSUME NEW t \in Extents PROVE t \in Nat /\ CutOff(t) \in Int
      <4>1. HalfGrid \in Nat \ {0}
        BY GridWidthAssumption DEF HalfGrid
      <4>2. t \in Nat
        BY DEF Extents
      <4> QED
        BY <4>1, <4>2 DEF CutOff
    <3> QED
      BY <2>1, <3>1
  <2> HIDE DEF a, b, e, f
  <2>5. ASSUME NEW c \in QueryChannelIds(g, q) PROVE c \in MayReach(g, q)
    <3>1. CASE c = GetChannelId(g, <<a, b>>)
      <4>1. a - e <= a /\ a <= a + e /\ b - f <= b /\ b <= b + f
        BY <2>1, <2>4
      <4> QED
        BY <1>2, <2>1, <2>2, <2>3, <3>1, <4>1
    <3>2. CASE c \in {GetChannelId(g, p) : p \in SampledPoints(q)} \ {NoCell}
      <4>1. PICK x \in Samples(a, e), z \in Samples(b, f) : c = GetChannelId(g, <<x, z>>)
        BY <2>3, <3>2
      <4>2. x \in Int /\ a - e <= x /\ x <= a + e
        BY <2>1, <2>2, SampleInside
      <4>3. z \in Int /\ b - f <= z /\ z <= b + f
        BY <2>1, <2>2, SampleInside
      <4> QED
        BY <1>2, <2>1, <2>2, <2>3, <3>2, <4>1, <4>2, <4>3
    <3> QED
      BY <2>3, <3>1, <3>2
  <2>6. ASSUME NEW c \in MustReach(g, q) PROVE c \in QueryChannelIds(g, q)
    <3> DEFINE col == (c % g.gridCols) * GridWidth
               row == (c \div g.gridCols) * GridWidth
    <3>1. /\ c \in CellsOf(g) /\ col <= a + e - CutOff(e) /\ a - e < col + GridWidth
          /\ row <= b + f - CutOff(f) /\ b - f < row + GridWidth
      <4>1. c \in Around(g, <<a, b>>, e, f, CutOff(e), CutOff(f))
        BY <2>3
      <4> QED
        BY <2>1, <2>4, <4>1, AroundMember
    <3>2. col \in Int /\ row \in Int
      BY <3>1, CellPlace, GridWidthAssumption
    <3>3. PICK x \in Samples(a, e) : x \in col .. col + GridWidth - 1
      <4> HIDE DEF col
      <4> QED
        BY <2>1, <2>2, <3>1, <3>2, StripSampled
    <3>4. PICK z \in Samples(b, f) : z \in row .. row + GridWidth - 1
      <4> HIDE DEF row
      <4> QED
        BY <2>1, <2>2, <3>1, <3>2, StripSampled
    <3>5. x \in Int /\ z \in Int
      BY <3>3, <3>4
    <3>6. GetChannelId(g, <<x, z>>) = c /\ c # NoCell
      BY <3>1, <3>3, <3>4, <3>5, PointPlace
    <3>7. <<x, z>> \in SampledPoints(q)
      BY <2>3, <3>3, <3>4
    <3> QED
      BY <2>3, <3>6, <3>7
  <2> QED
    BY <2>5, <2>6
<1>4. CASE q \in [kind : {"sphere"}, center : Int \X Int, radius : Extents]
  <2> DEFINE a == q.center[1]
             b == q.center[2]
             e == q.radius
  <2>1. /\ q.kind = "sphere" /\ q.center = <<a, b>> /\ a \in Int /\ b \in Int /\ e \in Extents
    BY <1>4
  <2>2. e # 0 /\ GetChannelId(g, <<a, b>>) # NoCell
    BY <2>1 DEF QueryFails
  <2>3. /\ MayReach(g, q) = Around(g, <<a, b>>, e, e, 0, 0)
        /\ MustReach(g, q) = {GetChannelId(g, <<a, b>>)}
        /\ SampledPoints(q) \subseteq Samples(a, e) \X Samples(b, e)
        /\ QueryChannelIds(g, q) =
             ({GetChannelId(g, p) : p \in SampledPoints(q)} \ {NoCell})
               \cup {GetChannelId(g, <<a, b>>)}
    BY <2>1 DEF MayReach, MustReach, SampledPoints, QueryChannelIds
  <2>4. e \in Nat
    BY <2>1 DEF Extents
  <2> HIDE DEF a, b, e
  <2>5. ASSUME NEW c \in QueryChannelIds(g, q) PROVE c \in MayReach(g, q)
    <3>1. CASE c = GetChannelId(g, <<a, b>>)
      <4>1. a - e <= a /\ a <= a + e /\ b - e <= b /\ b <= b + e
        BY <2>1, <2>4
      <4> QED
        BY <1>2, <2>1, <2>2, <2>3, <3>1, <4>1
    <3>2. CASE c \in {GetChannelId(g, p) : p \in SampledPoints(q)} \ {NoCell}
      <4>1. PICK x \in Samples(a, e), z \in Samples(b, e) : c = GetChannelId(g, <<x, z>>)
        BY <2>3, <3>2
      <4>2. x \in Int /\ a - e <= x /\ x <= a + e
        BY <2>1, <2>2, SampleInside
      <4>3. z \in Int /\ b - e <= z /\ z <= b + e
        BY <2>1, <2>2, SampleInside
      <4> QED
        BY <1>2, <2>1, <2>2, <2>3, <3>2, <4>1, <4>2, <4>3
    <3> QED
      BY <2>3, <3>1, <3>2
  <2> QED
    BY <2>3, <2>5
<1> QED
  BY <1>1, <1>3, <1>4 DEF Queries
=============================================================================
