------------------------- MODULE MCChannelLifecycle -------------------------
EXTENDS ChannelLifecycle

CONSTANTS s1, s2, r1

\* As in config/channel_settings_ue.json.
levels(subUnsub, remov) == [Sub |-> subUnsub, Unsub |-> subUnsub, Remove |-> remov]
MCACL == [GLOBAL  |-> levels("Any", "None"),
          NORMAL  |-> levels("OwnerAndGlobalOwner", "OwnerAndGlobalOwner"),
          SPATIAL |-> levels("Any", "OwnerAndGlobalOwner"),
          ENTITY  |-> levels("Any", "OwnerAndGlobalOwner")]

SpatialId == MaxId + 1
EntityId == MaxId + 2

req(kind, c, to, id) == [kind |-> kind, conn |-> c, to |-> to, target |-> c, id |-> id]
create(c, n) == req("create", c, GLOBAL, n)      \* n tells several such requests apart
close(c) == req("close", c, GLOBAL, GLOBAL)
sub(c, x) == req("sub", c, x, GLOBAL)
possess(c) == req("possess", c, GLOBAL, GLOBAL)
other(kind, c, d) == [req(kind, c, 1, GLOBAL) EXCEPT !.target = d]
remove(c, to, x) == req("remove", c, to, x)

MCScenarios == {
  \* ids run out, are freed and given out again
  {create(s1, 0), create(s1, 1), create(s2, 0), remove(s1, GLOBAL, 1), create(s2, 1)},
  {create(s1, 0), create(s1, 1), create(s2, 0), remove(s1, 2, 1)},
  \* the owner leaves, or unsubscribes, around its subscription
  {create(s1, 0), sub(s1, 1), sub(s2, 1), close(s1)},
  {create(s1, 0), sub(s1, 1), close(s1), create(s2, 0), possess(s2)},
  {create(r1, 0), sub(r1, 1), close(r1), create(s2, 0)},
  {create(s1, 0), sub(r1, 1), close(r1), close(s1)},
  {create(s1, 0), req("unsub", s1, 1, GLOBAL), close(s1)},
  {create(s1, 0), possess(s2), other("sub", s2, r1), other("unsub", s2, r1), close(s2)},
  {create(s1, 0), sub(s2, 1), create(s2, 0), close(s1), close(s2)},
  \* a channel is removed twice, or its id used again
  {create(s1, 0), possess(s2), close(s1), remove(s2, GLOBAL, 1), create(s2, 0)},
  {create(s1, 0), remove(s1, GLOBAL, 1), remove(s1, 1, 1)},
  {create(s1, 0), sub(s1, 1), possess(s2), close(s1), remove(s2, SpatialId, 1)},
  \* the GLOBAL channel itself is removed
  {create(s1, 0), create(s1, 1), remove(s1, 1, GLOBAL), close(s1), create(s2, 0)},
  {req("createEntity", s1, GLOBAL, EntityId), close(s1), req("createEntity", s2, GLOBAL, EntityId)},
  {req("createEntity", s1, SpatialId, EntityId), close(s1), req("createEntity", s2, GLOBAL, EntityId)}
}
MCRequests == UNION MCScenarios
=============================================================================
