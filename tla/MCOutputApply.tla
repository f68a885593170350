--------------------------- MODULE MCOutputApply ---------------------------
(* A panel and a monitor, and layouts that need every kind of transaction. *)
EXTENDS OutputApply

CONSTANTS dp, edp

MCOutputs == {dp, edp}
MCPanels == {edp}
MCRank == [o \in MCOutputs |-> IF o = dp THEN 1 ELSE 2]

MCWish(enabled, on, mode, place, persistent, confirm) ==
    [enabled |-> enabled, powered |-> on, mode |-> mode, place |-> place,
     persistent |-> persistent, confirm |-> confirm]

MCWishes ==
    {MCWish(MCOutputs, MCOutputs, 0, 1, TRUE, TRUE),
     MCWish(MCOutputs, MCOutputs, 1, 0, FALSE, TRUE),
     MCWish({dp}, {dp}, 0, 0, TRUE, TRUE),
     MCWish({edp}, {edp}, 0, 0, TRUE, FALSE),
     MCWish(MCOutputs, {dp}, 0, 0, FALSE, FALSE)}

MCDesk(off, shut, layouts, events) ==
    [disabled |-> off, closed |-> shut, requests |-> layouts, moves |-> events]

MCDesks ==
    {MCDesk({}, FALSE, 2, 0), MCDesk(MCOutputs, FALSE, 1, 1), MCDesk({}, TRUE, 1, 2)}
=============================================================================
