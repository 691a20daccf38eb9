--------------------------- MODULE MCVirtualDisplay ---------------------------
EXTENDS VirtualDisplay

Mode(w, h, hz) == [width |-> w, height |-> h, hz |-> hz]
MCDesired == Mode(6, 4, 60)
MCModeLists == {<<>>, <<Mode(3, 2, 30), Mode(6, 4, 50), Mode(6, 4, 70), Mode(6, 4, 60)>>,
  <<Mode(6, 4, 50), Mode(6, 4, 70), Mode(8, 3, 60)>>,
  <<Mode(8, 3, 60), Mode(3, 2, 30), Mode(3, 2, 60), Mode(9, 6, 30)>>,
  <<Mode(8, 4, 30), Mode(5, 5, 30), Mode(5, 5, 60)>>}
===============================================================================
