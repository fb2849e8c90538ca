---------------------------- MODULE MCCopyOnWrite ----------------------------
EXTENDS CopyOnWrite
SmallInputs == {<<>>, <<1>>, <<0, 1>>}
SmallPositions == 0 .. 2
==============================================================================
