------------------------------ MODULE MCRecords ------------------------------
EXTENDS Records

Row(k, g) == [key |-> k, txt |-> 0, grp |-> g]

\* More than a page of values to rotate; values that stop the rotation, with room for an insert.
MCTables ==
  {<<Row("old", 1), Row("old", 2), Row("old", 2)>>,
   <<Row("old", 1), Row("lost", 2), Absent>>,
   <<Row("plain", 1), Row("broken", 2), Absent>>}
=============================================================================
