------------------------------ MODULE WaveData ------------------------------
(***************************************************************************)
(* The ten waves of enemy_status.sv and the values of sig that end them.   *)
(* A wave is written as in the source, one entry per column from column 9  *)
(* down to column 0, an entry being the set of rows whose bit is 1.        *)
(***************************************************************************)
EXTENDS Naturals

Columns == 0 .. 9

Fleet(columns) ==
  UNION { {<<c, r>> : r \in columns[10 - c]} : c \in Columns }

Waves == <<
  Fleet(<<{3}, {}, {}, {1}, {}, {5}, {0}, {}, {4}, {}>>),
  Fleet(<<{3}, {}, {5}, {5}, {}, {4}, {0}, {2}, {}, {}>>),
  Fleet(<<{}, {2}, {}, {4}, {}, {2}, {0}, {1, 2}, {}, {}>>),
  Fleet(<<{}, {}, {1}, {}, {3}, {}, {1}, {}, {3}, {}>>),
  Fleet(<<{}, {3}, {1}, {2}, {0}, {4}, {0}, {3}, {}, {}>>),
  Fleet(<<{5}, {1}, {4}, {}, {}, {1, 3, 5}, {}, {}, {}, {4}>>),
  Fleet(<<{2, 3}, {}, {4, 5}, {}, {}, {}, {3, 5}, {}, {}, {0, 4}>>),
  Fleet(<<{}, {4}, {}, {0, 2, 5}, {}, {1, 4}, {}, {}, {}, {0, 2}>>),
  Fleet(<<{}, {}, {}, {}, {0, 5}, {}, {0, 4}, {0, 5}, {}, {0, 2}>>),
  Fleet(<<{3, 5}, {1, 5}, {2, 4}, {0}, {}, {5}, {}, {0, 3}, {5}, {}>>)
>>

Thresholds == <<4, 5, 5, 3, 6, 6, 7, 7, 7>>

=============================================================================
