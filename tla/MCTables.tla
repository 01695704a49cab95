-------------------------------- MODULE MCTables -------------------------------
EXTENDS TableIteration

CONSTANTS gt, t1, t2, ka, kp, n1, l1, l2

MCKeyOrder == <<ka, kp>>
MCPairsOf ==
  [t \in Tables |-> IF t # gt THEN "pairs"
                    ELSE IF "metatable_without_pairs" \in Corners THEN "metatable"
                    ELSE "plain"]
================================================================================
