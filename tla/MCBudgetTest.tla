---------------------------- MODULE MCBudgetTest ----------------------------
(* One name for the variable, the key and the config's key; a literal path   *)
(* and a constant one.                                                       *)
EXTENDS BudgetGrammar

MCIntValue == [t \in {"0", "2", "50"} |->
                 CASE t = "0" -> 0 [] t = "2" -> 2 [] t = "50" -> 50]
MCFloatValue == [t \in {"0.0", "0.5", "2.5", "-0.1"} |->
                   CASE t = "0.0" -> 0 [] t = "0.5" -> 50 [] t = "2.5" -> 250 [] t = "-0.1" -> -10]
MCSizeLists == [t \in {"[2]", "[1,2]", "[1,2,4]", "[2,1]", "[0,2]"} |->
                  CASE t = "[2]" -> <<2>> [] t = "[1,2]" -> <<1, 2>> [] t = "[1,2,4]" -> <<1, 2, 4>>
                    [] t = "[2,1]" -> <<2, 1>> [] t = "[0,2]" -> <<0, 2>>]

Property(key, value) == <<key, "=", value>>
Sources_ == {<<"2">>, Property("env", "NAME"), Property("config", "NAME"),
             Property("env_file", "PATH"), Property("pct", "50"), <<"of", "=">>}

MCPieces ==
  [limit |-> Sources_ \cup {Property("env_file", "CONST"), Property("pct", "0"),
                            Property("baseline", "CONST")},
   spec |-> Sources_ \cup {<<"cpu", "=">>, <<"mem", "=">>, Property("cpu_baseline", "CONST"),
                           Property("mem_baseline", "2"), Property("env_ident", "CONST")},
   scaling |-> {Property("sizes", t) : t \in DOMAIN MCSizeLists} \cup
               {Property("model", m) : m \in {"linear", "quadratic", "cubic"}} \cup
               {Property("tolerance", t) : t \in DOMAIN MCFloatValue}]

MCCosts == {0, 1, 2, 4, 999}
MCValues == {<<>>, <<-1>>, <<2>>, <<20>>, <<999>>}
=============================================================================
