----------------------------- MODULE VlcTables -----------------------------
(***************************************************************************)
(* The variable length codes of src/src/encoder/cavlc.c (CT_STR, TZ4_STR,  *)
(* TZC_STR, TZC8_STR and RB_STR, which table_init parses).  A codeword is  *)
(* a number here: a leading one, then its bits; 0 where there is none.     *)
(* Rows and columns are the code's.                                        *)
(***************************************************************************)
EXTENDS BitWriter, FiniteSets

CT == <<
  << <<3,0,0,0>>, <<69,5,0,0>>, <<263,68,9,0>>, <<519,262,133,35>>,
   <<1031,518,261,67>>, <<2055,1030,517,132>>, <<8207,2054,1029,260>>,
   <<8203,8206,2053,516>>, <<8200,8202,8205,1028>>,
   <<16399,16398,8201,2052>>, <<16395,16394,16397,8204>>,
   <<32783,32782,16393,16396>>, <<32779,32778,32781,16392>>,
   <<65551,32769,32777,32780>>, <<65547,65550,65549,32776>>,
   <<65543,65546,65545,65548>>, <<65540,65542,65541,65544>> >>,
  << <<7,0,0,0>>, <<75,6,0,0>>, <<71,39,11,0>>, <<135,74,73,21>>,
   <<263,70,69,20>>, <<260,134,133,38>>, <<519,262,261,72>>,
   <<2063,518,517,68>>, <<2059,2062,2061,132>>, <<4111,2058,2057,516>>,
   <<4107,4110,4109,2060>>, <<4104,4106,4105,2056>>, <<8207,8206,8205,4108>>,
   <<8203,8202,8201,8204>>, <<8199,16395,8198,8200>>,
   <<16393,16392,16394,8193>>, <<16391,16390,16389,16388>> >>,
  << <<31,0,0,0>>, <<79,30,0,0>>, <<75,47,29,0>>, <<72,44,46,28>>,
   <<143,42,43,27>>, <<139,40,41,26>>, <<137,78,77,25>>, <<136,74,73,24>>,
   <<271,142,141,45>>, <<267,270,138,76>>, <<527,266,269,140>>,
   <<523,526,265,268>>, <<520,522,525,264>>, <<1037,519,521,524>>,
   <<1033,1036,1035,1034>>, <<1029,1032,1031,1030>>, <<1025,1028,1027,1026>> >>,
  << <<5,0,0,0>>, <<71,3,0,0>>, <<68,70,9,0>>, <<67,131,130,69>>,
   <<66,259,258,128>>, <<0,0,0,0>>, <<0,0,0,0>>, <<0,0,0,0>>, <<0,0,0,0>>,
   <<0,0,0,0>>, <<0,0,0,0>>, <<0,0,0,0>>, <<0,0,0,0>>, <<0,0,0,0>>,
   <<0,0,0,0>>, <<0,0,0,0>>, <<0,0,0,0>> >>,
  << <<3,0,0,0>>, <<143,5,0,0>>, <<142,141,9,0>>, <<519,140,139,33>>,
   <<518,517,138,65>>, <<1031,1030,516,137>>, <<2055,2054,1029,136>>,
   <<4103,4102,2053,1028>>, <<8199,4101,4100,2052>>, <<0,0,0,0>>,
   <<0,0,0,0>>, <<0,0,0,0>>, <<0,0,0,0>>, <<0,0,0,0>>, <<0,0,0,0>>,
   <<0,0,0,0>>, <<0,0,0,0>> >> >>

TZ4 == <<
  <<0,3,15,21,35,21,65,65,65,65,33,16,16,8,4,2>>,
  <<0,11,14,15,15,20,33,33,17,64,32,17,17,9,5,3>>,
  <<0,10,13,14,21,19,15,13,33,17,9,9,5,3,3,0>>,
  <<0,19,12,13,20,15,14,12,11,7,7,10,3,5,0,0>>,
  <<0,18,11,20,14,14,13,11,7,6,6,3,9,0,0,0>>,
  <<0,35,21,19,13,13,12,7,6,9,5,11,0,0,0,0>>,
  <<0,34,20,12,12,12,11,10,10,5,17,0,0,0,0,0>>,
  <<0,67,19,11,19,11,10,17,9,33,0,0,0,0,0,0>>,
  <<0,66,18,18,11,18,17,9,64,0,0,0,0,0,0,0>>,
  <<0,131,35,35,18,33,9,64,0,0,0,0,0,0,0,0>>,
  <<0,130,34,34,34,17,64,0,0,0,0,0,0,0,0,0>>,
  <<0,259,67,65,33,32,0,0,0,0,0,0,0,0,0,0>>,
  <<0,258,66,33,32,0,0,0,0,0,0,0,0,0,0,0>>,
  <<0,515,65,64,0,0,0,0,0,0,0,0,0,0,0,0>>,
  <<0,514,64,0,0,0,0,0,0,0,0,0,0,0,0,0>>,
  <<0,513,0,0,0,0,0,0,0,0,0,0,0,0,0,0>> >>

TZC == <<
  <<0,3,3,3>>, <<0,5,5,2>>, <<0,9,4,0>>, <<0,8,0,0>> >>

TZC8 == <<
  <<0,3,8,8,14,4,4,2>>, <<0,10,5,9,4,5,5,3>>, <<0,11,9,5,5,6,3,0>>,
  <<0,18,12,6,6,7,0,0>>, <<0,19,13,14,15,0,0,0>>, <<0,17,14,15,0,0,0,0>>,
  <<0,33,15,0,0,0,0,0>>, <<0,32,0,0,0,0,0,0>> >>

RB == <<
  <<0,3,3,7,7,7,7,15>>, <<0,2,5,6,6,6,8,14>>, <<0,0,4,5,5,11,9,13>>,
  <<0,0,0,4,9,10,11,12>>, <<0,0,0,0,8,9,10,11>>, <<0,0,0,0,0,8,13,10>>,
  <<0,0,0,0,0,0,12,9>>, <<0,0,0,0,0,0,0,17>>, <<0,0,0,0,0,0,0,33>>,
  <<0,0,0,0,0,0,0,65>>, <<0,0,0,0,0,0,0,129>>, <<0,0,0,0,0,0,0,257>>,
  <<0,0,0,0,0,0,0,513>>, <<0,0,0,0,0,0,0,1025>>, <<0,0,0,0,0,0,0,2049>> >>

---------------------------------------------------------------------------
\* parse: the bits of a codeword.
Word(n) == LET len == Log2(n) IN BitsOf(len, n - 2^len)

\* Column c of a table as a code: its entries, numbered from zero.
Column(table, c) ==
  [x \in {r \in 0..(Len(table) - 1) : table[r + 1][c + 1] # 0} |-> Word(table[x + 1][c + 1])]

TokenColumn(c) ==
  [x \in {t \in (0..16) \X (0..3) : CT[c + 1][t[1] + 1][t[2] + 1] # 0} |->
     Word(CT[c + 1][x[1] + 1][x[2] + 1])]

\* Every code the block coder can choose, under the name it is chosen by.
Vlc ==
  [t \in ({"coeff_token"} \X (0..4)) \cup ({"tzc"} \X (1..3)) \cup ({"tzc8"} \X (1..7))
         \cup ({"tz4"} \X (1..15)) \cup ({"run_before"} \X (1..7)) |->
    CASE t[1] = "coeff_token" -> TokenColumn(t[2])
      [] t[1] = "tzc"         -> Column(TZC, t[2])
      [] t[1] = "tzc8"        -> Column(TZC8, t[2])
      [] t[1] = "tz4"         -> Column(TZ4, t[2])
      [] t[1] = "run_before"  -> Column(RB, t[2])]

\* No codeword is the beginning of another of its code.
VlcAssumption ==
  \A t \in DOMAIN Vlc : \A x, y \in DOMAIN Vlc[t] :
    x # y => ~IsPrefix(Vlc[t][x], Vlc[t][y])
ASSUME VlcAssumption
============================================================================
