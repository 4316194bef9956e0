------------------------------ MODULE MCBbipRpc ------------------------------
EXTENDS BbipRpc

\* A record with and one without coordinates, one the file does not have, and
\* an argument that makes the handler fail.
Record(n, name, optional) ==
    [val |-> <<n, n, name, name, name, name, name, name, name, n, n, n>>,
     isset |-> optional]

MCHandler(method, args) ==
    CASE args = <<"unknown">> ->
            [kind |-> "throw", value |-> [val |-> <<2, "no data">>, isset |-> {}]]
      [] args = <<"fatal">> -> [kind |-> "error", value |-> ""]
      [] OTHER ->
            [kind |-> "return",
             value |-> CASE method = "ping" -> ""
                         [] method = "count" -> 7
                         [] method \in {"query", "query_long"} ->
                               IF args = <<"here">> THEN Record(1, "here", LatLng)
                               ELSE Record(2, "there", {})
                         [] method = "query_string" -> "text"
                         [] method = "GetAreaFlag" -> 5
                         [] method = "GetZoneID" -> 6]

Ask(method, arg) == [method |-> method, arg |-> arg]

Run(first, second, third) ==
    [t \in Threads |-> CASE t = "t1" -> first [] t = "t2" -> second [] t = "t3" -> third]

\* Two threads call the same method, and one uses its result object again.
MCPrograms ==
    {Run({Ask("query", "here"), Ask("query_long", "there")}, {Ask("query", "there")},
         {Ask("GetZoneID", "unknown")}),
     Run({Ask("ping", "")}, {Ask("GetAreaFlag", "here")}, {Ask("count", "")}),
     Run({Ask("query_string", "fatal")}, {Ask("query_string", "here")}, {Ask("getName", "")})}
=============================================================================
