---------------------------- MODULE ConsulParams ----------------------------
(***************************************************************************)
(* How ppconsul turns keyword arguments into a request and a status into   *)
(* an outcome (kwargs.h, parameters.h, consul.h).  An argument is          *)
(* <<keyword, value>>; a query is the function from the keywords that are  *)
(* printed to their values.  NoText is the empty string, also how the      *)
(* default consistency and the LAN pool print.                             *)
(***************************************************************************)
EXTENDS Naturals, Sequences

NoText == ""

\* The keywords whose value may print as nothing.
Droppable == {"dc", "token", "consistency", "separator", "acquire",
              "release", "pool", "note", "tag"}

\* kwargs::unique_args: of the arguments with one keyword only the last
\* stays; the set of their places.
unique_args(args) ==
  {i \in 1..Len(args) : \A j \in (i + 1)..Len(args) : args[j][1] # args[i][1]}

\* kwargs::get_opt: the last value given for the keyword, or the default.
get_opt(keyword, default, args) ==
  LET at == {i \in 1..Len(args) : args[i][1] = keyword}
  IN IF at = {} THEN default
     ELSE args[CHOOSE i \in at : \A j \in at : j <= i][2]

\* parameters::makeQuery: the unique arguments that print something.
makeQuery(args) ==
  LET printed == {i \in unique_args(args) : args[i][1] \in Droppable => args[i][2] # NoText}
  IN [k \in {args[i][1] : i \in printed} |->
        args[CHOOSE i \in printed : args[i][1] = k][2]]

\* Consul::makeQuery: the Consul object's own data centre and token first.
ConsulQuery(consul, params) ==
  makeQuery(<<<<"dc", consul.dc>>, <<"token", consul.token>>>> \o params)

\* http::Status::success.
success(code) == code \div 100 = 2

\* Consul::get, put and del without a status argument throw for a status that
\* is no success: NotFoundError for 404, BadStatus for the others.
throwStatusError(code) == IF code = 404 THEN "NotFoundError" ELSE "BadStatus"
============================================================================
