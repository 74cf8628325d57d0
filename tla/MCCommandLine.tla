--------------------------- MODULE MCCommandLine -----------------------------
(* Paths with scenarios of no matrix, one axis, or two or three axes of       *)
(* different lengths; filters that leave everything, something or nothing.    *)
EXTENDS CommandLine

Plain(matrix) == [matrix |-> matrix, tags |-> {"smoke"}, name |-> "login"]

MCFound == {Plain(m) : m \in { <<<<"a", "b", "c">>, <<"x", "y">>>>,
                               <<<<"a", "b">>, <<"x">>, <<"p", "q">>>> }} \cup
           [matrix : {<<>>, <<<<"a", "b">>>>}, tags : {{"smoke"}, {"slow", "smoke"}},
            name : {"login"}]

NoFilter == [tagsExclude |-> {}, namesExclude |-> {}, tagsInclude |-> {}, namesInclude |-> {}]

MCFilters == { NoFilter,
               [NoFilter EXCEPT !.tagsExclude = {"slow"}],
               [NoFilter EXCEPT !.namesExclude = {"login"}],
               [NoFilter EXCEPT !.tagsInclude = {"slow"}, !.namesInclude = {"login"}],
               [NoFilter EXCEPT !.namesInclude = {"logout"}] }

Of(status) == [status |-> status, failed |-> status = "Failure"]
Ending(status, requests) == [status |-> status, requests |-> requests]

MCEndings == {
  Ending("Success", <<Of("Skipped"), Of("Success")>>),
  Ending("Failure", <<Of("Failure"), Of("Success")>>),
  \* the request failed an assertion, and a script came back to it
  Ending("Failure", <<[status |-> "Success", failed |-> TRUE]>>),
  Ending("Error", <<Of("Success"), Of("Error")>>),
  Ending("Error", <<[status |-> "Error", failed |-> TRUE]>>),
  Ending("Aborted", <<Of("Aborted"), Of("Unset")>>),
  \* a failed setup, and a panic
  Ending("Error", <<Of("Unset")>>),
  Ending("Error", <<Of("Success"), Of("Unset")>>) }
=============================================================================
