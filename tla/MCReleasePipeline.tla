-------------------------- MODULE MCReleasePipeline --------------------------
(* ReleasePipeline with a branch and a tag that builds on one platform of two; *)
(* or with another tag as well, which never builds, and runs of named refs.     *)
EXTENDS ReleasePipeline

MCBranches == <<"main">>
MCTags == <<"v1", "odd">>
MCOneTag == <<"v1">>
MCBuilds == {<<"main", "linux">>, <<"main", "darwin">>, <<"v1", "linux">>,
             <<"radioserver", "linux">>, <<"radioserver", "darwin">>}
MCWanted == {<< >>, <<"v1">>}
MCBlank == {<< >>}
=============================================================================
