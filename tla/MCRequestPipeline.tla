------------------------- MODULE MCRequestPipeline -------------------------
EXTENDS RequestPipeline

MCFilters == <<"failOpen", "failClose">>
=============================================================================
