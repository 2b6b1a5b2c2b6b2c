----------------------------- MODULE MCAdminLists -----------------------------
EXTENDS AdminLists

\* A shared link to the second page of a region nobody knows.
MCShared == {[Param("region", "MARS") EXCEPT !.page = 2]}
===============================================================================
