-------------------------- MODULE AvailablePackages --------------------------
(***************************************************************************)
(* The slice of the dashboard's Redux store about packages that can be     *)
(* installed: reducers/availablepackages.ts, one operator per action, on a *)
(* record.  Its fields are those of IPackageState; a selected package is   *)
(* NoDetail or a record with a version and its files of default values.    *)
(***************************************************************************)
EXTENDS Naturals, FiniteSets

CONSTANT NoDetail  \* availablePackageDetail is undefined

\* The page token "" is 0.
FirstPage == 0

NoSelection == [error |-> FALSE, detail |-> NoDetail, versions |-> {}, values |-> NoDetail]

initialState ==
    [isFetching |-> FALSE, hasFinishedFetching |-> FALSE, nextPageToken |-> FirstPage,
     items |-> {}, selected |-> NoSelection]

-----------------------------------------------------------------------------
(* The list *)

requestAvailablePackageSummaries(s) == [s EXCEPT !.isFetching = TRUE]

\* (mutant) An answer is never ignored.
receiveSummariesAlways(s, answer) ==
    [s EXCEPT !.isFetching = FALSE,
              !.hasFinishedFetching = (answer.next = FirstPage),
              !.nextPageToken = answer.next,
              !.items = @ \cup answer.items]

\* (mutant) The empty token of the last page is taken for none.
receiveKeepsToken(s, answer) ==
    IF ~s.isFetching THEN s
    ELSE [s EXCEPT !.isFetching = FALSE,
                   !.hasFinishedFetching = (answer.next = FirstPage),
                   !.nextPageToken = IF answer.next = FirstPage THEN @ ELSE answer.next,
                   !.items = @ \cup answer.items]

\* After a reset, and until the next request, an answer is ignored.
receiveAvailablePackageSummaries(s, answer) ==
    IF ~s.isFetching THEN s
    ELSE [s EXCEPT !.isFetching = FALSE,
                   !.hasFinishedFetching = (answer.next = FirstPage),
                   !.nextPageToken = answer.next,
                   !.items = @ \cup answer.items]

resetAvailablePackageSummaries(s) ==
    [s EXCEPT !.hasFinishedFetching = FALSE, !.isFetching = FALSE,
              !.items = {}, !.nextPageToken = FirstPage]

-----------------------------------------------------------------------------
(* The selected package *)

\* Files of default values: the package's own, which is "", and further ones.
defaultValues(detail, custom) ==
    [of   |-> detail,
     file |-> CASE Cardinality(detail.files) = 1 -> CHOOSE f \in detail.files : TRUE
                [] Cardinality(detail.files) > 1 /\ custom \in detail.files -> custom
                [] OTHER -> ""]

requestSelectedAvailablePackageDetail(s)   == [s EXCEPT !.isFetching = TRUE]
requestSelectedAvailablePackageVersions(s) == [s EXCEPT !.isFetching = TRUE]

\* (mutant) The details do not end the spinner.
detailStillFetching(s, detail) ==
    [s EXCEPT !.selected.error = FALSE, !.selected.detail = detail,
              !.selected.values = defaultValues(detail, "")]

\* (mutant) The values are still those of the version before.
receiveDetailOnly(s, detail) ==
    [s EXCEPT !.isFetching = FALSE, !.selected.error = FALSE, !.selected.detail = detail,
              !.selected.values = IF @ = NoDetail THEN defaultValues(detail, "") ELSE @]

receiveSelectedAvailablePackageDetail(s, detail) ==
    [s EXCEPT !.isFetching = FALSE,
              !.selected.error = FALSE,
              !.selected.detail = detail,
              !.selected.values = defaultValues(detail, "")]

receiveSelectedAvailablePackageVersions(s, versions) ==
    [s EXCEPT !.isFetching = FALSE, !.selected.error = FALSE, !.selected.versions = versions]

setAvailablePackageDetailCustomDefaults(s, custom) ==
    [s EXCEPT !.selected.values = defaultValues(s.selected.detail, custom)]

\* (mutant) The selected package stays.
resetSelectedError(s) == [s EXCEPT !.selected.error = FALSE]

resetSelectedAvailablePackageDetail(s) == [s EXCEPT !.selected = NoSelection]

-----------------------------------------------------------------------------
(* Errors, of the list and of the selection alike *)

createErrorPackage(s) ==
    [s EXCEPT !.isFetching = FALSE, !.hasFinishedFetching = FALSE, !.selected.error = TRUE]

clearErrorPackage(s) == [s EXCEPT !.selected.error = FALSE]
=============================================================================
