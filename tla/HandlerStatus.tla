---------------------------- MODULE HandlerStatus ----------------------------
(***************************************************************************)
(* The status codes the HTTP handlers map the errors of their use cases    *)
(* to.  An error that is not in a handler's table is answered 500.         *)
(***************************************************************************)

Status(table, error) == IF error \in DOMAIN table THEN table[error] ELSE 500

\* Roles, members, profile and location.  Mutation: as the other role handlers do.
CreateRoleNotFound == [success |-> 201, denied |-> 403, nameExists |-> 409, notFound |-> 404]

CreateRoleStatus == [success |-> 201, denied |-> 403, nameExists |-> 409]

UpdateRoleStatus ==
    [success |-> 200, denied |-> 403, notFound |-> 404, systemRole |-> 403, foreign |-> 403,
     nameExists |-> 409]

DeleteRoleStatus ==
    [success |-> 200, denied |-> 403, notFound |-> 404, systemRole |-> 403, foreign |-> 403,
     assigned |-> 409]

UpdateMemberRoleStatus ==
    [success |-> 200, denied |-> 403, notFound |-> 404, roleConflict |-> 409, self |-> 409,
     roleForbidden |-> 403, creatorGrant |-> 403]

DeleteMemberStatus == [success |-> 200, denied |-> 403, notFound |-> 404, self |-> 409]

UpdateSettingsStatus == [success |-> 200, denied |-> 403, nameExists |-> 409]

UpdateLocationStatus == [success |-> 200, denied |-> 403, notFound |-> 404]

GetSettingsStatus == [success |-> 200, denied |-> 403, notFound |-> 404]

GetLocationStatus == [success |-> 200, denied |-> 403, notFound |-> 404]

GetRolesStatus == [success |-> 200, denied |-> 403]

GetMemberStatus == [success |-> 200, denied |-> 403, notFound |-> 404]

GetMyMembershipStatus == [success |-> 200, inactive |-> 403]

\* Invitations.
CreateInvitationStatus ==
    [success |-> 201, malformed |-> 400, denied |-> 403, roleInvalid |-> 400,
     creatorGrant |-> 403, existingTeacher |-> 409, inactive |-> 409, already |-> 409,
     userExists |-> 409]

RevokeInvitationStatus == [success |-> 204, malformed |-> 400, denied |-> 403, notFound |-> 404]

ListInvitationsStatus == [success |-> 200, denied |-> 403]

VerifyInvitationStatus ==
    [success |-> 200, malformed |-> 400, notFound |-> 404, expired |-> 400, used |-> 400]

RegisterInvitedUserStatus ==
    [success |-> 201, malformed |-> 400, notFound |-> 404, expired |-> 400, used |-> 400,
     creatorGrant |-> 403, userExists |-> 409]

AcceptExistingInvitationStatus ==
    [success |-> 200, malformed |-> 400, session |-> 401, mismatch |-> 403,
     existingTeacher |-> 403, notFound |-> 404, inactive |-> 409, used |-> 409,
     expired |-> 400]

\* Creator requests and their decisions.
CreatorRequestStatus ==
    [success |-> 201, malformed |-> 400, forbidden |-> 403, invalid |-> 400,
     duplicate |-> 409, alreadyCreator |-> 409]

ListCreatorRequestsStatus == [success |-> 200, forbidden |-> 403]

CreatorDecisionStatus ==
    [success |-> 200, malformed |-> 400, forbidden |-> 403, invalid |-> 400, notFound |-> 404,
     decided |-> 409, stale |-> 409, alreadyCreator |-> 409]

ListPlatformStatus == [success |-> 200]
=============================================================================
