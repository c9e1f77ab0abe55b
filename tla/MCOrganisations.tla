--------------------------- MODULE MCOrganisations ---------------------------
(* A company with a department below it, as seed_mock_data begins. *)
EXTENDS Organisations

CONSTANTS t1, t2, t3

CompanyAndDepartment ==
    <<[parent |-> 0, tenant |-> t1, type |-> "company"],
      [parent |-> 1, tenant |-> t2, type |-> "department"]>>

=============================================================================
