------------------------ MODULE MCGitRepoLifecycle ------------------------
(* Values for the constants of GitRepoLifecycle.                            *)
EXTENDS GitRepoLifecycle

MCSpec(t, c, d) == [type |-> t, creation |-> c, deletion |-> d]

CreateDelete == MCSpec("auto", "Create", "Delete")
AdoptArchive == MCSpec("auto", "Adopt", "Archive")
Unmanaged    == MCSpec("unmanaged", "Create", "Delete")

(* One spec for every branch of the controller.                             *)
MCBranches == {CreateDelete, AdoptArchive, Unmanaged}
MCAdoption == {CreateDelete, AdoptArchive}
MCDelete   == {CreateDelete}

MCNoTemplate == {None}
MCTemplates  == {None, AdoptArchive}
=============================================================================
