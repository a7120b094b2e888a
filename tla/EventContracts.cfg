SPECIFICATION ContractsSpec
CONSTANTS
    Topics = {"billing.payment.succeeded",
              "subscription.activated", "subscription.extended", "subscription.grace.started",
              "subscription.expired", "subscription.revoked",
              "access.provision.request", "access.revoke.request",
              "access.provision.succeeded", "access.provision.failed",
              "access.revoke.succeeded", "access.revoke.failed",
              "access.ready", "access.provisioning.failed", "access.revoked"}
    MaxFacts = 2
INVARIANTS
    PaymentsAreCounted
CHECK_DEADLOCK FALSE
