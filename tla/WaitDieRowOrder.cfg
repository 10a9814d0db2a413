\* Spec section 4.1's queue order (oldest waiter served first) against the code.
CONSTANT Txn = {1, 2, 3}
SPECIFICATION Spec
PROPERTY OldestWaiterServedFirst
